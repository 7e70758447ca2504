------------------------------ MODULE AnsiParser ------------------------------
(***************************************************************************)
(* src/src/ansi/parser.rs: the byte parser behind every emulator. A step   *)
(* is one call of `advance`; what it reports to its Perform sink is the    *)
(* sequence `emitted`, of at most two events. A character is the sequence  *)
(* of its bytes.                                                           *)
(***************************************************************************)
EXTENDS Integers, Sequences

CONSTANTS
    U16Max,   \* u16::MAX, where a parameter saturates
    MaxOsc    \* MAX_OSC, the longest string sequence

ASSUME ParserAssumption == U16Max \in Nat \ {0} /\ MaxOsc \in Nat \ {0}

VARIABLES
    pstate, params, cur, sawDigit, private, oscLen,
    utf8,     \* utf8_buf[..utf8_len]
    need,     \* utf8_need
    emitted

seqVars    == <<params, cur, sawDigit, private>>
parserVars == <<pstate, seqVars, oscLen, utf8, need, emitted>>

NoPrivate == 0
BEL       == 7
LF        == 10
CR        == 13
CAN       == 24
SUB       == 26
ESC       == 27
Semicolon == 59
CsiStart  == 91
Backslash == 92
DEL       == 127

Byte         == 0..255
ExecutableC0 == (0..31) \ {CAN, SUB, ESC}
Continuation == 128..191
Digits       == 48..57
Privates     == 60..63
Finals       == 64..126
CsiIgnored   == (32..47) \cup {58, DEL}
StringStarts == {80, 88, 93, 94, 95}    \* P X ] ^ _

Replacement == <<239, 191, 189>>

Printed(c)    == [kind |-> "print", char |-> c]
Execute(b)    == [kind |-> "execute", byte |-> b]
CsiEvent(p, m, b) == [kind |-> "csi", params |-> p, private |-> m, final |-> b]

ParserInit ==
    /\ pstate = "Ground" /\ params = <<>> /\ cur = 0 /\ sawDigit = FALSE
    /\ private = NoPrivate /\ oscLen = 0 /\ utf8 = <<>> /\ need = 0 /\ emitted = <<>>

ResetParams == params' = <<>> /\ cur' = 0 /\ sawDigit' = FALSE /\ private' = NoPrivate
ClearUtf8   == utf8' = <<>> /\ need' = 0

-----------------------------------------------------------------------------
(* UTF-8.                                                                  *)

\* How many bytes the lead byte b announces, 0 when it is not a lead byte.
NeedOf(b) ==
    CASE b \in 192..223 -> 2
      [] b \in 224..239 -> 3
      [] b \in 240..247 -> 4
      [] OTHER          -> 0

\* from_utf8: a whole character, no overlong form, no surrogate, nothing above U+10FFFF.
IsChar(s) ==
    /\ Len(s) = NeedOf(s[1])
    /\ CASE Len(s) = 2 -> s[1] >= 194
         [] Len(s) = 3 -> /\ s[1] = 224 => s[2] >= 160
                          /\ s[1] = 237 => s[2] <= 159
         [] Len(s) = 4 -> /\ s[1] \in 240..244
                          /\ s[1] = 240 => s[2] >= 144
                          /\ s[1] = 244 => s[2] <= 143

FlushUtf8(s) == <<Printed(IF IsChar(s) THEN s ELSE Replacement)>>

\* A continuation byte of a character under way.
Continue(b) ==
    /\ need > 0 /\ b \in Continuation
    /\ LET s == Append(utf8, b)
       IN  IF Len(s) = need
             THEN emitted' = FlushUtf8(s) /\ ClearUtf8
             ELSE emitted' = <<>> /\ utf8' = s /\ need' = need
    /\ UNCHANGED <<pstate, seqVars, oscLen>>

-----------------------------------------------------------------------------
(* The states. `lead` is what `advance` has reported before it got here.   *)

\* Mutant of StartEscape: the parameters of an interrupted sequence stay.
StartEscapeUnreset(lead) ==
    /\ emitted' = lead /\ ClearUtf8 /\ oscLen' = oscLen /\ UNCHANGED seqVars
    /\ pstate' = IF pstate = "OscString" THEN "OscStringEsc" ELSE "Esc"

StartEscape(lead) ==
    /\ emitted' = lead /\ ClearUtf8 /\ oscLen' = oscLen
    /\ IF pstate = "OscString"
         THEN pstate' = "OscStringEsc" /\ UNCHANGED seqVars
         ELSE pstate' = "Esc" /\ ResetParams

Ground(b, lead) ==
    /\ pstate = "Ground"
    /\ IF NeedOf(b) > 0 THEN utf8' = <<b>> /\ need' = NeedOf(b) ELSE ClearUtf8
    /\ emitted' = lead \o
         CASE b < 32 \/ b = DEL        -> <<Execute(b)>>
           [] b \in 32..126            -> <<Printed(<<b>>)>>
           [] b > DEL /\ NeedOf(b) = 0 -> <<Printed(Replacement)>>
           [] OTHER                    -> <<>>
    /\ UNCHANGED <<pstate, seqVars, oscLen>>

Executed(b) == IF b \in ExecutableC0 THEN <<Execute(b)>> ELSE <<>>

\* Where the byte after ESC leads. CAN, SUB and any byte not listed end it.
EscapeTo(b) ==
    /\ pstate' = CASE b \in ExecutableC0 -> "Esc"
                   [] b = CsiStart       -> "Csi"
                   [] b \in StringStarts -> "OscString"
                   [] b \in 32..47       -> "EscIntermediate"
                   [] OTHER              -> "Ground"
    /\ oscLen' = IF b \in StringStarts THEN 0 ELSE oscLen

Escape(b, lead) ==
    /\ pstate = "Esc"
    /\ EscapeTo(b)
    /\ emitted' = lead \o Executed(b)
    /\ ClearUtf8 /\ UNCHANGED seqVars

EscIntermediate(b, lead) ==
    /\ pstate = "EscIntermediate"
    /\ pstate' = IF b \in ExecutableC0 THEN pstate ELSE "Ground"
    /\ emitted' = lead \o Executed(b)
    /\ ClearUtf8 /\ UNCHANGED <<seqVars, oscLen>>

Saturated(n) == IF n > U16Max THEN U16Max ELSE n

\* The parameters a final byte completes.
Completed == IF sawDigit THEN Append(params, cur) ELSE params

\* CAN, SUB and bytes above DEL abort the sequence.
CsiAborts(b, lead) ==
    /\ b \notin ExecutableC0 \cup Digits \cup {Semicolon} \cup Privates \cup CsiIgnored \cup Finals
    /\ pstate' = "Ground" /\ emitted' = lead /\ ResetParams

Csi(b, lead) ==
    /\ pstate = "Csi"
    /\ ClearUtf8 /\ oscLen' = oscLen
    /\ \/ /\ b \in ExecutableC0 \cup CsiIgnored
          /\ emitted' = lead \o Executed(b) /\ UNCHANGED <<pstate, seqVars>>
       \/ /\ b \in Digits
          /\ cur' = Saturated(cur * 10 + (b - 48)) /\ sawDigit' = TRUE
          /\ emitted' = lead /\ UNCHANGED <<pstate, params, private>>
       \/ /\ b = Semicolon
          /\ params' = Append(params, cur) /\ cur' = 0 /\ sawDigit' = FALSE
          /\ emitted' = lead /\ UNCHANGED <<pstate, private>>
       \/ /\ b \in Privates
          /\ private' = b
          /\ emitted' = lead /\ UNCHANGED <<pstate, params, cur, sawDigit>>
       \/ /\ b \in Finals
          /\ emitted' = lead \o <<CsiEvent(Completed, private, b)>>
          /\ pstate' = "Ground" /\ ResetParams
       \/ CsiAborts(b, lead)

\* BEL ends a string; a line end or too many bytes abort it.
StringEnds(b) == b \in {BEL, LF, CR} \/ oscLen + 1 > MaxOsc

\* Mutant of Osc: a line end in a string is swallowed with the string.
OscSwallows(b, lead) ==
    /\ pstate = "OscString"
    /\ oscLen' = oscLen + 1
    /\ pstate' = IF StringEnds(b) THEN "Ground" ELSE pstate
    /\ emitted' = lead
    /\ ClearUtf8 /\ UNCHANGED seqVars

Osc(b, lead) ==
    /\ pstate = "OscString"
    /\ oscLen' = oscLen + 1
    /\ pstate' = IF StringEnds(b) THEN "Ground" ELSE pstate
    /\ emitted' = lead \o (IF b \in {LF, CR} THEN <<Execute(b)>> ELSE <<>>)
    /\ ClearUtf8 /\ UNCHANGED seqVars

\* ESC \ ends the string; after any other byte the ESC began a new sequence.
OscEsc(b, lead) ==
    /\ pstate = "OscStringEsc"
    /\ ClearUtf8
    /\ \/ /\ b = Backslash
          /\ pstate' = "Ground" /\ emitted' = lead /\ UNCHANGED <<seqVars, oscLen>>
       \/ /\ b # Backslash
          /\ ResetParams
          /\ EscapeTo(b)
          /\ emitted' = lead \o Executed(b)

Dispatch(b, lead) ==
    \/ b = ESC /\ StartEscape(lead)
    \/ /\ b # ESC
       /\ \/ Ground(b, lead) \/ Escape(b, lead) \/ EscIntermediate(b, lead)
          \/ Csi(b, lead) \/ Osc(b, lead) \/ OscEsc(b, lead)

\* A byte that cannot continue the character under way is parsed after it.
Advance(b) ==
    \/ Continue(b)
    \/ need = 0 /\ Dispatch(b, <<>>)
    \/ need > 0 /\ b \notin Continuation /\ Dispatch(b, <<Printed(Replacement)>>)
=============================================================================
