------------------------------- MODULE Delivery -------------------------------
(***************************************************************************)
(* src/src/wrapper.rs and src/src/jitter.rs: how Wrapper::send gets one    *)
(* command into the target's input field.                                  *)
(*                                                                         *)
(* A command is a sequence of characters: words' letters, blanks, "\n" and *)
(* invisible code points. It goes out as a few writes with pauses between  *)
(* them; any write may fail, and then nothing more is typed. The editor at *)
(* the other end is external, what the comments of wrapper.rs say of it:   *)
(* an Enter that stands alone after a pause submits, one in the middle of  *)
(* a burst breaks the line, a bracketed paste is taken literally, and      *)
(* invisible characters make it swallow the Enter.                         *)
(***************************************************************************)
EXTENDS Integers, Sequences, SequencesExt, FiniteSetsExt

CONSTANTS
    Invisible,   \* is_invisible
    Chunk,       \* CHUNK of send_burst
    BurstMax     \* BURST_MAX_BYTES


VARIABLES
    text,        \* the command
    style,       \* "paste", "burst" or "jitter"
    width,       \* wrap_input
    typing,      \* "none", "body", "submit", "sent", "failed"
    body,        \* what is left to be written before the Enter
    softBreak,   \* the editor takes "\n" as a line break, not as a submission
    field,       \* what its input field holds
    pasting,     \* it is inside a bracketed paste
    submissions  \* what was submitted to the target

typingVars == <<text, style, width, typing, body>>
editorVars == <<softBreak, field, pasting, submissions>>
deliveryVars == <<typingVars, editorVars>>

Blank      == " "
LF         == "\n"
CR         == "\r"
PasteBegin == "ESC[200~"
PasteEnd   == "ESC[201~"

\* The code points that is_invisible lists are no part of C0.
ASSUME DeliveryAssumption ==
    /\ Chunk \in Nat \ {0} /\ BurstMax \in Nat
    /\ Invisible \cap {Blank, LF, CR, PasteBegin, PasteEnd} = {}

DeliveryInit ==
    /\ text = <<>> /\ style = "jitter" /\ width = 0 /\ typing = "none" /\ body = <<>>
    /\ softBreak = FALSE /\ field = <<>> /\ pasting = FALSE /\ submissions = <<>>

-----------------------------------------------------------------------------
(* Preparing the text.                                                     *)

\* The characters of s but for those in S.
Without(s, S) ==
    LET Upto[i \in 0 .. Len(s)] ==
          IF i = 0 THEN <<>>
          ELSE IF s[i] \in S THEN Upto[i - 1] ELSE Append(Upto[i - 1], s[i])
    IN  Upto[Len(s)]

StripInvisible(s) == Without(s, Invisible)

\* Mutant of CutAfter: the window is one column too wide.
CutAfterInclusive(s, start, w) ==
    LET blanks == {i \in start + 2 .. start + w + 1 : s[i] = Blank}
    IN  IF blanks = {} THEN start + w ELSE Max(blanks)

\* Where the segment behind position `start` ends: at the last blank of the window
\* of w columns, its first column apart, or else at the end of the window.
CutAfter(s, start, w) ==
    LET blanks == {i \in start + 2 .. start + w : s[i] = Blank}
    IN  IF blanks = {} THEN start + w ELSE Max(blanks)

\* Where the line behind position `start` ends.
LineEnd(s, start) == Min({Len(s)} \cup {i \in start .. Len(s) - 1 : s[i + 1] = LF})

FoldText(s, w) ==
    LET From[start \in 0 .. Len(s)] ==
          LET end == LineEnd(s, start)
              cut == CutAfter(s, start, w)
          IN  IF end - start > w THEN SubSeq(s, start + 1, cut) \o <<LF>> \o From[cut]
              ELSE SubSeq(s, start + 1, end)
                     \o (IF end = Len(s) THEN <<>> ELSE <<LF>> \o From[end + 1])
    IN  IF w = 0 THEN s ELSE From[0]

BracketedPaste(s) == <<PasteBegin>> \o s \o <<PasteEnd>>

NewlinesAsEnters(s) == [i \in DOMAIN s |-> IF s[i] = LF THEN CR ELSE s[i]]

-----------------------------------------------------------------------------
(* The editor (external).                                                  *)

Submit(e) ==
    IF \E i \in DOMAIN e.field : e.field[i] \in Invisible
      THEN [e EXCEPT !.field = Without(@, Invisible)]
      ELSE [e EXCEPT !.field = <<>>, !.submissions = Append(@, e.field)]

Key(e, c, deliberate) ==
    CASE c = PasteBegin -> [e EXCEPT !.pasting = TRUE]
      [] c = PasteEnd   -> [e EXCEPT !.pasting = FALSE]
      [] c = CR /\ ~e.pasting ->
            IF deliberate THEN Submit(e) ELSE [e EXCEPT !.field = Append(@, LF)]
      [] c = LF /\ ~e.pasting /\ ~softBreak -> Submit(e)
      [] OTHER -> [e EXCEPT !.field = Append(@, c)]

\* It is given one write; `paused` when the write stands alone after a pause.
Receive(chars, paused) ==
    LET now == [field |-> field, pasting |-> pasting, submissions |-> submissions]
        deliberate == paused /\ Len(chars) = 1
        After[i \in 0 .. Len(chars)] ==
          IF i = 0 THEN now ELSE Key(After[i - 1], chars[i], deliberate)
        e == After[Len(chars)]
    IN  /\ field' = e.field /\ pasting' = e.pasting /\ submissions' = e.submissions
        /\ UNCHANGED softBreak

-----------------------------------------------------------------------------
(* send, send_paste, send_burst and type_command.                          *)

\* wrap_input is looked at by send_burst only, which refuses what is too long.
Send(s, how, w) ==
    /\ typing = "none"
    /\ text' = s /\ style' = how /\ width' = w
    /\ LET cleaned == StripInvisible(s)
       IN  body' = CASE how = "paste" -> BracketedPaste(cleaned)
                     [] how = "burst" -> NewlinesAsEnters(FoldText(cleaned, w))
                     [] OTHER         -> cleaned
    /\ typing' = CASE how = "burst" /\ Len(body') > BurstMax -> "failed"
                   [] body' = <<>> -> "submit"
                   [] OTHER        -> "body"
    /\ softBreak' \in BOOLEAN
    /\ UNCHANGED <<field, pasting, submissions>>

\* How much of the body one write takes.
Piece ==
    LET most == CASE style = "paste" -> Len(body) [] style = "burst" -> Chunk [] OTHER -> 1
    IN  IF most < Len(body) THEN most ELSE Len(body)

\* The next keystroke, chunk or paste; keystrokes come after a pause each.
TypeBody ==
    /\ typing = "body"
    /\ Receive(SubSeq(body, 1, Piece), style = "jitter")
    /\ body' = SubSeq(body, Piece + 1, Len(body))
    /\ typing' = IF body' = <<>> THEN "submit" ELSE "body"
    /\ UNCHANGED <<text, style, width>>

\* Mutant of PressEnter: the Enter follows the burst without a pause.
PressEnterAtOnce ==
    /\ typing = "submit"
    /\ Receive(<<CR>>, style # "burst")
    /\ typing' = "sent"
    /\ UNCHANGED <<text, style, width, body>>

PressEnter ==
    /\ typing = "submit"
    /\ Receive(<<CR>>, TRUE)
    /\ typing' = "sent"
    /\ UNCHANGED <<text, style, width, body>>

\* The writer thread is gone: the error is send's.
WriteFails ==
    /\ typing \in {"body", "submit"}
    /\ typing' = "failed"
    /\ UNCHANGED <<text, style, width, body, editorVars>>

TypeCommand == TypeBody \/ PressEnter \/ WriteFails

-----------------------------------------------------------------------------
(* Properties.                                                             *)

Flat(s) == Without(s, {LF})

\* What the user wrote, as far as it can be seen; folding may have added newlines.
IsCommand(s) ==
    LET visible == StripInvisible(text)
    IN  IF style = "burst" /\ width > 0 THEN Flat(s) = Flat(visible) ELSE s = visible

\* A command arrives as one submission, whole and with nothing else in it, or not
\* at all: at no point of the typing, an error included, has a part of it been
\* submitted. Keystroke by keystroke that takes a command of one line or an editor
\* for which "\n" is a line break.
CommandArrives ==
    style # "jitter" \/ softBreak \/ Flat(text) = text =>
        /\ typing = "sent" => Len(submissions) = 1
        /\ typing # "sent" => submissions = <<>>
        /\ \A i \in DOMAIN submissions : IsCommand(submissions[i])

\* Folding only adds newlines, leaves no line wider than asked for, and cuts no word
\* of less than that many columns.
FoldFits ==
    LET s      == StripInvisible(text)
        folded == FoldText(s, width)
        nl     == {i \in DOMAIN folded : folded[i] = LF}
        word(i) == \* the columns of the word that is cut at the newline at i
            LET solid == {r \in (1 .. i - 1) \X (i + 1 .. Len(folded)) :
                            \A j \in r[1] .. r[2] : folded[j] # Blank}
            IN  Max({0} \cup {Len(Flat(SubSeq(folded, r[1], r[2]))) : r \in solid})
    IN  typing # "none" /\ width > 0 =>
            /\ Flat(folded) = Flat(s)
            /\ \A i, j \in {0, Len(folded) + 1} \cup nl :
                  i < j /\ nl \cap (i + 1 .. j - 1) = {} => j - i - 1 <= width
            /\ Flat(s) = s => \A i \in nl : word(i) = 0 \/ word(i) >= width
=============================================================================
