-------------------------------- MODULE Detect --------------------------------
(***************************************************************************)
(* src/src/ansi/detect.rs: what the wrapper reads off the target's text.   *)
(*                                                                         *)
(* A text is a sequence of lines, a line a sequence of tokens: brackets,   *)
(* separators, blanks and the words that are looked for; any other word    *)
(* stands for the text around them.                                        *)
(***************************************************************************)
EXTENDS Naturals, SequencesExt

Blank == " "

IsBlankLine(ln) == \A i \in DOMAIN ln : ln[i] = Blank

\* to_ascii_lowercase, of the words that are looked for.
Lower(ln) ==
    [i \in DOMAIN ln |->
        CASE ln[i] = "Y"   -> "y"
          [] ln[i] = "N"   -> "n"
          [] ln[i] = "Yes" -> "yes"
          [] ln[i] = "No"  -> "no"
          [] OTHER           -> ln[i]]

NonBlankLines(text) == SelectSeq(text, LAMBDA ln : ~IsBlankLine(ln))

LastNonEmptyLine(text) ==
    IF NonBlankLines(text) = <<>> THEN <<>> ELSE Last(NonBlankLines(text))

-----------------------------------------------------------------------------
(* Confirmation prompts.                                                   *)

\* Where the first token t of a line at or after position p is; past the end when
\* there is none.
Find(ln, t, p) ==
    LET at == {i \in p..Len(ln) : ln[i] = t}
    IN  IF at = {} THEN Len(ln) + 1 ELSE CHOOSE i \in at : \A j \in at : i <= j

\* The bracketed groups of a line: each opening bracket is closed by the first
\* closing one, and the search goes on behind it.
BracketGroups(ln, open, close) ==
    LET n == Len(ln)
        From[p \in 1 .. n + 2] ==
          LET o == Find(ln, open, p)
              c == Find(ln, close, o + 1)
          IN  IF c > n THEN {} ELSE {SubSeq(ln, o + 1, c - 1)} \cup From[c + 1]
    IN  From[1]

\* One option of a group, split at / and , and trimmed, is one of the words.
HasOption(group, words) ==
    LET ends == {0, Len(group) + 1}
                  \cup {i \in DOMAIN group : group[i] \in {"/", ","}}
    IN  \E i, j \in ends : i < j /\ \E k \in i + 1 .. j - 1 :
            /\ group[k] \in words
            /\ \A h \in (i + 1 .. j - 1) \ {k} : group[h] = Blank

GroupIsYesNo(group) == HasOption(group, {"y", "yes"}) /\ HasOption(group, {"n", "no"})

\* The forms without brackets are looked for inside words too.
BareYesNo(ln) ==
    \E i \in 1 .. Len(ln) - 2 :
        /\ ln[i + 1] = "/"
        /\ \/ ln[i] \in {"y", "any"} /\ ln[i + 2] \in {"n", "no", "none"}
           \/ ln[i] = "yes" /\ ln[i + 2] \in {"no", "none"}

IsConfirmationPrompt(text) ==
    LET ln == Lower(LastNonEmptyLine(text))
    IN  \/ \E g \in BracketGroups(ln, "[", "]") \cup BracketGroups(ln, "(", ")") :
              GroupIsYesNo(g)
        \/ BareYesNo(ln)

-----------------------------------------------------------------------------
(* Approval menus and trailing prompts.                                    *)

FirstWord(ln) ==
    IF IsBlankLine(ln) THEN Blank
    ELSE ln[CHOOSE i \in DOMAIN ln :
                 ln[i] # Blank /\ \A j \in 1 .. i - 1 : ln[j] = Blank]

IsDefaultYes(ln) ==
    FirstWord(ln) \in {">>", "1."} /\ \E i \in DOMAIN ln : ln[i] = "yes"

IsConfirmHint(ln) == \E i \in DOMAIN ln : ln[i] = "to confirm"

\* The last `window` lines that are not blank.
MenuTail(text, window) ==
    LET lines == NonBlankLines(text)
        n     == Len(lines)
    IN  [i \in 1 .. (IF n < window THEN n ELSE window) |-> Lower(lines[n + 1 - i])]

\* Mutant of IsApprovalMenu: either sign is enough.
IsApprovalMenuEither(text, window) ==
    LET tail == MenuTail(text, window)
    IN  \E i \in DOMAIN tail : IsDefaultYes(tail[i]) \/ IsConfirmHint(tail[i])

\* ">>" stands for the selection markers, "1." also for "1)".
IsApprovalMenu(text, window) ==
    LET tail == MenuTail(text, window)
    IN  /\ \E i \in DOMAIN tail : IsDefaultYes(tail[i])
        /\ \E i \in DOMAIN tail : IsConfirmHint(tail[i])

LineEndsWithAny(text, tokens) ==
    \E t \in tokens : t # <<>> /\ IsSuffix(t, LastNonEmptyLine(text))
=============================================================================
