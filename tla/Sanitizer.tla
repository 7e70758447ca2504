------------------------------- MODULE Sanitizer -------------------------------
(***************************************************************************)
(* src/src/ansi/sanitize.rs: the bytes of the target, parsed and applied   *)
(* to a canvas of one line. The committed text is only appended to, and    *)
(* the model keeps the number of its lines.                                *)
(***************************************************************************)
EXTENDS AnsiParser, SequencesExt

CONSTANTS
    MaxCol,   \* MAX_COL, the largest column a cursor movement reaches
    Bytes,    \* the bytes the target writes
    MaxPrints, MaxLines, MaxBody   \* bounds of the instance

ASSUME SanitizerAssumption ==
    /\ MaxCol \in Nat \ {0} /\ Bytes \subseteq Byte
    /\ {MaxPrints, MaxLines, MaxBody} \subseteq Nat

VARIABLES
    canvas,
    \* What happened, for the properties: the line ends fed, the characters
    \* printed on the line, the digits and separators of the CSI sequence under
    \* way.
    newlines, printedHere, body

history == <<newlines, printedHere, body>>
vars    == <<parserVars, canvas, history>>

BS    == 8
HT    == 9
Space == <<32>>

-----------------------------------------------------------------------------
(* Canvas.                                                                 *)

EmptyCanvas == [line |-> <<>>, col |-> 0, changed |-> FALSE, committedLines |-> 0]

Padded(c) ==
    c.line \o [i \in 1 .. (IF c.col > Len(c.line) THEN c.col - Len(c.line) ELSE 0) |-> Space]

Write(c, char) ==
    LET line == Padded(c)
    IN  [c EXCEPT !.line = IF c.col < Len(line) THEN [line EXCEPT ![c.col + 1] = char]
                                                ELSE Append(line, char),
                  !.col = @ + 1, !.changed = TRUE]

\* Mutant of CommitLine: a line end is not a visible change.
CommitLineUnnoticed(c) == [c EXCEPT !.line = <<>>, !.col = 0, !.committedLines = @ + 1]

CommitLine(c) ==
    [c EXCEPT !.line = <<>>, !.col = 0, !.committedLines = @ + 1, !.changed = TRUE]

AtMost(n, max) == IF n > max THEN max ELSE n

Back(col, n) == IF n > col THEN 0 ELSE col - n

\* Mutant of Forward: the column is not clamped.
ForwardUnclamped(col, n) == col + n

Forward(col, n) == AtMost(col + n, MaxCol)

ExecuteOn(c, b) ==
    CASE b = LF -> CommitLine(c)
      [] b = CR -> [c EXCEPT !.col = 0]
      [] b = BS -> [c EXCEPT !.col = Back(@, 1)]
      [] b = HT -> [c EXCEPT !.col = AtMost((@ \div 8 + 1) * 8, MaxCol)]
      [] OTHER  -> c

\* Erases the cells 1..end of a line.
Blanked(line, end) == [i \in DOMAIN line |-> IF i <= end THEN Space ELSE line[i]]

EraseInLine(c, mode) ==
    [c EXCEPT !.changed = TRUE,
              !.line = CASE mode = 0 -> SubSeq(@, 1, AtMost(c.col, Len(@)))
                         [] mode = 1 -> Blanked(Padded(c), c.col + 1)
                         [] mode = 2 -> <<>>
                         [] OTHER    -> @]

CsiOn(c, ps, final) ==
    LET first == IF ps = <<>> THEN 0 ELSE ps[1]
        n     == IF first = 0 THEN 1 ELSE first
    IN  CASE final = 71 -> [c EXCEPT !.col = AtMost(n - 1, MaxCol)]    \* G
          [] final = 67 -> [c EXCEPT !.col = Forward(@, n)]            \* C
          [] final = 68 -> [c EXCEPT !.col = Back(@, n)]               \* D
          [] final = 75 -> EraseInLine(c, first)                       \* K
          [] OTHER      -> c

Perform(c, e) ==
    CASE e.kind = "print"   -> Write(c, e.char)
      [] e.kind = "execute" -> ExecuteOn(c, e.byte)
      [] OTHER              -> CsiOn(c, e.params, e.final)

\* A byte reports at most two events: a broken character, then its own.
PerformAll(c, es) ==
    CASE Len(es) = 0 -> c
      [] Len(es) = 1 -> Perform(c, es[1])
      [] OTHER       -> Perform(Perform(c, es[1]), es[2])

-----------------------------------------------------------------------------
(* The operations.                                                         *)

Init ==
    /\ ParserInit
    /\ canvas = EmptyCanvas
    /\ newlines = 0 /\ printedHere = 0 /\ body = <<>>

Prints(es) == Cardinality({i \in DOMAIN es : es[i].kind = "print"})

Record(b) ==
    /\ newlines' = newlines + (IF b = LF THEN 1 ELSE 0)
    /\ printedHere' = IF b = LF THEN 0 ELSE printedHere + Prints(emitted')
    /\ body' = CASE b = ESC -> <<>>
                 [] pstate = "Csi" /\ b \in Digits \cup {Semicolon} -> Append(body, b)
                 [] OTHER -> body

\* `feed`, byte by byte; `fresh` when b is the first of its chunk.
Feed(b, fresh) ==
    LET start == IF fresh THEN [canvas EXCEPT !.changed = FALSE] ELSE canvas
    IN  /\ printedHere < MaxPrints /\ newlines < MaxLines /\ Len(body) < MaxBody
        /\ Advance(b)
        /\ canvas' = PerformAll(start, emitted')
        /\ Record(b)

\* `finish`: a character cut short at the end of the stream is shown broken.
Finish ==
    /\ utf8 # <<>>
    /\ emitted' = FlushUtf8(utf8) /\ ClearUtf8
    /\ canvas' = PerformAll(canvas, emitted')
    /\ printedHere' = printedHere + 1
    /\ UNCHANGED <<pstate, seqVars, oscLen, newlines, body>>

Next == Finish \/ \E b \in Bytes, fresh \in BOOLEAN : Feed(b, fresh)

Spec == Init /\ [][Next]_vars

-----------------------------------------------------------------------------
(* Properties.                                                             *)

\* The number of committed lines, by which the wrapper tells one prompt from the
\* next, is the number of line ends written, whatever sequence, string or
\* character a line end cuts short (the comment of `committed_lines`).
NewlinesCounted == canvas.committedLines = newlines

\* Padding costs at most MAX_COL cells: what a line holds beyond them was printed.
LineBounded == Len(canvas.line) <= MaxCol + printedHere

Log(c) == <<c.line, c.committedLines>>

\* Whatever changes the log marks it changed, also the padding and erasing of a line
\* that nothing is printed on: the wrapper takes an unmarked chunk for silence.
ChangesAreNoted == [][Log(canvas') # Log(canvas) => canvas'.changed]_vars

\* The number that the digits d write.
DecimalOf(d) ==
    LET Upto[i \in 0..Len(d)] == IF i = 0 THEN 0 ELSE 10 * Upto[i - 1] + d[i] - 48
    IN  Upto[Len(d)]

Separators(s) == {i \in DOMAIN s : s[i] = Semicolon}

NthSeparator(s, j) ==
    CHOOSE i \in Separators(s) : Cardinality({h \in Separators(s) : h <= i}) = j

\* The numbers written in s, with the value 0 for one left out before a separator.
Written(s) ==
    LET m        == Cardinality(Separators(s))
        k        == m + (IF s # <<>> /\ s[Len(s)] # Semicolon THEN 1 ELSE 0)
        End(j)   == IF j > m THEN Len(s) + 1 ELSE NthSeparator(s, j)
        Begin(j) == IF j = 1 THEN 1 ELSE End(j - 1) + 1
    IN  [j \in 1..k |-> AtMost(DecimalOf(SubSeq(s, Begin(j), End(j) - 1)), U16Max)]

\* A sequence is delivered with the numbers written in it, saturated, and with
\* none of a sequence that it interrupted.
CsiParamsExact ==
    \A i \in DOMAIN emitted :
        emitted[i].kind = "csi" => emitted[i].params = Written(body)
=============================================================================
