---------------------------- MODULE Sanitizer_proofs ----------------------------
(***************************************************************************)
(* Theorems about Sanitizer, for every stream of bytes.                    *)
(***************************************************************************)
EXTENDS Sanitizer, Basics_proofs

Chars  == Seq(Byte)
Canvas == [line : Seq(Chars), col : Nat, changed : BOOLEAN, committedLines : Nat]

-----------------------------------------------------------------------------
(* The canvas. What holds of one event, and how far a line may reach.      *)

\* A line and its cursor reach at most k cells beyond the last column.
Reaches(c, k) == Len(c.line) <= MaxCol + k /\ c.col <= MaxCol + k

\* The log is as it was, or the canvas is marked changed; a mark is never lost.
Noted(c, d) ==
    /\ c.changed => d.changed
    /\ d.changed \/ (d.line = c.line /\ d.committedLines = c.committedLines)

\* The last column is not the first.
LEMMA Columns == MaxCol \in Nat /\ MaxCol > 0
  BY SanitizerAssumption

\* A blank cell holds a character.
LEMMA SpaceIsChar == Space \in Chars
  BY DEF Space, Chars, Byte

\* Padding makes a line as long as its cursor needs.
LEMMA PaddedLine ==
  ASSUME NEW c \in Canvas
  PROVE  /\ Padded(c) \in Seq(Chars)
         /\ Len(Padded(c)) = IF c.col > Len(c.line) THEN c.col ELSE Len(c.line)
<1> DEFINE n == IF c.col > Len(c.line) THEN c.col - Len(c.line) ELSE 0
           pad == [i \in 1..n |-> Space]
<1>1. c.line \in Seq(Chars) /\ c.col \in Nat /\ Len(c.line) \in Nat
  BY DEF Canvas
<1>2. n \in Nat
  BY <1>1
<1>3. pad \in Seq(Chars) /\ Len(pad) = n
  BY <1>2, SpaceIsChar
<1>4. Padded(c) = c.line \o pad
  BY DEF Padded
<1> HIDE DEF pad
<1>5. Padded(c) \in Seq(Chars) /\ Len(Padded(c)) = Len(c.line) + n
  BY <1>1, <1>3, <1>4, ConcatProperties
<1>6. QED BY <1>1, <1>5

\* A character reaches one cell further.
LEMMA WriteOnCanvas ==
  ASSUME NEW c \in Canvas, NEW char \in Chars, NEW k \in Nat
  PROVE  /\ Write(c, char) \in Canvas
         /\ Write(c, char).committedLines = c.committedLines
         /\ Noted(c, Write(c, char))
         /\ Reaches(c, k) => Reaches(Write(c, char), k + 1)
<1> DEFINE line == Padded(c)
           new  == IF c.col < Len(line) THEN [line EXCEPT ![c.col + 1] = char]
                                        ELSE Append(line, char)
<1>1. /\ line \in Seq(Chars) /\ Len(line) \in Nat
      /\ Len(line) = IF c.col > Len(c.line) THEN c.col ELSE Len(c.line)
  BY PaddedLine
<1>2. c.col \in Nat /\ c.line \in Seq(Chars) /\ Len(c.line) \in Nat
  BY DEF Canvas
<1>3. Write(c, char) = [c EXCEPT !.line = new, !.col = c.col + 1, !.changed = TRUE]
  BY DEF Write, Canvas
<1> HIDE DEF line
<1>4. new \in Seq(Chars) /\ Len(new) = IF c.col < Len(line) THEN Len(line) ELSE Len(line) + 1
  <2>1. CASE c.col < Len(line)
    BY <1>1, <1>2, <2>1, ExceptSeq
  <2>2. CASE ~(c.col < Len(line))
    BY <1>1, <1>2, <2>2, AppendProperties
  <2>3. QED BY <2>1, <2>2
<1> HIDE DEF new
<1>5. Write(c, char) \in Canvas
  <2>1. c.col + 1 \in Nat
    BY <1>2
  <2>2. QED BY <1>3, <1>4, <2>1 DEF Canvas
<1>6. /\ Write(c, char).line = new /\ Write(c, char).col = c.col + 1
      /\ Write(c, char).changed = TRUE /\ Write(c, char).committedLines = c.committedLines
  BY <1>3 DEF Canvas
<1>7. ASSUME Reaches(c, k) PROVE Reaches(Write(c, char), k + 1)
  BY <1>1, <1>2, <1>4, <1>6, <1>7, Columns DEF Reaches
<1>8. QED BY <1>5, <1>6, <1>7 DEF Noted

\* A line end counts one line and leaves an empty one.
LEMMA CommitOnCanvas ==
  ASSUME NEW c \in Canvas, NEW k \in Nat
  PROVE  /\ CommitLine(c) \in Canvas
         /\ CommitLine(c).committedLines = c.committedLines + 1
         /\ Noted(c, CommitLine(c))
         /\ Reaches(CommitLine(c), k)
<1>1. c.committedLines + 1 \in Nat /\ <<>> \in Seq(Chars) /\ Len(<<>>) = 0
  BY DEF Canvas
<1>2. /\ CommitLine(c) \in Canvas
      /\ CommitLine(c).line = <<>> /\ CommitLine(c).col = 0 /\ CommitLine(c).changed = TRUE
      /\ CommitLine(c).committedLines = c.committedLines + 1
  BY <1>1 DEF CommitLine, Canvas
<1>3. QED BY <1>1, <1>2, Columns DEF Noted, Reaches

\* The movements of the cursor.
LEMMA MoveOnCanvas ==
  ASSUME NEW c \in Canvas, NEW col \in Nat, NEW k \in Nat, col <= c.col \/ col <= MaxCol,
         NEW d, d = [c EXCEPT !.col = col]
  PROVE  /\ d \in Canvas
         /\ d.committedLines = c.committedLines
         /\ Noted(c, d)
         /\ Reaches(c, k) => Reaches(d, k)
<1>1. c.col \in Nat /\ Len(c.line) \in Nat
  BY DEF Canvas
<1>2. /\ d \in Canvas /\ d.line = c.line /\ d.col = col
      /\ d.changed = c.changed /\ d.committedLines = c.committedLines
  BY DEF Canvas
<1>3. ASSUME Reaches(c, k) PROVE Reaches(d, k)
  BY <1>1, <1>2, <1>3, Columns DEF Reaches
<1>4. QED BY <1>2, <1>3 DEF Noted

\* Erasing never makes a line longer than its cursor or itself.
LEMMA EraseOnCanvas ==
  ASSUME NEW c \in Canvas, NEW mode \in Nat, NEW k \in Nat
  PROVE  /\ EraseInLine(c, mode) \in Canvas
         /\ EraseInLine(c, mode).committedLines = c.committedLines
         /\ Noted(c, EraseInLine(c, mode))
         /\ Reaches(c, k) => Reaches(EraseInLine(c, mode), k)
<1> DEFINE new == CASE mode = 0 -> SubSeq(c.line, 1, AtMost(c.col, Len(c.line)))
                    [] mode = 1 -> Blanked(Padded(c), c.col + 1)
                    [] mode = 2 -> <<>>
                    [] OTHER    -> c.line
<1>1. c.col \in Nat /\ c.line \in Seq(Chars) /\ Len(c.line) \in Nat
  BY DEF Canvas
<1>2. EraseInLine(c, mode) = [c EXCEPT !.changed = TRUE, !.line = new]
  BY DEF EraseInLine, Canvas
<1>3. new \in Seq(Chars) /\ (Len(new) <= Len(c.line) \/ Len(new) <= c.col)
  <2>1. CASE mode = 0
    <3>1. AtMost(c.col, Len(c.line)) \in 0..Len(c.line)
      BY <1>1 DEF AtMost
    <3>2. QED BY <1>1, <2>1, <3>1, SubSeqProperties
  <2>2. CASE mode = 1
    <3>1. Padded(c) \in Seq(Chars) /\ Len(Padded(c)) \in Nat
      BY PaddedLine
    <3>2. /\ Blanked(Padded(c), c.col + 1) \in Seq(Chars)
          /\ Len(Blanked(Padded(c), c.col + 1)) = Len(Padded(c))
      BY <3>1, SpaceIsChar DEF Blanked
    <3>3. QED BY <1>1, <2>2, <3>2, PaddedLine
  <2>3. CASE mode = 2
    BY <1>1, <2>3
  <2>4. CASE mode \notin {0, 1, 2}
    BY <1>1, <2>4
  <2>5. QED BY <2>1, <2>2, <2>3, <2>4
<1> HIDE DEF new
<1>4. /\ EraseInLine(c, mode) \in Canvas
      /\ EraseInLine(c, mode).line = new /\ EraseInLine(c, mode).col = c.col
      /\ EraseInLine(c, mode).changed = TRUE
      /\ EraseInLine(c, mode).committedLines = c.committedLines
  BY <1>1, <1>2, <1>3 DEF Canvas
<1>5. ASSUME Reaches(c, k) PROVE Reaches(EraseInLine(c, mode), k)
  BY <1>1, <1>3, <1>4, <1>5, Columns DEF Reaches
<1>6. QED BY <1>4, <1>5 DEF Noted

\* Only a line end counts a line.
LEMMA ExecuteOnCanvas ==
  ASSUME NEW c \in Canvas, NEW b \in Byte, NEW k \in Nat
  PROVE  /\ ExecuteOn(c, b) \in Canvas
         /\ ExecuteOn(c, b).committedLines = c.committedLines + (IF b = LF THEN 1 ELSE 0)
         /\ Noted(c, ExecuteOn(c, b))
         /\ Reaches(c, k) => Reaches(ExecuteOn(c, b), k)
         /\ b = LF => Reaches(ExecuteOn(c, b), k)
<1> USE DEF LF, CR, BS, HT
<1>1. c.col \in Nat /\ c.committedLines \in Nat
  BY DEF Canvas
<1>2. CASE b = LF
  <2>1. ExecuteOn(c, b) = CommitLine(c)
    BY <1>2 DEF ExecuteOn
  <2>2. QED BY <1>2, <2>1, CommitOnCanvas
<1>3. CASE b \in {CR, BS, HT}
  <2> DEFINE col == IF b = CR THEN 0
                    ELSE IF b = BS THEN Back(c.col, 1)
                    ELSE AtMost((c.col \div 8 + 1) * 8, MaxCol)
  <2>1. ExecuteOn(c, b) = [c EXCEPT !.col = col]
    <3>1. CASE b = CR
      BY <3>1 DEF ExecuteOn
    <3>2. CASE b = BS
      BY <3>2 DEF ExecuteOn
    <3>3. CASE b = HT
      BY <3>3 DEF ExecuteOn
    <3>4. QED BY <1>3, <3>1, <3>2, <3>3
  <2>2. (c.col \div 8 + 1) * 8 \in Nat
    BY <1>1
  <2>3. col \in Nat /\ (col <= c.col \/ col <= MaxCol)
    BY <1>1, <2>2, Columns DEF Back, AtMost
  <2> HIDE DEF col
  <2>4. QED BY <1>1, <1>3, <2>1, <2>3, MoveOnCanvas
<1>4. CASE b \notin {LF, CR, BS, HT}
  <2>1. ExecuteOn(c, b) = c
    BY <1>4 DEF ExecuteOn
  <2>2. QED BY <1>1, <1>4, <2>1 DEF Noted
<1>5. QED BY <1>2, <1>3, <1>4

\* A sequence moves the cursor within the columns, or erases.
LEMMA CsiOnCanvas ==
  ASSUME NEW c \in Canvas, NEW ps \in Seq(Nat), NEW final \in Byte, NEW k \in Nat
  PROVE  /\ CsiOn(c, ps, final) \in Canvas
         /\ CsiOn(c, ps, final).committedLines = c.committedLines
         /\ Noted(c, CsiOn(c, ps, final))
         /\ Reaches(c, k) => Reaches(CsiOn(c, ps, final), k)
<1> DEFINE first == IF ps = <<>> THEN 0 ELSE ps[1]
           n     == IF first = 0 THEN 1 ELSE first
           col   == IF final = 71 THEN AtMost(n - 1, MaxCol)
                    ELSE IF final = 67 THEN Forward(c.col, n)
                    ELSE Back(c.col, n)
<1>1. first \in Nat
  <2>1. CASE ps = <<>>
    BY <2>1
  <2>2. CASE ps # <<>>
    <3>1. Len(ps) \in Nat \ {0}
      BY <2>2, EmptySeq
    <3>2. QED BY <2>2, <3>1, ElementOfSeq
  <2>3. QED BY <2>1, <2>2
<1>2. n \in Nat /\ n > 0 /\ c.col \in Nat
  BY <1>1 DEF Canvas
<1> HIDE DEF first
<1>3. CASE final \in {71, 67, 68}
  <2>1. CsiOn(c, ps, final) = [c EXCEPT !.col = col]
    BY <1>3 DEF CsiOn, Canvas, first
  <2> HIDE DEF n
  <2>2. col \in Nat /\ (col <= c.col \/ col <= MaxCol)
    BY <1>2, Columns DEF AtMost, Forward, Back
  <2> HIDE DEF col
  <2>3. QED BY <2>1, <2>2, MoveOnCanvas
<1>4. CASE final = 75
  <2>1. CsiOn(c, ps, final) = EraseInLine(c, first)
    BY <1>4 DEF CsiOn, first
  <2>2. QED BY <1>1, <2>1, EraseOnCanvas
<1>5. CASE final \notin {71, 67, 68, 75}
  <2>1. CsiOn(c, ps, final) = c
    BY <1>5 DEF CsiOn
  <2>2. QED BY <2>1 DEF Noted
<1>6. QED BY <1>3, <1>4, <1>5

-----------------------------------------------------------------------------
(* What a byte reports: nothing or a broken character, then its own event. *)
(* A line end reports itself in every state.                               *)

Event ==
    {Printed(c) : c \in Chars} \cup {Execute(b) : b \in Byte}
        \cup {CsiEvent(p, m, b) : p \in Seq(Nat), m \in Nat, b \in Byte}

Leads == {<<>>, <<Printed(Replacement)>>}

Owns(b) ==
    {<<Execute(b)>>} \cup
    (IF b = LF THEN {}
     ELSE {<<>>} \cup {<<Printed(c)>> : c \in Chars}
                 \cup {<<CsiEvent(p, m, b)>> : p \in Seq(Nat), m \in Nat})

Reports(b, es) == \E lead \in Leads, own \in Owns(b) : es = lead \o own

ParserInv ==
    /\ params \in Seq(Nat) /\ cur \in Nat /\ private \in Nat
    /\ utf8 \in Seq(Byte)

\* U+FFFD is a character.
LEMMA ReplacementIsChar == Replacement \in Chars
  BY DEF Replacement, Chars, Byte

\* What a byte reports are events.
LEMMA LeadsAndOwns ==
  ASSUME NEW b \in Byte
  PROVE  Leads \subseteq Seq(Event) /\ Owns(b) \subseteq Seq(Event)
<1>1. /\ \A c \in Chars : Printed(c) \in Event
      /\ Execute(b) \in Event
      /\ \A p \in Seq(Nat), m \in Nat : CsiEvent(p, m, b) \in Event
  BY DEF Event
<1>2. \A e \in Event : <<e>> \in Seq(Event)
  OBVIOUS
<1>3. <<>> \in Seq(Event)
  OBVIOUS
<1>4. Leads \subseteq Seq(Event)
  <2>1. <<Printed(Replacement)>> \in Seq(Event)
    BY <1>1, <1>2, ReplacementIsChar
  <2>2. QED BY <1>3, <2>1 DEF Leads
<1>5. ASSUME NEW own \in Owns(b) PROVE own \in Seq(Event)
  <2>1. CASE own = <<Execute(b)>>
    BY <1>1, <1>2, <2>1
  <2>2. CASE own = <<>>
    BY <1>3, <2>2
  <2>3. CASE \E c \in Chars : own = <<Printed(c)>>
    BY <1>1, <1>2, <2>3
  <2>4. CASE \E p \in Seq(Nat), m \in Nat : own = <<CsiEvent(p, m, b)>>
    BY <1>1, <1>2, <2>4
  <2>5. QED BY <2>1, <2>2, <2>3, <2>4 DEF Owns
<1>6. QED BY <1>4, <1>5

\* A byte may report its own event alone.
LEMMA ReportsOwn ==
  ASSUME NEW b \in Byte, NEW own \in Owns(b)
  PROVE  Reports(b, own)
<1>1. own \in Seq(Event)
  BY LeadsAndOwns
<1>2. own = <<>> \o own
  BY <1>1, ConcatEmptySeq
<1>3. QED BY <1>2 DEF Reports, Leads

\* A byte that is no line end may report a broken character alone.
LEMMA ReportsLead ==
  ASSUME NEW b \in Byte, NEW lead \in Leads, b # LF
  PROVE  Reports(b, lead)
<1>1. lead \in Seq(Event)
  BY LeadsAndOwns
<1>2. lead = lead \o <<>>
  BY <1>1, ConcatEmptySeq
<1>3. <<>> \in Owns(b)
  BY DEF Owns
<1>4. QED BY <1>2, <1>3 DEF Reports

\* A character that ends, whole or broken, is one print.
LEMMA FlushReports ==
  ASSUME NEW s \in Seq(Byte)
  PROVE  \E c \in Chars : FlushUtf8(s) = <<Printed(c)>>
<1>1. CASE IsChar(s)
  BY <1>1 DEF FlushUtf8, Chars
<1>2. CASE ~IsChar(s)
  BY <1>2, ReplacementIsChar DEF FlushUtf8
<1>3. QED BY <1>1, <1>2

\* A control character inside a sequence reports itself.
LEMMA ExecutedIsOwn ==
  ASSUME NEW b \in Byte
  PROVE  Executed(b) \in Owns(b)
<1>1. LF \in ExecutableC0
  BY DEF LF, ExecutableC0, CAN, SUB, ESC
<1>2. QED BY <1>1 DEF Executed, Owns

\* Each state of the parser reports in this shape.
LEMMA DispatchReports ==
  ASSUME ParserInv, NEW b \in Byte, NEW lead \in Leads, Dispatch(b, lead)
  PROVE  Reports(b, emitted') /\ ParserInv'
<1>1. ASSUME ResetParams \/ UNCHANGED seqVars, ClearUtf8 PROVE ParserInv'
  <2>1. utf8' \in Seq(Byte)
    BY <1>1 DEF ClearUtf8
  <2>2. CASE ResetParams
    BY <2>1, <2>2 DEF ResetParams, NoPrivate, ParserInv
  <2>3. CASE UNCHANGED seqVars
    BY <2>1, <2>3 DEF seqVars, ParserInv
  <2>4. QED BY <1>1, <2>2, <2>3
<1>2. \A own \in Owns(b) : emitted' = lead \o own => Reports(b, emitted')
  BY DEF Reports
<1>3. CASE b = ESC /\ StartEscape(lead)
  <2>1. b # LF
    BY <1>3 DEF ESC, LF
  <2>2. QED BY <1>1, <1>3, <2>1, ReportsLead DEF StartEscape
<1>4. CASE Ground(b, lead)
  <2> DEFINE own == CASE b < 32 \/ b = DEL        -> <<Execute(b)>>
                      [] b \in 32..126            -> <<Printed(<<b>>)>>
                      [] b > DEL /\ NeedOf(b) = 0 -> <<Printed(Replacement)>>
                      [] OTHER                    -> <<>>
  <2>1. emitted' = lead \o own
    BY <1>4 DEF Ground
  <2>2. own \in Owns(b)
    <3> USE DEF DEL, Byte
    <3>1. CASE b < 32 \/ b = 127
      <4>1. b \notin 32..126 /\ ~(b > 127)
        BY <3>1
      <4>2. own = <<Execute(b)>>
        BY <3>1, <4>1
      <4> HIDE DEF own
      <4>3. QED BY <4>2 DEF Owns
    <3>2. CASE b \in 32..126
      <4>1. <<b>> \in Chars /\ b # LF /\ ~(b < 32 \/ b = 127) /\ ~(b > 127)
        BY <3>2 DEF Chars, Byte, LF
      <4>2. own = <<Printed(<<b>>)>>
        BY <3>2, <4>1
      <4> HIDE DEF own
      <4>3. QED BY <4>1, <4>2 DEF Owns
    <3>3. CASE b > 127
      <4>1. b # LF /\ ~(b < 32 \/ b = 127) /\ b \notin 32..126
        BY <3>3 DEF LF, Byte
      <4>2. CASE NeedOf(b) = 0
        <5>1. own = <<Printed(Replacement)>>
          BY <3>3, <4>1, <4>2
        <5>2. QED BY <4>1, <5>1, ReplacementIsChar DEF Owns
      <4>3. CASE NeedOf(b) > 0
        <5>1. NeedOf(b) # 0
          BY <4>3
        <5>2. own = <<>>
          BY <3>3, <4>1, <4>3, <5>1
        <5>3. QED BY <4>1, <5>2 DEF Owns
      <4>4. NeedOf(b) \in {0, 2, 3, 4}
        BY DEF NeedOf
      <4>5. QED BY <4>2, <4>3, <4>4
    <3> HIDE DEF own
    <3>4. QED BY <3>1, <3>2, <3>3
  <2> HIDE DEF own
  <2>3. ParserInv'
    <3>1. utf8' = <<b>> \/ utf8' = <<>>
      BY <1>4 DEF Ground, ClearUtf8
    <3>2. <<b>> \in Seq(Byte) /\ <<>> \in Seq(Byte)
      OBVIOUS
    <3>3. utf8' \in Seq(Byte)
      BY <3>1, <3>2
    <3>4. QED BY <1>4, <3>3 DEF Ground, ParserInv, seqVars
  <2>4. QED BY <1>2, <2>1, <2>2, <2>3
<1>5. CASE Escape(b, lead) \/ EscIntermediate(b, lead)
  BY <1>1, <1>2, <1>5, ExecutedIsOwn DEF Escape, EscIntermediate, seqVars
<1>6. CASE Csi(b, lead)
  <2>1. CASE b \in ExecutableC0 \cup CsiIgnored /\ emitted' = lead \o Executed(b) /\ UNCHANGED seqVars
    BY <1>1, <1>2, <1>6, <2>1, ExecutedIsOwn DEF Csi
  <2>2. CASE /\ b \in Digits /\ cur' = Saturated(cur * 10 + (b - 48)) /\ emitted' = lead
             /\ UNCHANGED <<params, private>>
    <3>1. b # LF /\ cur * 10 + (b - 48) \in Nat
      BY <2>2 DEF Digits, LF, ParserInv
    <3>2. cur' \in Nat
      BY <2>2, <3>1, ParserAssumption DEF Saturated
    <3>3. QED BY <1>6, <2>2, <3>1, <3>2, ReportsLead DEF Csi, ParserInv, ClearUtf8
  <2>3. CASE /\ b = Semicolon /\ params' = Append(params, cur) /\ cur' = 0 /\ emitted' = lead
             /\ private' = private
    <3>1. b # LF /\ params' \in Seq(Nat)
      BY <2>3, AppendProperties DEF Semicolon, LF, ParserInv
    <3>2. QED BY <1>6, <2>3, <3>1, ReportsLead DEF Csi, ParserInv, ClearUtf8
  <2>4. CASE /\ b \in Privates /\ private' = b /\ emitted' = lead /\ UNCHANGED <<params, cur>>
    <3>1. b # LF /\ b \in Nat
      BY <2>4 DEF Privates, LF
    <3>2. QED BY <1>6, <2>4, <3>1, ReportsLead DEF Csi, ParserInv, ClearUtf8
  <2>5. CASE /\ b \in Finals /\ emitted' = lead \o <<CsiEvent(Completed, private, b)>>
             /\ ResetParams
    <3>1. Completed \in Seq(Nat)
      BY AppendProperties DEF Completed, ParserInv
    <3>2. b # LF
      BY <2>5 DEF Finals, LF
    <3>3. <<CsiEvent(Completed, private, b)>> \in Owns(b)
      BY <3>1, <3>2 DEF Owns, ParserInv
    <3>4. QED BY <1>1, <1>2, <1>6, <2>5, <3>3 DEF Csi
  <2>6. CASE CsiAborts(b, lead)
    <3>1. b # LF
      BY <2>6 DEF CsiAborts, ExecutableC0, LF, CAN, SUB, ESC
    <3>2. QED BY <1>1, <1>6, <2>6, <3>1, ReportsLead DEF Csi, CsiAborts
  <2>7. QED BY <1>6, <2>1, <2>2, <2>3, <2>4, <2>5, <2>6 DEF Csi
<1>7. CASE Osc(b, lead)
  <2>1. (IF b \in {LF, CR} THEN <<Execute(b)>> ELSE <<>>) \in Owns(b)
    BY DEF Owns
  <2>2. QED BY <1>1, <1>2, <1>7, <2>1 DEF Osc
<1>8. CASE OscEsc(b, lead)
  <2>1. CASE b = Backslash
    <3>1. b # LF
      BY <2>1 DEF Backslash, LF
    <3>2. QED BY <1>1, <1>8, <2>1, <3>1, ReportsLead DEF OscEsc, seqVars
  <2>2. CASE b # Backslash
    BY <1>1, <1>2, <1>8, <2>2, ExecutedIsOwn DEF OscEsc
  <2>3. QED BY <2>1, <2>2
<1>9. QED BY <1>3, <1>4, <1>5, <1>6, <1>7, <1>8 DEF Dispatch

\* So does `advance`.
LEMMA AdvanceReports ==
  ASSUME ParserInv, NEW b \in Byte, Advance(b)
  PROVE  Reports(b, emitted') /\ ParserInv'
<1>1. CASE Continue(b)
  <2>1. b # LF /\ b \in Byte
    BY <1>1 DEF Continue, Continuation, LF
  <2>2. Append(utf8, b) \in Seq(Byte)
    BY AppendProperties DEF ParserInv
  <2>3. emitted' = <<>> \/ emitted' = FlushUtf8(Append(utf8, b))
    BY <1>1 DEF Continue
  <2>4. emitted' \in Owns(b)
    <3>1. CASE emitted' = <<>>
      BY <2>1, <3>1 DEF Owns
    <3>2. CASE emitted' = FlushUtf8(Append(utf8, b))
      <4>1. PICK c \in Chars : emitted' = <<Printed(c)>>
        BY <2>2, <3>2, FlushReports
      <4>2. QED BY <2>1, <4>1 DEF Owns
    <3>3. QED BY <2>3, <3>1, <3>2
  <2>5. utf8' = <<>> \/ utf8' = Append(utf8, b)
    BY <1>1 DEF Continue, ClearUtf8
  <2>6. utf8' \in Seq(Byte)
    <3>1. <<>> \in Seq(Byte)
      OBVIOUS
    <3>2. QED BY <2>2, <2>5, <3>1
  <2>7. ParserInv'
    BY <1>1, <2>6 DEF Continue, ParserInv, seqVars
  <2>8. QED BY <2>4, <2>7, ReportsOwn
<1>2. CASE Dispatch(b, <<>>) \/ Dispatch(b, <<Printed(Replacement)>>)
  BY <1>2, DispatchReports DEF Leads
<1>3. QED BY <1>1, <1>2 DEF Advance

-----------------------------------------------------------------------------
(* All the events of a byte on the canvas.                                 *)

\* How many characters one event prints.
PrintsOf(e) == IF e.kind = "print" THEN 1 ELSE 0

\* How many characters no event, one and two events print.
LEMMA PrintsOfNone == Prints(<<>>) = 0
<1>1. {i \in DOMAIN <<>> : <<>>[i].kind = "print"} = {}
  OBVIOUS
<1>2. QED BY <1>1, FS_EmptySet DEF Prints

LEMMA PrintsOfOne ==
  ASSUME NEW e
  PROVE  Prints(<<e>>) = PrintsOf(e)
<1> DEFINE at == {i \in DOMAIN <<e>> : <<e>>[i].kind = "print"}
<1>1. at = IF e.kind = "print" THEN {1} ELSE {}
  OBVIOUS
<1>2. Prints(<<e>>) = Cardinality(at)
  BY DEF Prints
<1> HIDE DEF at
<1>3. QED BY <1>1, <1>2, FS_EmptySet, FS_Singleton DEF PrintsOf

LEMMA PrintsOfTwo ==
  ASSUME NEW d, NEW e, d.kind = "print"
  PROVE  Prints(<<d, e>>) = 1 + PrintsOf(e)
<1> DEFINE at == {i \in DOMAIN <<d, e>> : <<d, e>>[i].kind = "print"}
<1>1. at = IF e.kind = "print" THEN {1} \cup {2} ELSE {1}
  OBVIOUS
<1>2. Prints(<<d, e>>) = Cardinality(at)
  BY DEF Prints
<1>3. IsFiniteSet({1}) /\ Cardinality({1}) = 1
  BY FS_Singleton
<1>4. Cardinality({1} \cup {2}) = 2
  BY <1>3, FS_AddElement
<1> HIDE DEF at
<1>5. QED BY <1>1, <1>2, <1>3, <1>4 DEF PrintsOf

\* Two events, one after the other.
LEMMA JoinedPair ==
  ASSUME NEW d, NEW e
  PROVE  <<d>> \o <<e>> = <<d, e>>
<1>1. <<d>> \in Seq({d, e}) /\ e \in {d, e}
  OBVIOUS
<1>2. Append(<<d>>, e) = <<d>> \o <<e>>
  BY <1>1, AppendIsConcat
<1>3. Append(<<d>>, e) = <<d, e>>
  <2> DEFINE s == Append(<<d>>, e)
             t == <<d, e>>
  <2>1. s \in Seq({d, e}) /\ Len(s) = 2 /\ s[1] = d /\ s[2] = e
    BY <1>1, AppendProperties
  <2>2. t \in Seq({d, e}) /\ Len(t) = 2 /\ t[1] = d /\ t[2] = e
    OBVIOUS
  <2> HIDE DEF s, t
  <2>3. \A i \in 1 .. Len(s) : s[i] = t[i]
    BY <2>1, <2>2
  <2>4. s = t
    BY <2>1, <2>2, <2>3, SeqEqual
  <2>5. QED BY <2>4 DEF s, t
<1>4. QED BY <1>2, <1>3

\* What the events of byte b make of a canvas that reaches k cells further.
OnCanvas(c, d, b, prints, k) ==
    /\ d \in Canvas
    /\ d.committedLines = c.committedLines + (IF b = LF THEN 1 ELSE 0)
    /\ Noted(c, d)
    /\ Reaches(d, IF b = LF THEN 0 ELSE k + prints)

\* The same of one event.
OwnEvent(c, b, e, k) == OnCanvas(c, Perform(c, e), b, PrintsOf(e), k) /\ PrintsOf(e) \in Nat

\* A byte's own event on the canvas.
LEMMA PerformOnCanvas ==
  ASSUME NEW c \in Canvas, NEW b \in Byte, NEW e, <<e>> \in Owns(b),
         NEW k \in Nat, Reaches(c, k)
  PROVE  OwnEvent(c, b, e, k)
<1>1. CASE e = Execute(b)
  <2>1. Perform(c, e) = ExecuteOn(c, b) /\ PrintsOf(e) = 0
    BY <1>1 DEF Perform, Execute, PrintsOf
  <2>2. CASE b = LF
    BY <2>1, <2>2, ExecuteOnCanvas DEF OwnEvent, OnCanvas
  <2>3. CASE b # LF
    BY <2>1, <2>3, ExecuteOnCanvas DEF OwnEvent, OnCanvas
  <2>4. QED BY <2>2, <2>3
<1>2. CASE b # LF /\ \E char \in Chars : e = Printed(char)
  <2>1. PICK char \in Chars : e = Printed(char)
    BY <1>2
  <2>2. Perform(c, e) = Write(c, char) /\ PrintsOf(e) = 1
    BY <2>1 DEF Perform, Printed, PrintsOf
  <2>3. c.committedLines + 0 = c.committedLines
    BY DEF Canvas
  <2>4. QED BY <1>2, <2>2, <2>3, WriteOnCanvas DEF OwnEvent, OnCanvas
<1>3. CASE b # LF /\ \E ps \in Seq(Nat), m \in Nat : e = CsiEvent(ps, m, b)
  <2>1. PICK ps \in Seq(Nat), m \in Nat : e = CsiEvent(ps, m, b)
    BY <1>3
  <2>2. Perform(c, e) = CsiOn(c, ps, b) /\ PrintsOf(e) = 0
    BY <2>1 DEF Perform, CsiEvent, PrintsOf
  <2>3. c.committedLines + 0 = c.committedLines /\ k + 0 = k
    BY DEF Canvas
  <2>4. QED BY <1>3, <2>2, <2>3, CsiOnCanvas DEF OwnEvent, OnCanvas
<1>4. QED
  <2>1. <<e>> # <<>>
    OBVIOUS
  <2>2. CASE <<e>> = <<Execute(b)>>
    BY <1>1, <2>2
  <2>3. CASE b # LF /\ <<e>> \in {<<Printed(char)>> : char \in Chars}
    BY <1>2, <2>3
  <2>4. CASE b # LF /\ <<e>> \in {<<CsiEvent(p, m, b)>> : p \in Seq(Nat), m \in Nat}
    BY <1>3, <2>4
  <2>5. QED BY <2>1, <2>2, <2>3, <2>4 DEF Owns

\* A byte reports nothing or one event of its own.
LEMMA OwnsShape ==
  ASSUME NEW b \in Byte, NEW own \in Owns(b)
  PROVE  (own = <<>> /\ b # LF) \/ (\E e : own = <<e>>)
BY DEF Owns

\* The byte's own event, if it reports one.
LEMMA OwnOnCanvas ==
  ASSUME NEW c \in Canvas, NEW b \in Byte, NEW own \in Owns(b), NEW k \in Nat, Reaches(c, k)
  PROVE  OnCanvas(c, PerformAll(c, own), b, Prints(own), k) /\ Prints(own) \in Nat
<1>1. CASE own = <<>> /\ b # LF
  <2>1. PerformAll(c, own) = c /\ Prints(own) = 0
    BY <1>1, PrintsOfNone DEF PerformAll
  <2>2. c.committedLines + 0 = c.committedLines /\ k + 0 = k
    BY DEF Canvas
  <2>3. QED BY <1>1, <2>1, <2>2 DEF OnCanvas, Noted
<1>2. ASSUME NEW e, own = <<e>>
      PROVE  /\ OwnEvent(c, b, e, k)
             /\ PerformAll(c, own) = Perform(c, e)
             /\ Prints(own) = PrintsOf(e)
  <2>1. Len(own) = 1 /\ own[1] = e
    BY <1>2
  <2>2. PerformAll(c, own) = Perform(c, e)
    BY <2>1 DEF PerformAll
  <2>3. QED BY <1>2, <2>2, PerformOnCanvas, PrintsOfOne
<1>3. QED BY <1>1, <1>2, OwnsShape DEF OwnEvent

\* Everything a byte reports.
LEMMA ReportsOnCanvas ==
  ASSUME NEW c \in Canvas, NEW b \in Byte, NEW es, Reports(b, es), NEW k \in Nat, Reaches(c, k)
  PROVE  OnCanvas(c, PerformAll(c, es), b, Prints(es), k) /\ Prints(es) \in Nat
<1>1. PICK lead \in Leads, own \in Owns(b) : es = lead \o own
  BY DEF Reports
<1>2. CASE lead = <<>>
  <2>1. own \in Seq(Event)
    BY LeadsAndOwns
  <2>2. es = own
    BY <1>1, <1>2, <2>1, ConcatEmptySeq
  <2>3. QED BY <2>2, OwnOnCanvas
<1>3. CASE lead = <<Printed(Replacement)>>
  <2> DEFINE first == Printed(Replacement)
             mid   == Write(c, Replacement)
  <2>1. /\ mid \in Canvas /\ mid.committedLines = c.committedLines /\ Noted(c, mid)
        /\ Reaches(mid, k + 1) /\ k + 1 \in Nat
    BY WriteOnCanvas, ReplacementIsChar
  <2>2. Perform(c, first) = mid /\ first.kind = "print" /\ PrintsOf(first) = 1
    BY DEF Perform, Printed, PrintsOf
  <2> HIDE DEF first, mid
  <2>3. lead = <<first>>
    BY <1>3 DEF first
  <2>4. CASE own = <<>> /\ b # LF
    <3>1. es = <<first>>
      <4>1. lead \in Seq(Event)
        BY LeadsAndOwns
      <4>2. QED BY <1>1, <2>3, <2>4, <4>1, ConcatEmptySeq
    <3>2. PerformAll(c, es) = mid
      <4>1. Len(es) = 1 /\ es[1] = first
        BY <3>1
      <4>2. QED BY <2>2, <4>1 DEF PerformAll
    <3>3. Prints(es) = 1
      BY <2>2, <3>1, PrintsOfOne
    <3>4. c.committedLines + 0 = c.committedLines
      BY DEF Canvas
    <3>5. QED BY <2>1, <2>4, <3>2, <3>3, <3>4 DEF OnCanvas
  <2>5. ASSUME NEW e, own = <<e>>
        PROVE  OnCanvas(c, PerformAll(c, es), b, Prints(es), k) /\ Prints(es) \in Nat
    <3>1. es = <<first, e>>
      <4>1. <<first>> \o <<e>> = <<first, e>>
        BY JoinedPair
      <4>2. QED BY <1>1, <2>3, <2>5, <4>1
    <3>2. PerformAll(c, es) = Perform(mid, e)
      <4>1. Len(es) = 2 /\ es[1] = first /\ es[2] = e
        BY <3>1
      <4>2. QED BY <2>2, <4>1 DEF PerformAll
    <3>3. Prints(es) = 1 + PrintsOf(e)
      BY <2>2, <3>1, PrintsOfTwo
    <3>4. OwnEvent(mid, b, e, k + 1)
      BY <2>1, <2>5, PerformOnCanvas
    <3>5. PrintsOf(e) \in Nat /\ (k + 1) + PrintsOf(e) = k + (1 + PrintsOf(e))
      BY <3>4 DEF OwnEvent
    <3>6. Noted(c, Perform(mid, e))
      BY <2>1, <3>4 DEF OwnEvent, OnCanvas, Noted
    <3>7. QED BY <2>1, <3>2, <3>3, <3>4, <3>5, <3>6 DEF OwnEvent, OnCanvas
  <2>6. QED BY <2>4, <2>5, OwnsShape
<1>4. QED BY <1>2, <1>3 DEF Leads

-----------------------------------------------------------------------------
(* The invariant.                                                          *)

SanInv ==
    /\ ParserInv
    /\ canvas \in Canvas
    /\ newlines \in Nat /\ printedHere \in Nat
    /\ NewlinesCounted
    /\ Reaches(canvas, printedHere)

\* The sanitizer starts with an empty canvas.
LEMMA SanInit == Init => SanInv
<1> SUFFICES ASSUME Init PROVE SanInv
  OBVIOUS
<1>1. ParserInv
  BY DEF Init, ParserInit, ParserInv, NoPrivate
<1>2. canvas = [line |-> <<>>, col |-> 0, changed |-> FALSE, committedLines |-> 0]
  BY DEF Init, EmptyCanvas
<1>3. <<>> \in Seq(Chars) /\ Len(<<>>) = 0
  OBVIOUS
<1>4. canvas \in Canvas /\ canvas.committedLines = 0 /\ Reaches(canvas, 0)
  BY <1>2, <1>3, Columns DEF Canvas, Reaches
<1>5. QED BY <1>1, <1>4 DEF Init, SanInv, NewlinesCounted

\* The canvas a chunk starts from.
LEMMA FreshCanvas ==
  ASSUME SanInv, NEW fresh \in BOOLEAN, NEW start,
         start = IF fresh THEN [canvas EXCEPT !.changed = FALSE] ELSE canvas
  PROVE  /\ start \in Canvas
         /\ start.line = canvas.line /\ start.committedLines = canvas.committedLines
         /\ Reaches(start, printedHere)
<1>1. canvas \in Canvas /\ Reaches(canvas, printedHere)
  BY DEF SanInv
<1>2. /\ start \in Canvas /\ start.line = canvas.line /\ start.col = canvas.col
      /\ start.committedLines = canvas.committedLines
  BY <1>1 DEF Canvas
<1>3. QED BY <1>1, <1>2 DEF Reaches

\* A byte keeps the invariant, and what changes the log is noted.
LEMMA FeedStep ==
  ASSUME SanInv, NEW b \in Bytes, NEW fresh \in BOOLEAN, Feed(b, fresh)
  PROVE  SanInv' /\ (Log(canvas') # Log(canvas) => canvas'.changed)
<1> DEFINE start == IF fresh THEN [canvas EXCEPT !.changed = FALSE] ELSE canvas
           lines == IF b = LF THEN 1 ELSE 0
<1>1. /\ start \in Canvas
      /\ start.line = canvas.line /\ start.committedLines = canvas.committedLines
      /\ Reaches(start, printedHere)
  BY FreshCanvas
<1>2. /\ Advance(b) /\ Record(b) /\ canvas' = PerformAll(start, emitted')
  BY DEF Feed
<1> HIDE DEF start
<1>3. b \in Byte /\ newlines \in Nat /\ printedHere \in Nat
  BY SanitizerAssumption DEF SanInv
<1>4. Reports(b, emitted') /\ ParserInv'
  BY <1>2, <1>3, AdvanceReports DEF SanInv
<1>5. OnCanvas(start, canvas', b, Prints(emitted'), printedHere) /\ Prints(emitted') \in Nat
  BY <1>1, <1>2, <1>3, <1>4, ReportsOnCanvas
<1>6. /\ newlines' = newlines + lines
      /\ printedHere' = IF b = LF THEN 0 ELSE printedHere + Prints(emitted')
  BY <1>2 DEF Record
<1>7. newlines' \in Nat /\ printedHere' \in Nat
  BY <1>3, <1>5, <1>6
<1>8. canvas'.committedLines = newlines'
  BY <1>1, <1>5, <1>6 DEF OnCanvas, SanInv, NewlinesCounted
<1>9. Reaches(canvas', printedHere')
  BY <1>5, <1>6 DEF OnCanvas
<1>10. SanInv'
  BY <1>4, <1>5, <1>7, <1>8, <1>9 DEF OnCanvas, SanInv, NewlinesCounted, Reaches
<1>11. QED BY <1>1, <1>5, <1>10 DEF OnCanvas, Noted, Log

\* So does the end of the stream.
LEMMA FinishStep ==
  ASSUME SanInv, Finish
  PROVE  SanInv' /\ canvas'.changed
<1>1. PICK char \in Chars : emitted' = <<Printed(char)>>
  BY FlushReports DEF SanInv, ParserInv, Finish
<1>2. canvas' = Write(canvas, char)
  <2>1. Len(emitted') = 1 /\ emitted'[1] = Printed(char)
    BY <1>1
  <2>2. PerformAll(canvas, emitted') = Perform(canvas, Printed(char))
    BY <2>1 DEF PerformAll
  <2>3. Perform(canvas, Printed(char)) = Write(canvas, char)
    BY DEF Perform, Printed
  <2>4. QED BY <2>2, <2>3 DEF Finish
<1>3. /\ canvas' \in Canvas /\ canvas'.committedLines = canvas.committedLines
      /\ Reaches(canvas', printedHere + 1)
  BY <1>2, WriteOnCanvas DEF SanInv
<1>4. canvas'.changed
  BY <1>2 DEF Write, SanInv, Canvas
<1>5. ParserInv'
  <2>1. utf8' = <<>> /\ <<>> \in Seq(Byte)
    BY DEF Finish, ClearUtf8
  <2>2. QED BY <2>1 DEF Finish, SanInv, ParserInv, seqVars
<1>6. printedHere' = printedHere + 1 /\ newlines' = newlines
  BY DEF Finish
<1>7. printedHere' \in Nat
  BY <1>6 DEF SanInv
<1>8. QED BY <1>3, <1>4, <1>5, <1>6, <1>7 DEF SanInv, NewlinesCounted, Reaches

\* So does every step.
LEMMA SanStep ==
  ASSUME SanInv, [Next]_vars
  PROVE  SanInv' /\ [Log(canvas') # Log(canvas) => canvas'.changed]_vars
<1>1. CASE Finish
  BY <1>1, FinishStep
<1>2. ASSUME NEW b \in Bytes, NEW fresh \in BOOLEAN, Feed(b, fresh)
      PROVE  SanInv' /\ (Log(canvas') # Log(canvas) => canvas'.changed)
  BY <1>2, FeedStep
<1>3. CASE UNCHANGED vars
  BY <1>3 DEF vars, parserVars, seqVars, history, SanInv, ParserInv, NewlinesCounted, Reaches
<1>4. QED BY <1>1, <1>2, <1>3 DEF Next

\* The invariant, for every stream of bytes.
LEMMA SanInvHolds == Spec => []SanInv
  BY SanInit, SanStep, PTL DEF Spec

-----------------------------------------------------------------------------
(* The theorems.                                                           *)

\* However sequences, strings and characters are cut short, the committed lines are
\* counted one for one with the line ends written.
THEOREM LinesAreCounted == Spec => []NewlinesCounted
<1>1. SanInv => NewlinesCounted
  BY DEF SanInv
<1>2. QED BY <1>1, SanInvHolds, PTL

\* No sequence of printing, movements and erasures makes a line longer than MAX_COL
\* cells and what was printed on it.
THEOREM LinesAreBounded == Spec => []LineBounded
<1>1. SanInv => LineBounded
  BY DEF SanInv, Reaches, LineBounded
<1>2. QED BY <1>1, SanInvHolds, PTL

\* No change of the log goes unmarked, whichever bytes of a chunk make it.
THEOREM ChangesAreSeen == Spec => ChangesAreNoted
  BY SanInvHolds, SanStep, PTL DEF Spec, ChangesAreNoted

-----------------------------------------------------------------------------
(* The parameters of a sequence.                                           *)

\* Digits and separators.
Codes == 48..59

\* f counts up the number that the first digits of d write.
CountsUp(f, d, n) ==
    /\ f \in [0..n -> Nat] /\ f[0] = 0
    /\ \A i \in 1..n : f[i] = 10 * f[i - 1] + d[i] - 48

\* There is one such count only.
LEMMA OneCount ==
  ASSUME NEW d, NEW n \in Nat, NEW f, NEW g, CountsUp(f, d, n),
         DOMAIN g = 0..n, g[0] = 0, \A i \in 1..n : g[i] = 10 * g[i - 1] + d[i] - 48
  PROVE  \A i \in 0..n : f[i] = g[i]
<1> DEFINE S == {i \in 0..n : f[i] # g[i]}
<1>1. SUFFICES ASSUME S # {} PROVE FALSE
  OBVIOUS
<1>2. PICK m \in S : \A k \in S : m <= k
  <2>1. S \in SUBSET (0..n)
    OBVIOUS
  <2> HIDE DEF S
  <2>2. QED BY <1>1, <2>1, Least
<1>3. m \in 0..n /\ f[m] # g[m]
  OBVIOUS
<1>4. m # 0
  BY <1>3 DEF CountsUp
<1>5. m \in 1..n /\ m - 1 \in 0..n /\ m - 1 < m
  BY <1>3, <1>4
<1>6. f[m - 1] = g[m - 1]
  <2>1. m - 1 \notin S
    <3> HIDE DEF S
    <3>1. QED BY <1>2, <1>5
  <2>2. QED BY <1>5, <2>1
<1>7. f[m] = 10 * f[m - 1] + d[m] - 48 /\ g[m] = 10 * g[m - 1] + d[m] - 48
  BY <1>5 DEF CountsUp
<1>8. QED BY <1>3, <1>6, <1>7

\* Every sequence of digits has such a count.
LEMMA SomeCount ==
  ASSUME NEW d \in Seq(Codes) PROVE \E f : CountsUp(f, d, Len(d))
<1> DEFINE N == Len(d)
           S == {n \in 0..N : ~ \E f : CountsUp(f, d, n)}
<1>0. N \in Nat /\ \A i \in 1..N : d[i] \in Codes
  BY LenProperties, ElementOfSeq
<1> HIDE DEF N
<1>1. SUFFICES ASSUME S # {} PROVE FALSE
  <2>1. N \in 0..N
    BY <1>0
  <2>2. QED BY <2>1 DEF N
<1>2. PICK m \in S : \A k \in S : m <= k
  <2>1. S \in SUBSET (0..N)
    OBVIOUS
  <2> HIDE DEF S
  <2>2. QED BY <1>0, <1>1, <2>1, Least
<1>3. m \in 0..N /\ ~ \E f : CountsUp(f, d, m)
  OBVIOUS
<1>4. CASE m = 0
  <2>1. CountsUp([i \in 0..0 |-> 0], d, 0)
    BY DEF CountsUp
  <2>2. QED BY <1>3, <1>4, <2>1
<1>5. CASE m # 0
  <2>1. m - 1 \in 0..N /\ m - 1 < m /\ m \in 1..N /\ m - 1 \in Nat
    BY <1>0, <1>3, <1>5
  <2>2. m - 1 \notin S
    <3> HIDE DEF S
    <3>1. QED BY <1>2, <2>1
  <2>3. PICK f : CountsUp(f, d, m - 1)
    BY <2>1, <2>2
  <2> DEFINE x == 10 * f[m - 1] + d[m] - 48
             g == [i \in 0..m |-> IF i = m THEN x ELSE f[i]]
  <2>4. f \in [0 .. m - 1 -> Nat] /\ f[0] = 0
        /\ \A i \in 1 .. m - 1 : f[i] = 10 * f[i - 1] + d[i] - 48
    BY <2>3 DEF CountsUp
  <2>5. x \in Nat
    <3>1. f[m - 1] \in Nat /\ d[m] \in Codes
      BY <1>0, <2>1, <2>4
    <3>2. \A a \in Nat, b \in 48..59 : 10 * a + b - 48 \in Nat
      OBVIOUS
    <3>3. QED BY <3>1, <3>2 DEF Codes
  <2> HIDE DEF x
  <2>6. g \in [0..m -> Nat]
    <3>1. \A i \in 0..m : i # m => i \in 0 .. m - 1
      BY <2>1
    <3>2. QED BY <2>4, <2>5, <3>1
  <2>7. g[0] = 0
    BY <2>1, <2>4
  <2>8. \A i \in 1..m : g[i] = 10 * g[i - 1] + d[i] - 48
    <3> SUFFICES ASSUME NEW i \in 1..m PROVE g[i] = 10 * g[i - 1] + d[i] - 48
      OBVIOUS
    <3>1. g[i - 1] = f[i - 1]
      BY <2>1
    <3>2. CASE i = m
      <4>1. g[i] = x /\ x = 10 * f[i - 1] + d[i] - 48
        BY <3>2 DEF x
      <4>2. QED BY <3>1, <4>1
    <3>3. CASE i # m
      <4>1. i \in 1 .. m - 1 /\ g[i] = f[i]
        BY <2>1, <3>3
      <4>2. QED BY <2>4, <3>1, <4>1
    <3>4. QED BY <3>2, <3>3
  <2> HIDE DEF g
  <2>9. CountsUp(g, d, m)
    BY <2>6, <2>7, <2>8 DEF CountsUp
  <2>10. QED BY <1>3, <2>9
<1>6. QED BY <1>4, <1>5

\* DecimalOf is what it counts up to.
LEMMA DecimalCounts ==
  ASSUME NEW d \in Seq(Codes)
  PROVE  \E f : CountsUp(f, d, Len(d)) /\ DecimalOf(d) = f[Len(d)]
<1> DEFINE N == Len(d)
           F(g) == [i \in 0..N |-> IF i = 0 THEN 0 ELSE 10 * g[i - 1] + d[i] - 48]
           Upto == CHOOSE g : g = F(g)
<1>1. N \in Nat
  BY LenProperties
<1>2. PICK f : CountsUp(f, d, N)
  BY SomeCount
<1>3. DecimalOf(d) = Upto[N]
  BY DEF DecimalOf
<1> HIDE DEF N
<1>4. f = F(f)
  <2>1. f \in [0..N -> Nat] /\ f[0] = 0 /\ \A i \in 1..N : f[i] = 10 * f[i - 1] + d[i] - 48
    BY <1>2 DEF CountsUp
  <2>2. f = [i \in 0..N |-> f[i]]
    BY <2>1
  <2>3. \A i \in 0..N : i = 0 \/ i \in 1..N
    BY <1>1
  <2>4. \A i \in 0..N : f[i] = IF i = 0 THEN 0 ELSE 10 * f[i - 1] + d[i] - 48
    BY <2>1, <2>3
  <2>5. QED BY <2>2, <2>4
<1>5. Upto = F(Upto)
  <2> HIDE DEF F
  <2>1. QED BY <1>4
<1> HIDE DEF Upto
<1>6. /\ DOMAIN Upto = 0..N /\ Upto[0] = 0
      /\ \A i \in 1..N : Upto[i] = 10 * Upto[i - 1] + d[i] - 48
  <2>1. 0 \in 0..N /\ \A i \in 1..N : i \in 0..N /\ i # 0
    BY <1>1
  <2>2. DOMAIN Upto = 0..N
    BY <1>5
  <2>3. \A i \in 0..N : Upto[i] = IF i = 0 THEN 0 ELSE 10 * Upto[i - 1] + d[i] - 48
    BY <1>5
  <2>4. QED BY <2>1, <2>2, <2>3
<1>7. f[N] = Upto[N]
  <2>1. N \in 0..N
    BY <1>1
  <2>2. QED BY <1>1, <1>2, <1>6, <2>1, OneCount
<1>8. QED BY <1>2, <1>3, <1>7 DEF N

\* No digits write 0.
LEMMA DecimalOfNone == DecimalOf(<<>>) = 0
<1>1. <<>> \in Seq(Codes) /\ Len(<<>>) = 0
  OBVIOUS
<1>2. QED BY <1>1, DecimalCounts DEF CountsUp

\* One more digit.
LEMMA DecimalOfMore ==
  ASSUME NEW d \in Seq(Codes), NEW x \in Codes
  PROVE  DecimalOf(d) \in Nat /\ DecimalOf(Append(d, x)) = 10 * DecimalOf(d) + x - 48
<1> DEFINE e == Append(d, x)
           n == Len(d)
<1>1. /\ n \in Nat /\ e \in Seq(Codes) /\ Len(e) = n + 1
      /\ \A i \in 1..n : e[i] = d[i]
      /\ e[n + 1] = x
  BY LenProperties, AppendProperties
<1>2. PICK f : CountsUp(f, d, n) /\ DecimalOf(d) = f[n]
  BY DecimalCounts
<1>3. PICK g : CountsUp(g, e, n + 1) /\ DecimalOf(e) = g[n + 1]
  BY <1>1, DecimalCounts
<1> HIDE DEF e, n
<1>4. /\ g \in [0 .. n + 1 -> Nat] /\ g[0] = 0
      /\ \A i \in 1 .. n + 1 : g[i] = 10 * g[i - 1] + e[i] - 48
  BY <1>3 DEF CountsUp
<1> DEFINE h == [i \in 0..n |-> g[i]]
<1>5. f[n] = g[n]
  <2>1. \A i \in 0..n : h[i] = g[i]
    OBVIOUS
  <2>2. \A i \in 1..n : i \in 0..n /\ i - 1 \in 0..n /\ i \in 1 .. n + 1
    BY <1>1
  <2>3. \A i \in 1..n : h[i] = 10 * h[i - 1] + d[i] - 48
    BY <1>1, <1>4, <2>1, <2>2
  <2>4. DOMAIN h = 0..n /\ h[0] = 0 /\ n \in 0..n
    BY <1>1, <1>4
  <2> HIDE DEF h
  <2>5. \A i \in 0..n : f[i] = h[i]
    <3>1. /\ n \in Nat /\ CountsUp(f, d, n) /\ DOMAIN h = 0..n /\ h[0] = 0
          /\ \A i \in 1..n : h[i] = 10 * h[i - 1] + d[i] - 48
      BY <1>1, <1>2, <2>3, <2>4
    <3>2. QED BY ONLY <3>1, OneCount, SMTT(30)
  <2>6. QED BY <2>1, <2>4, <2>5
<1>6. n + 1 \in 1 .. n + 1 /\ n + 1 - 1 = n /\ n \in 0..n /\ n \in 0 .. n + 1
  BY <1>1
<1>7. g[n + 1] = 10 * g[n] + x - 48 /\ f[n] \in Nat
  BY <1>1, <1>2, <1>4, <1>6 DEF CountsUp
<1>8. QED BY <1>2, <1>3, <1>5, <1>7 DEF e

\* What appending an item leaves of the items before it.
LEMMA CutOfMore ==
  ASSUME NEW S, NEW s \in Seq(S), NEW x \in S, NEW a \in 1 .. Len(s) + 1
  PROVE  /\ \A b \in a - 1 .. Len(s) : SubSeq(Append(s, x), a, b) = SubSeq(s, a, b)
         /\ SubSeq(Append(s, x), a, Len(s) + 1) = Append(SubSeq(s, a, Len(s)), x)
<1> DEFINE t == Append(s, x)
           n == Len(s)
<1>1. /\ n \in Nat /\ t \in Seq(S) /\ Len(t) = n + 1
      /\ \A i \in 1..n : t[i] = s[i]
      /\ t[n + 1] = x
  BY LenProperties, AppendProperties
<1> HIDE DEF t
<1>2. ASSUME NEW b \in a - 1 .. n PROVE SubSeq(t, a, b) = SubSeq(s, a, b)
  <2>1. /\ a \in 1 .. Len(t) + 1 /\ b \in a - 1 .. Len(t)
        /\ \A i \in 1 .. b - a + 1 : a + i - 1 \in 1..n
    BY <1>1
  <2> DEFINE u == SubSeq(t, a, b)
             v == SubSeq(s, a, b)
  <2>2. /\ u \in Seq(S) /\ Len(u) = b - a + 1
        /\ \A i \in 1 .. b - a + 1 : u[i] = t[a + i - 1]
    BY <1>1, <2>1, CutOut
  <2>3. /\ v \in Seq(S) /\ Len(v) = b - a + 1
        /\ \A i \in 1 .. b - a + 1 : v[i] = s[a + i - 1]
    BY CutOut
  <2> HIDE DEF u, v, n
  <2>4. Len(u) = Len(v) /\ \A i \in 1..Len(u) : u[i] = v[i]
    BY <1>1, <2>1, <2>2, <2>3
  <2>5. u = v
    BY <2>2, <2>3, <2>4, SeqEqual
  <2>6. QED BY <2>5 DEF u, v
<1>3. SubSeq(t, a, n + 1) = Append(SubSeq(s, a, n), x)
  <2>1. /\ a \in 1 .. Len(t) + 1 /\ n + 1 \in a - 1 .. Len(t) /\ n \in a - 1 .. n
    BY <1>1
  <2> DEFINE u == SubSeq(t, a, n + 1)
             v == SubSeq(s, a, n)
             w == Append(v, x)
  <2>2. /\ u \in Seq(S) /\ Len(u) = n + 1 - a + 1
        /\ \A i \in 1 .. n + 1 - a + 1 : u[i] = t[a + i - 1]
    BY <1>1, <2>1, CutOut
  <2>3. /\ v \in Seq(S) /\ Len(v) = n - a + 1
        /\ \A i \in 1 .. n - a + 1 : v[i] = s[a + i - 1]
    BY <2>1, CutOut
  <2> HIDE DEF u, v
  <2>4. /\ w \in Seq(S) /\ Len(w) = Len(v) + 1
        /\ \A i \in 1..Len(v) : w[i] = v[i]
        /\ w[Len(v) + 1] = x
    BY <2>3, AppendProperties
  <2> DEFINE k == n - a + 1
  <2> HIDE DEF w
  <2>5. /\ k \in Nat /\ n + 1 - a + 1 = k + 1 /\ a + (k + 1) - 1 = n + 1
        /\ \A i \in 1..k : a + i - 1 \in 1..n
    BY <1>1
  <2>6. \A i \in 1 .. k + 1 : u[i] = w[i]
    <3> SUFFICES ASSUME NEW i \in 1 .. k + 1 PROVE u[i] = w[i]
      OBVIOUS
    <3>1. CASE i = k + 1
      BY <1>1, <2>2, <2>3, <2>4, <2>5, <3>1
    <3>2. CASE i # k + 1
      <4>1. i \in 1..k
        BY <2>5, <3>2
      <4>2. u[i] = t[a + i - 1]
        BY <2>2, <2>5
      <4>3. w[i] = v[i] /\ v[i] = s[a + i - 1]
        BY <2>3, <2>4, <4>1
      <4>4. QED BY <1>1, <2>5, <4>1, <4>2, <4>3
    <3>3. QED BY <3>1, <3>2
  <2>7. Len(u) = k + 1 /\ Len(w) = k + 1
    BY <2>2, <2>3, <2>4, <2>5
  <2>8. u = w
    BY <2>2, <2>4, <2>6, <2>7, SeqEqual
  <2>9. QED BY <2>8 DEF u, w, v
<1>4. QED BY <1>2, <1>3 DEF t

\* The items from b + 1 to b are none.
LEMMA CutOfNone ==
  ASSUME NEW S, NEW s \in Seq(S), NEW b \in 0..Len(s) PROVE SubSeq(s, b + 1, b) = <<>>
<1>1. b + 1 \in 1 .. Len(s) + 1 /\ b \in b + 1 - 1 .. Len(s) /\ Len(s) \in Nat
  BY LenProperties
<1>2. SubSeq(s, b + 1, b) \in Seq(S) /\ Len(SubSeq(s, b + 1, b)) = b - (b + 1) + 1
  BY <1>1, CutOut
<1> DEFINE t == SubSeq(s, b + 1, b)
<1> HIDE DEF t
<1>3. t \in Seq(S) /\ Len(t) = 0
  BY <1>1, <1>2 DEF t
<1>4. t = <<>>
  BY <1>3, EmptySeq
<1>5. QED BY <1>4 DEF t

\* The parser has read the parameters ps, and the number c if d, from s; e says where
\* the separators of s are.
Read(s, ps, c, d, e) ==
    /\ s \in Seq(Codes) /\ ps \in Seq(Nat) /\ c \in Nat /\ d \in BOOLEAN
    /\ e \in [0..Len(ps) -> 0..Len(s)] /\ e[0] = 0
    /\ \A i, j \in 0..Len(ps) : i < j => e[i] < e[j]
    /\ \A j \in 1..Len(ps) : s[e[j]] = Semicolon
    /\ \A i \in 1..Len(s) : s[i] = Semicolon => \E j \in 1..Len(ps) : e[j] = i
    /\ \A j \in 1..Len(ps) :
         ps[j] = AtMost(DecimalOf(SubSeq(s, e[j - 1] + 1, e[j] - 1)), U16Max)
    /\ c = AtMost(DecimalOf(SubSeq(s, e[Len(ps)] + 1, Len(s))), U16Max)
    /\ d <=> e[Len(ps)] < Len(s)

\* The largest parameter.
LEMMA Limit == U16Max \in Nat /\ U16Max > 0
  BY ParserAssumption

\* Nothing read, nothing written.
LEMMA ReadNothing == \E e : Read(<<>>, <<>>, 0, FALSE, e)
<1> DEFINE e == [i \in 0..0 |-> 0]
<1>1. <<>> \in Seq(Codes) /\ <<>> \in Seq(Nat) /\ Len(<<>>) = 0 /\ SubSeq(<<>>, 1, 0) = <<>>
  OBVIOUS
<1>2. AtMost(0, U16Max) = 0
  BY Limit DEF AtMost
<1>3. e \in [0..0 -> 0..0] /\ e[0] = 0 /\ e[0] + 1 = 1
  OBVIOUS
<1> HIDE DEF e
<1> DEFINE s == <<>>
<1>4. /\ s \in Seq(Codes) /\ s \in Seq(Nat) /\ Len(s) = 0
      /\ 0 = AtMost(DecimalOf(SubSeq(s, e[0] + 1, 0)), U16Max)
  BY <1>1, <1>2, <1>3, DecimalOfNone
<1> HIDE DEF s
<1>5. Read(s, s, 0, FALSE, e)
  BY <1>3, <1>4 DEF Read
<1>6. QED BY <1>5 DEF s

\* The numbers of Read.
LEMMA ReadFacts ==
  ASSUME NEW s, NEW ps, NEW c, NEW d, NEW e, Read(s, ps, c, d, e)
  PROVE  LET m == Len(ps)
             n == Len(s)
         IN  /\ m \in Nat /\ n \in Nat /\ m \in 0..m /\ e[m] \in 0..n
             /\ \A j \in 1..m : j - 1 \in 0..m /\ e[j - 1] \in 0..n /\ e[j] \in 1..n
                                /\ e[j - 1] < e[j]
<1> DEFINE m == Len(ps)
           n == Len(s)
<1>1. m \in Nat /\ n \in Nat
  BY LenProperties DEF Read
<1>2. e \in [0..m -> 0..n] /\ \A i, j \in 0..m : i < j => e[i] < e[j]
  BY DEF Read
<1> HIDE DEF m, n
<1>3. m \in 0..m /\ \A j \in 1..m : j - 1 \in 0..m /\ j \in 0..m /\ j - 1 < j
  BY <1>1
<1>4. \A j \in 1..m : e[j - 1] \in 0..n /\ e[j] \in 0..n /\ e[j - 1] < e[j]
  BY <1>2, <1>3
<1>5. \A j \in 1..m : e[j] \in 1..n
  BY <1>1, <1>4
<1>6. QED BY <1>1, <1>2, <1>3, <1>4, <1>5 DEF m, n

\* Another digit, and what it does to the number: it is the number written, saturated.
LEMMA ReadDigit ==
  ASSUME NEW s, NEW ps, NEW c, NEW d, NEW e, Read(s, ps, c, d, e), NEW b \in Digits
  PROVE  Read(Append(s, b), ps, Saturated(c * 10 + (b - 48)), TRUE, e)
<1> DEFINE m == Len(ps)
           n == Len(s)
           t == Append(s, b)
           last == SubSeq(s, e[m] + 1, n)
           new == Saturated(c * 10 + (b - 48))
<1>1. /\ m \in Nat /\ n \in Nat /\ m \in 0..m /\ e[m] \in 0..n
      /\ \A j \in 1..m : j - 1 \in 0..m /\ e[j - 1] \in 0..n /\ e[j] \in 1..n /\ e[j - 1] < e[j]
  BY ReadFacts
<1>2. /\ s \in Seq(Codes) /\ ps \in Seq(Nat) /\ c \in Nat
      /\ e \in [0..m -> 0..n] /\ e[0] = 0
      /\ \A i, j \in 0..m : i < j => e[i] < e[j]
      /\ \A j \in 1..m : s[e[j]] = Semicolon
      /\ \A i \in 1..n : s[i] = Semicolon => \E j \in 1..m : e[j] = i
      /\ \A j \in 1..m : ps[j] = AtMost(DecimalOf(SubSeq(s, e[j - 1] + 1, e[j] - 1)), U16Max)
      /\ c = AtMost(DecimalOf(last), U16Max)
  BY DEF Read
<1>3. b \in Codes /\ b # Semicolon
  BY DEF Digits, Codes, Semicolon
<1>4. /\ t \in Seq(Codes) /\ Len(t) = n + 1 /\ t[n + 1] = b
      /\ \A i \in 1..n : t[i] = s[i]
  BY <1>2, <1>3, AppendProperties
<1>5. /\ SubSeq(t, e[m] + 1, n + 1) = Append(last, b)
      /\ \A j \in 1..m : SubSeq(t, e[j - 1] + 1, e[j] - 1) = SubSeq(s, e[j - 1] + 1, e[j] - 1)
  <2>1. e[m] + 1 \in 1 .. Len(s) + 1
    BY <1>1
  <2>2. SubSeq(t, e[m] + 1, n + 1) = Append(last, b)
    BY <1>2, <1>3, <2>1, CutOfMore
  <2>3. ASSUME NEW j \in 1..m
        PROVE  SubSeq(t, e[j - 1] + 1, e[j] - 1) = SubSeq(s, e[j - 1] + 1, e[j] - 1)
    <3> DEFINE a == e[j - 1] + 1
               z == e[j] - 1
    <3>1. a \in 1 .. Len(s) + 1 /\ z \in a - 1 .. Len(s)
      BY <1>1, SMTT(30)
    <3> HIDE DEF a, z
    <3>2. SubSeq(Append(s, b), a, z) = SubSeq(s, a, z)
      BY <1>2, <1>3, <3>1, CutOfMore
    <3>3. QED BY <3>2 DEF a, z
  <2>4. QED BY <2>2, <2>3
<1>6. last \in Seq(Codes)
  <2>1. e[m] + 1 \in 1 .. Len(s) + 1 /\ n \in e[m] + 1 - 1 .. Len(s)
    BY <1>1
  <2>2. QED BY <1>2, <2>1, CutOut
<1> HIDE DEF last, t, m, n
<1>7. new \in Nat /\ new = AtMost(DecimalOf(Append(last, b)), U16Max)
  <2> DEFINE v == DecimalOf(last)
  <2>1. v \in Nat /\ DecimalOf(Append(last, b)) = 10 * v + b - 48
    BY <1>3, <1>6, DecimalOfMore
  <2> HIDE DEF v
  <2>2. c = AtMost(v, U16Max)
    BY <1>2 DEF v
  <2>3. b \in 48..57
    BY DEF Digits
  <2>4. CASE v > U16Max
    <3>1. c = U16Max
      BY <2>2, <2>4 DEF AtMost
    <3>2. new = U16Max
      BY <2>3, <3>1, Limit DEF Saturated
    <3>3. AtMost(10 * v + b - 48, U16Max) = U16Max
      BY <2>1, <2>3, <2>4, Limit DEF AtMost
    <3>4. QED BY <2>1, <3>2, <3>3, Limit
  <2>5. CASE ~(v > U16Max)
    <3>1. c = v
      BY <2>2, <2>5 DEF AtMost
    <3>2. c * 10 + (b - 48) = 10 * v + b - 48 /\ 10 * v + b - 48 \in Nat
      BY <2>1, <2>3, <3>1
    <3>3. QED BY <2>1, <3>2, Limit DEF Saturated, AtMost
  <2>6. QED BY <2>4, <2>5
<1> HIDE DEF new
<1>8. e \in [0..m -> 0..Len(t)] /\ e[m] < Len(t)
  <2>1. \A i \in 0..m : e[i] \in 0 .. n + 1
    BY <1>1, <1>2
  <2>2. QED BY <1>1, <1>2, <1>4, <2>1
<1>9. \A i \in 1..Len(t) : t[i] = Semicolon => \E j \in 1..m : e[j] = i
  <2> SUFFICES ASSUME NEW i \in 1 .. n + 1, t[i] = Semicolon PROVE \E j \in 1..m : e[j] = i
    BY <1>4
  <2>1. i # n + 1
    BY <1>3, <1>4
  <2>2. i \in 1..n
    BY <1>1, <2>1
  <2>3. QED BY <1>2, <1>4, <2>2
<1>10. \A j \in 1..m : t[e[j]] = Semicolon
  BY <1>1, <1>2, <1>4
<1>11. Read(t, ps, new, TRUE, e)
  BY <1>2, <1>4, <1>5, <1>7, <1>8, <1>9, <1>10 DEF Read, m
<1>12. QED BY <1>11 DEF t, new

\* A separator ends the number under way.
LEMMA ReadSeparator ==
  ASSUME NEW s, NEW ps, NEW c, NEW d, NEW e, Read(s, ps, c, d, e)
  PROVE  \E f : Read(Append(s, Semicolon), Append(ps, c), 0, FALSE, f)
<1> DEFINE m == Len(ps)
           n == Len(s)
           b == Semicolon
           t == Append(s, b)
           qs == Append(ps, c)
           f == [i \in 0 .. m + 1 |-> IF i = m + 1 THEN n + 1 ELSE e[i]]
           last == SubSeq(s, e[m] + 1, n)
<1>1. /\ m \in Nat /\ n \in Nat /\ m \in 0..m /\ e[m] \in 0..n
      /\ \A j \in 1..m : j - 1 \in 0..m /\ e[j - 1] \in 0..n /\ e[j] \in 1..n /\ e[j - 1] < e[j]
  BY ReadFacts
<1>2. /\ s \in Seq(Codes) /\ ps \in Seq(Nat) /\ c \in Nat
      /\ e \in [0..m -> 0..n] /\ e[0] = 0
      /\ \A i, j \in 0..m : i < j => e[i] < e[j]
      /\ \A j \in 1..m : s[e[j]] = Semicolon
      /\ \A i \in 1..n : s[i] = Semicolon => \E j \in 1..m : e[j] = i
      /\ \A j \in 1..m : ps[j] = AtMost(DecimalOf(SubSeq(s, e[j - 1] + 1, e[j] - 1)), U16Max)
      /\ c = AtMost(DecimalOf(last), U16Max)
  BY DEF Read
<1>3. b \in Codes
  BY DEF Codes, Semicolon
<1>4. /\ t \in Seq(Codes) /\ Len(t) = n + 1 /\ t[n + 1] = Semicolon
      /\ \A i \in 1..n : t[i] = s[i]
  BY <1>2, <1>3, AppendProperties
<1>5. /\ qs \in Seq(Nat) /\ Len(qs) = m + 1 /\ qs[m + 1] = c
      /\ \A j \in 1..m : qs[j] = ps[j]
  BY <1>2, AppendProperties
<1>6. ASSUME NEW a \in 1 .. n + 1, NEW z \in a - 1 .. n PROVE SubSeq(t, a, z) = SubSeq(s, a, z)
  BY <1>2, <1>3, CutOfMore
<1>7. SubSeq(t, n + 2, n + 1) = <<>>
  <2>1. n + 1 \in 0..Len(t) /\ (n + 1) + 1 = n + 2
    BY <1>1, <1>4
  <2>2. QED BY <1>4, <2>1, CutOfNone
<1> HIDE DEF t, qs, m, n, last, b
<1>8. /\ f[m + 1] = n + 1 /\ m + 1 \in 0 .. m + 1 /\ m + 1 \in 1 .. m + 1
      /\ \A i \in 0..m : i \in 0 .. m + 1 /\ i # m + 1 /\ f[i] = e[i]
  BY <1>1
<1>9. /\ f \in [0 .. m + 1 -> 0 .. n + 1] /\ f[0] = 0
  <2>1. 0 \in 0..m /\ n + 1 \in 0 .. n + 1
    BY <1>1
  <2>2. \A i \in 0 .. m + 1 : i # m + 1 => i \in 0..m
    BY <1>1
  <2>3. \A i \in 0..m : e[i] \in 0 .. n + 1
    BY <1>1, <1>2
  <2>4. QED BY <1>2, <1>8, <2>1, <2>2, <2>3
<1> HIDE DEF f
<1>10. \A i, j \in 0 .. m + 1 : i < j => f[i] < f[j]
  <2> SUFFICES ASSUME NEW i \in 0 .. m + 1, NEW j \in 0 .. m + 1, i < j PROVE f[i] < f[j]
    OBVIOUS
  <2>1. i \in 0..m /\ e[i] \in 0..n
    BY <1>1, <1>2
  <2>2. CASE j = m + 1
    BY <1>1, <1>8, <2>1, <2>2
  <2>3. CASE j # m + 1
    <3>1. j \in 0..m
      BY <1>1, <2>3
    <3>2. QED BY <1>2, <1>8, <2>1, <3>1
  <2>4. QED BY <2>2, <2>3
<1>11. \A j \in 1 .. m + 1 : j = m + 1 \/ (j \in 1..m /\ j \in 0..m)
  BY <1>1
<1>12. \A j \in 1 .. m + 1 : t[f[j]] = Semicolon
  <2> SUFFICES ASSUME NEW j \in 1 .. m + 1 PROVE t[f[j]] = Semicolon
    OBVIOUS
  <2>1. CASE j = m + 1
    BY <1>4, <1>8, <2>1
  <2>2. CASE j \in 1..m
    <3>1. f[j] = e[j] /\ e[j] \in 1..n
      BY <1>1, <1>8, <1>11, <2>2
    <3>2. QED BY <1>2, <1>4, <2>2, <3>1
  <2>3. QED BY <1>11, <2>1, <2>2
<1>13. \A i \in 1 .. n + 1 : t[i] = Semicolon => \E j \in 1 .. m + 1 : f[j] = i
  <2> SUFFICES ASSUME NEW i \in 1 .. n + 1, t[i] = Semicolon PROVE \E j \in 1 .. m + 1 : f[j] = i
    OBVIOUS
  <2>1. CASE i = n + 1
    BY <1>8, <2>1
  <2>2. CASE i # n + 1
    <3>1. i \in 1..n
      BY <1>1, <2>2
    <3>2. PICK j \in 1..m : e[j] = i
      BY <1>2, <1>4, <3>1
    <3>3. j \in 1 .. m + 1 /\ j \in 0..m
      BY <1>1
    <3>4. QED BY <1>8, <3>2, <3>3
  <2>3. QED BY <2>1, <2>2
<1>14. \A j \in 1 .. m + 1 :
          qs[j] = AtMost(DecimalOf(SubSeq(t, f[j - 1] + 1, f[j] - 1)), U16Max)
  <2> SUFFICES ASSUME NEW j \in 1 .. m + 1
               PROVE  qs[j] = AtMost(DecimalOf(SubSeq(t, f[j - 1] + 1, f[j] - 1)), U16Max)
    OBVIOUS
  <2>1. CASE j = m + 1
    <3>1. f[j - 1] = e[m] /\ f[j] - 1 = n
      BY <1>1, <1>8, <2>1
    <3>2. e[m] + 1 \in 1 .. n + 1 /\ n \in e[m] + 1 - 1 .. n
      BY <1>1
    <3> DEFINE a == e[m] + 1
    <3> HIDE DEF a
    <3>3. SubSeq(t, a, n) = SubSeq(s, a, n)
      BY <1>6, <3>2 DEF a
    <3>4. SubSeq(t, f[j - 1] + 1, f[j] - 1) = last
      BY <3>1, <3>3 DEF a, last
    <3>5. QED BY <1>2, <1>5, <2>1, <3>4
  <2>2. CASE j \in 1..m
    <3>1. f[j - 1] = e[j - 1] /\ f[j] = e[j]
      BY <1>1, <1>8, <1>11, <2>2
    <3> DEFINE a == e[j - 1] + 1
               z == e[j] - 1
    <3>2. a \in 1 .. n + 1 /\ z \in a - 1 .. n
      BY <1>1, <2>2
    <3> HIDE DEF a, z
    <3>3. SubSeq(t, a, z) = SubSeq(s, a, z)
      BY <1>6, <3>2
    <3>4. SubSeq(t, f[j - 1] + 1, f[j] - 1) = SubSeq(s, e[j - 1] + 1, e[j] - 1)
      BY <3>1, <3>3 DEF a, z
    <3>5. QED BY <1>2, <1>5, <2>2, <3>4
  <2>3. QED BY <1>11, <2>1, <2>2
<1>15. 0 = AtMost(DecimalOf(SubSeq(t, f[m + 1] + 1, n + 1)), U16Max)
  <2>1. f[m + 1] + 1 = n + 2
    BY <1>1, <1>8
  <2>2. AtMost(0, U16Max) = 0
    BY Limit DEF AtMost
  <2>3. QED BY <1>7, <2>1, <2>2, DecimalOfNone
<1>16. ~(f[m + 1] < n + 1) /\ 0 \in Nat
  BY <1>1, <1>8
<1>17. Read(t, qs, 0, FALSE, f)
  BY <1>4, <1>5, <1>9, <1>10, <1>12, <1>13, <1>14, <1>15, <1>16 DEF Read
<1>18. QED BY <1>17 DEF t, qs, b

\* The first separators are as many as their number says.
LEMMA SeparatorsCounted ==
  ASSUME NEW s, NEW ps, NEW c, NEW d, NEW e, Read(s, ps, c, d, e)
  PROVE  /\ Cardinality(Separators(s)) = Len(ps)
         /\ \A j \in 1..Len(ps) : e[j] \in Separators(s) /\ NthSeparator(s, j) = e[j]
<1> DEFINE m == Len(ps)
           n == Len(s)
           ends == Separators(s)
           upto(i) == {h \in ends : h <= i}
<1>1. /\ m \in Nat /\ n \in Nat
      /\ \A j \in 1..m : e[j] \in 1..n /\ j \in 0..m
  <2>1. \A j \in 1..m : j \in 0..m
    BY ReadFacts
  <2>2. QED BY <2>1, ReadFacts
<1>2. /\ s \in Seq(Codes) /\ DOMAIN s = 1..n
      /\ \A i, j \in 0..m : i < j => e[i] < e[j]
      /\ \A j \in 1..m : s[e[j]] = Semicolon
      /\ \A i \in 1..n : s[i] = Semicolon => \E j \in 1..m : e[j] = i
  BY LenProperties DEF Read
<1>3. /\ \A j \in 1..m : e[j] \in ends
      /\ \A i \in ends : i \in 1..n /\ \E j \in 1..m : e[j] = i
  BY <1>1, <1>2 DEF Separators
<1> HIDE DEF m, n, ends
<1>4. ASSUME NEW k \in 0..m, NEW S, S \subseteq ends,
             \A i \in ends : i \in S <=> \E j \in 1..k : e[j] = i
      PROVE  Cardinality(S) = k
  <2> DEFINE f == [j \in 1..k |-> e[j]]
  <2>1. \A j \in 1..k : j \in 1..m /\ j \in 0..m
    BY <1>1
  <2>2. f \in [1..k -> S]
    BY <1>3, <1>4, <2>1
  <2>3. \A a, b \in 1..k : f[a] = f[b] => a = b
    <3> SUFFICES ASSUME NEW a \in 1..k, NEW b \in 1..k, e[a] = e[b] PROVE a = b
      OBVIOUS
    <3>1. a \in 0..m /\ b \in 0..m /\ e[a] \in 1..n /\ e[b] \in 1..n
      BY <1>1, <2>1
    <3>2. ~(a < b) /\ ~(b < a)
      BY <1>1, <1>2, <3>1
    <3>3. QED BY <1>1, <3>1, <3>2
  <2>4. \A i \in S : \E j \in 1..k : f[j] = i
    BY <1>4
  <2>5. f \in Bijection(1..k, S)
    <3> HIDE DEF f
    <3>1. QED BY <2>2, <2>3, <2>4, Fun_IsBij
  <2>6. IsFiniteSet(1..k) /\ Cardinality(1..k) = k
    <3>1. 1 \in Int /\ k \in Int /\ k \in Nat
      BY <1>1
    <3>2. IsFiniteSet(1..k) /\ Cardinality(1..k) = IF 1 > k THEN 0 ELSE k - 1 + 1
      BY <3>1, FS_Interval
    <3>3. QED BY <3>1, <3>2
  <2>7. ExistsBijection(1..k, S)
    BY <2>5 DEF ExistsBijection
  <2>8. QED BY <2>6, <2>7, FS_Bijection
<1>5. Cardinality(ends) = m
  <2>1. m \in 0..m
    BY <1>1
  <2>2. QED BY <1>3, <1>4, <2>1
<1>6. ASSUME NEW k \in 1..m PROVE Cardinality(upto(e[k])) = k
  <2>1. k \in 0..m
    BY <1>1
  <2>2. \A j \in 1..m : e[j] <= e[k] <=> j \in 1..k
    <3> SUFFICES ASSUME NEW j \in 1..m PROVE e[j] <= e[k] <=> j \in 1..k
      OBVIOUS
    <3>1. j \in 0..m /\ e[j] \in 1..n /\ e[k] \in 1..n
      BY <1>1
    <3>2. (j < k => e[j] < e[k]) /\ (k < j => e[k] < e[j]) /\ (j = k => e[j] = e[k])
      BY <1>2, <2>1, <3>1
    <3>3. QED BY <1>1, <3>1, <3>2
  <2>3. \A i \in ends : i \in upto(e[k]) <=> \E j \in 1..k : e[j] = i
    <3>1. \A j \in 1..k : j \in 1..m
      BY <1>1
    <3>2. ASSUME NEW i \in ends, i <= e[k] PROVE \E j \in 1..k : e[j] = i
      BY <1>3, <2>2, <3>2
    <3>3. ASSUME NEW i \in ends, NEW j \in 1..k, e[j] = i PROVE i <= e[k]
      BY <2>2, <3>1, <3>3
    <3>4. QED BY <3>2, <3>3
  <2>4. upto(e[k]) \subseteq ends
    OBVIOUS
  <2> DEFINE S == upto(e[k])
  <2> HIDE DEF S
  <2>5. S \subseteq ends /\ \A i \in ends : i \in S <=> \E j \in 1..k : e[j] = i
    BY <2>3, <2>4 DEF S
  <2>6. Cardinality(S) = k
    BY <1>4, <2>1, <2>5
  <2>7. QED BY <2>6 DEF S
<1>7. ASSUME NEW j \in 1..m
      PROVE  NthSeparator(s, j) = e[j]
  <2>1. e[j] \in ends /\ Cardinality(upto(e[j])) = j
    BY <1>3, <1>6
  <2>2. \A i \in ends : Cardinality(upto(i)) = j => i = e[j]
    BY <1>3, <1>6
  <2>3. e[j] = CHOOSE i \in ends : Cardinality(upto(i)) = j
    <3> HIDE DEF upto
    <3>1. QED BY <2>1, <2>2
  <2>4. QED BY <2>3 DEF NthSeparator, ends
<1>8. QED BY <1>3, <1>5, <1>7 DEF m, ends

\* What has been read is what is written.
LEMMA ReadIsWritten ==
  ASSUME NEW s, NEW ps, NEW c, NEW d, NEW e, Read(s, ps, c, d, e)
  PROVE  (IF d THEN Append(ps, c) ELSE ps) = Written(s)
<1> DEFINE m == Len(ps)
           n == Len(s)
           more == IF s # <<>> /\ s[Len(s)] # Semicolon THEN 1 ELSE 0
           q == Cardinality(Separators(s))
           k == q + more
           End(j) == IF j > q THEN Len(s) + 1 ELSE NthSeparator(s, j)
           Begin(j) == IF j = 1 THEN 1 ELSE End(j - 1) + 1
           Number(j) == AtMost(DecimalOf(SubSeq(s, Begin(j), End(j) - 1)), U16Max)
           r == IF d THEN Append(ps, c) ELSE ps
<1>1. /\ m \in Nat /\ n \in Nat /\ m \in 0..m /\ e[m] \in 0..n
      /\ \A j \in 1..m : j - 1 \in 0..m /\ e[j] \in 1..n
  BY ReadFacts
<1>2. /\ s \in Seq(Codes) /\ ps \in Seq(Nat) /\ c \in Nat /\ d \in BOOLEAN /\ e[0] = 0
      /\ \A i, j \in 0..m : i < j => e[i] < e[j]
      /\ \A j \in 1..m : s[e[j]] = Semicolon
      /\ \A i \in 1..n : s[i] = Semicolon => \E j \in 1..m : e[j] = i
      /\ \A j \in 1..m : ps[j] = AtMost(DecimalOf(SubSeq(s, e[j - 1] + 1, e[j] - 1)), U16Max)
      /\ c = AtMost(DecimalOf(SubSeq(s, e[m] + 1, n)), U16Max)
      /\ d <=> e[m] < n
  BY DEF Read
<1>3. q = m /\ \A j \in 1..m : NthSeparator(s, j) = e[j]
  BY SeparatorsCounted
<1>4. Written(s) = [j \in 1..k |-> Number(j)]
  BY DEF Written
<1> HIDE DEF q
<1>5. (\A j \in 1..m : End(j) = e[j]) /\ End(m + 1) = n + 1
  <2>1. m + 1 > m /\ \A j \in 1..m : ~(j > m)
    BY <1>1
  <2>2. QED BY <1>3, <2>1
<1> HIDE DEF End
<1>6. \A j \in 1 .. m + 1 : Begin(j) = e[j - 1] + 1
  <2> SUFFICES ASSUME NEW j \in 1 .. m + 1 PROVE Begin(j) = e[j - 1] + 1
    OBVIOUS
  <2>1. CASE j = 1
    BY <1>2, <2>1
  <2>2. CASE j # 1
    <3>1. j - 1 \in 1..m
      BY <1>1, <2>2
    <3>2. QED BY <1>5, <2>2, <3>1
  <2>3. QED BY <2>1, <2>2
<1> HIDE DEF Begin
<1>7. d <=> (s # <<>> /\ s[n] # Semicolon)
  <2>1. ASSUME d PROVE s # <<>> /\ s[n] # Semicolon
    <3>1. e[m] < n /\ n > 0
      BY <1>1, <1>2, <2>1
    <3>2. s # <<>>
      BY <3>1
    <3>3. ASSUME s[n] = Semicolon PROVE FALSE
      <4>1. n \in 1..n
        BY <1>1, <3>1
      <4>2. PICK j \in 1..m : e[j] = n
        BY <1>2, <3>3, <4>1
      <4>3. j \in 0..m /\ e[j] \in 1..n /\ (j = m \/ j < m)
        BY <1>1
      <4>4. j = m \/ e[j] < e[m]
        BY <1>1, <1>2, <4>3
      <4>5. QED BY <1>1, <3>1, <4>2, <4>4
    <3>4. QED BY <3>2, <3>3
  <2>2. ASSUME ~d PROVE ~(s # <<>> /\ s[n] # Semicolon)
    <3>1. e[m] = n
      BY <1>1, <1>2, <2>2
    <3>2. CASE m = 0
      <4>1. n = 0
        BY <1>2, <3>1, <3>2
      <4>2. s = <<>>
        BY <1>2, <4>1, EmptySeq
      <4>3. QED BY <4>2
    <3>3. CASE m # 0
      <4>1. m \in 1..m
        BY <1>1, <3>3
      <4>2. QED BY <1>2, <3>1, <4>1
    <3>4. QED BY <3>2, <3>3
  <2>3. QED BY <1>2, <2>1, <2>2
<1>8. k = IF d THEN m + 1 ELSE m
  BY <1>1, <1>3, <1>7
<1> HIDE DEF k
<1>9. /\ r \in Seq(Nat) /\ Len(r) = k
      /\ \A j \in 1..m : r[j] = ps[j]
      /\ d => r[m + 1] = c
  <2>1. CASE d
    <3>1. r = Append(ps, c)
      BY <2>1
    <3>2. QED BY <1>1, <1>2, <1>8, <2>1, <3>1, AppendProperties
  <2>2. CASE ~d
    BY <1>2, <1>8, <2>2
  <2>3. QED BY <2>1, <2>2
<1> HIDE DEF r
<1>10. \A j \in 1..k : r[j] = Number(j)
  <2> SUFFICES ASSUME NEW j \in 1..k PROVE r[j] = Number(j)
    OBVIOUS
  <2>1. CASE j <= m
    <3>1. j \in 1..m /\ j \in 1 .. m + 1
      BY <1>1, <1>8, <2>1
    <3>2. Begin(j) = e[j - 1] + 1 /\ End(j) = e[j]
      BY <1>5, <1>6, <3>1
    <3>3. QED BY <1>2, <1>9, <3>1, <3>2
  <2>2. CASE ~(j <= m)
    <3>1. d /\ j = m + 1 /\ j \in 1 .. m + 1
      BY <1>1, <1>8, <2>2
    <3>2. Begin(j) = e[m] + 1 /\ End(j) - 1 = n
      <4>1. j - 1 = m /\ n + 1 - 1 = n
        BY <1>1, <3>1
      <4>2. QED BY <1>5, <1>6, <3>1, <4>1
    <3>3. QED BY <1>2, <1>9, <3>1, <3>2
  <2>3. QED BY <2>1, <2>2
<1> HIDE DEF Number
<1>11. r = [j \in 1..k |-> r[j]]
  <2>1. DOMAIN r = 1..k /\ r = [j \in DOMAIN r |-> r[j]]
    BY <1>9, LenProperties
  <2>2. QED BY <2>1
<1>12. r = [j \in 1..k |-> Number(j)]
  BY <1>10, <1>11
<1>13. QED BY <1>4, <1>12 DEF r

-----------------------------------------------------------------------------
(* The parser at work.                                                     *)

\* While a sequence is under way the parser has read what came of it.
CsiInv ==
    /\ pstate \in {"Esc", "Csi"} => \E e : Read(body, params, cur, sawDigit, e)
    /\ pstate = "OscStringEsc" => body = <<>>

\* No sequence is delivered.
NoCsi(es) == \A i \in DOMAIN es : es[i].kind # "csi"

\* What comes before an event, and the event.
LEMMA LedEvent ==
  ASSUME NEW lead \in Leads, NEW own
  PROVE  /\ NoCsi(lead) /\ NoCsi(lead \o <<>>)
         /\ \A i \in DOMAIN (lead \o <<own>>) :
              (lead \o <<own>>)[i] = own \/ (lead \o <<own>>)[i].kind = "print"
<1>1. CASE lead = <<>>
  BY <1>1 DEF NoCsi
<1>2. CASE lead = <<Printed(Replacement)>>
  <2>1. lead \o <<own>> = <<Printed(Replacement), own>>
    BY <1>2, JoinedPair
  <2>2. lead \o <<>> = <<Printed(Replacement)>>
    <3> DEFINE event == Printed(Replacement)
    <3> HIDE DEF event
    <3>1. <<event>> \in Seq({event})
      OBVIOUS
    <3>2. <<event>> \o <<>> = <<event>>
      BY <3>1, ConcatEmptySeq
    <3>3. QED BY <1>2, <3>2 DEF event
  <2>3. Printed(Replacement).kind = "print"
    BY DEF Printed
  <2>4. QED BY <1>2, <2>1, <2>2, <2>3 DEF NoCsi
<1>3. QED BY <1>1, <1>2 DEF Leads

\* Text and control characters are no sequences.
LEMMA LedOther ==
  ASSUME NEW lead \in Leads, NEW event, event.kind # "csi"
  PROVE  NoCsi(lead) /\ NoCsi(lead \o <<>>) /\ NoCsi(lead \o <<event>>)
  BY LedEvent DEF NoCsi

\* A character that ends is no sequence.
LEMMA FlushIsNoCsi == ASSUME NEW s PROVE NoCsi(FlushUtf8(s))
  BY DEF FlushUtf8, NoCsi, Printed

\* Nor is a control character.
LEMMA ExecutedIsNoCsi ==
  ASSUME NEW lead \in Leads, NEW b PROVE NoCsi(lead \o Executed(b))
<1>1. Execute(b).kind # "csi"
  BY DEF Execute
<1>2. CASE b \in ExecutableC0
  BY <1>1, <1>2, LedOther DEF Executed
<1>3. CASE b \notin ExecutableC0
  <2>1. Execute(b).kind # "csi" /\ Executed(b) = <<>>
    BY <1>1, <1>3 DEF Executed
  <2>2. QED BY <2>1, LedOther
<1>4. QED BY <1>2, <1>3

\* What `Record` keeps of the byte b.
Kept(b) ==
    CASE b = ESC -> <<>>
      [] pstate = "Csi" /\ b \in Digits \cup {Semicolon} -> Append(body, b)
      [] OTHER -> body

\* Where no sequence is delivered there is nothing to show.
LEMMA NoneDelivered ==
  ASSUME NoCsi(emitted') PROVE CsiParamsExact'
  BY DEF NoCsi, CsiParamsExact

\* A sequence that begins has read nothing.
LEMMA BeginsWithNothing ==
  ASSUME ResetParams, body' = <<>>
  PROVE  CsiInv'
<1>1. \E e : Read(body', params', cur', sawDigit', e)
  BY ReadNothing DEF ResetParams
<1>2. QED BY <1>1 DEF CsiInv

\* Each state of the parser keeps what it has read, and delivers that.
LEMMA DispatchReads ==
  ASSUME CsiInv, NEW b \in Byte, NEW lead \in Leads, Dispatch(b, lead), body' = Kept(b)
  PROVE  CsiInv' /\ CsiParamsExact'
<1>1. ESC = 27 /\ ESC \notin Digits \cup {Semicolon}
  BY DEF ESC, Digits, Semicolon
<1>2. CASE b = ESC /\ StartEscape(lead)
  <2>1. body' = <<>> /\ NoCsi(emitted')
    BY <1>1, <1>2, LedEvent DEF Kept, StartEscape
  <2>2. CASE pstate = "OscString"
    <3>1. pstate' = "OscStringEsc"
      BY <1>2, <2>2 DEF StartEscape
    <3>2. QED BY <2>1, <3>1, NoneDelivered DEF CsiInv
  <2>3. CASE pstate # "OscString"
    <3>1. ResetParams
      BY <1>2, <2>3 DEF StartEscape
    <3>2. QED BY <2>1, <3>1, NoneDelivered, BeginsWithNothing
  <2>4. QED BY <2>2, <2>3
<1>3. ASSUME b # ESC, pstate # "Csi" PROVE body' = body
  BY <1>3 DEF Kept
<1>4. ASSUME b # ESC, Ground(b, lead) PROVE CsiInv' /\ CsiParamsExact'
  <2>1. pstate' = "Ground"
    BY <1>4 DEF Ground
  <2>2. CsiInv'
    BY <2>1 DEF CsiInv
  <2> DEFINE own == CASE b < 32 \/ b = DEL        -> <<Execute(b)>>
                      [] b \in 32..126            -> <<Printed(<<b>>)>>
                      [] b > DEL /\ NeedOf(b) = 0 -> <<Printed(Replacement)>>
                      [] OTHER                    -> <<>>
  <2>3. emitted' = lead \o own
    BY <1>4 DEF Ground
  <2>4. own = <<>> \/ \E event : own = <<event>> /\ event.kind # "csi"
    <3>1. Execute(b).kind # "csi" /\ \A c : Printed(c).kind # "csi"
      BY DEF Execute, Printed
    <3>2. CASE b < 32 \/ b = DEL
      <4>1. b \notin 32..126 /\ ~(b > DEL)
        BY <3>2 DEF DEL, Byte
      <4>2. own = <<Execute(b)>>
        BY <3>2, <4>1
      <4>3. QED BY <3>1, <4>2
    <3>3. CASE b \in 32..126
      <4>1. ~(b < 32 \/ b = DEL) /\ ~(b > DEL)
        BY <3>3 DEF DEL, Byte
      <4>2. own = <<Printed(<<b>>)>>
        BY <3>3, <4>1
      <4>3. QED BY <3>1, <4>2
    <3>4. CASE b > DEL /\ NeedOf(b) = 0
      <4>1. ~(b < 32 \/ b = DEL) /\ b \notin 32..126
        BY <3>4 DEF DEL, Byte
      <4>2. own = <<Printed(Replacement)>>
        BY <3>4, <4>1
      <4>3. QED BY <3>1, <4>2
    <3>5. CASE ~(b < 32 \/ b = DEL) /\ b \notin 32..126 /\ ~(b > DEL /\ NeedOf(b) = 0)
      <4>1. own = <<>>
        BY <3>5
      <4>2. QED BY <4>1
    <3>6. QED BY <3>2, <3>3, <3>4, <3>5
  <2> HIDE DEF own
  <2>5. NoCsi(emitted')
    BY <2>3, <2>4, LedOther, LedEvent
  <2>6. QED BY <2>2, <2>5, NoneDelivered
<1>5. ASSUME b # ESC, Escape(b, lead) PROVE CsiInv' /\ CsiParamsExact'
  <2>1. NoCsi(emitted')
    BY <1>5, ExecutedIsNoCsi DEF Escape
  <2>2. PICK e : Read(body, params, cur, sawDigit, e)
    BY <1>5 DEF CsiInv, Escape
  <2>3. body' = body /\ UNCHANGED seqVars
    BY <1>3, <1>5 DEF Escape
  <2>4. \E f : Read(body', params', cur', sawDigit', f)
    BY <2>2, <2>3 DEF seqVars
  <2>5. pstate' # "OscStringEsc"
    BY <1>5 DEF Escape, EscapeTo
  <2>6. QED BY <2>1, <2>4, <2>5, NoneDelivered DEF CsiInv
<1>6. ASSUME b # ESC, EscIntermediate(b, lead) PROVE CsiInv' /\ CsiParamsExact'
  <2>1. NoCsi(emitted')
    BY <1>6, ExecutedIsNoCsi DEF EscIntermediate
  <2>2. pstate' \notin {"Esc", "Csi", "OscStringEsc"}
    BY <1>6 DEF EscIntermediate
  <2>3. QED BY <2>1, <2>2, NoneDelivered DEF CsiInv
<1>7. ASSUME b # ESC, Osc(b, lead) PROVE CsiInv' /\ CsiParamsExact'
  <2>1. NoCsi(emitted')
    <3>1. Execute(b).kind # "csi"
      BY DEF Execute
    <3>2. NoCsi(lead \o <<Execute(b)>>) /\ NoCsi(lead \o <<>>)
      BY <3>1, LedOther
    <3>3. QED BY <1>7, <3>2 DEF Osc
  <2>2. pstate' \notin {"Esc", "Csi", "OscStringEsc"}
    BY <1>7 DEF Osc
  <2>3. QED BY <2>1, <2>2, NoneDelivered DEF CsiInv
<1>8. ASSUME b # ESC, OscEsc(b, lead) PROVE CsiInv' /\ CsiParamsExact'
  <2>1. CASE b = Backslash
    <3>1. pstate' = "Ground" /\ emitted' = lead
      BY <1>8, <2>1 DEF OscEsc
    <3>2. NoCsi(emitted')
      BY <3>1, LedEvent
    <3>3. QED BY <3>1, <3>2, NoneDelivered DEF CsiInv
  <2>2. CASE b # Backslash
    <3>1. ResetParams /\ emitted' = lead \o Executed(b)
      BY <1>8, <2>2 DEF OscEsc
    <3>2. body' = <<>>
      BY <1>3, <1>8 DEF OscEsc, CsiInv
    <3>3. QED BY <3>1, <3>2, ExecutedIsNoCsi, NoneDelivered, BeginsWithNothing
  <2>3. QED BY <2>1, <2>2
<1>9. ASSUME b # ESC, Csi(b, lead) PROVE CsiInv' /\ CsiParamsExact'
  <2>1. pstate = "Csi"
    BY <1>9 DEF Csi
  <2>2. PICK e : Read(body, params, cur, sawDigit, e)
    BY <2>1 DEF CsiInv
  <2>3. b \in Digits \cup {Semicolon} => body' = Append(body, b)
    BY <1>9, <2>1 DEF Kept
  <2>4. b \notin Digits \cup {Semicolon} => body' = body
    BY <1>9 DEF Kept
  <2>5. CASE b \in ExecutableC0 \cup CsiIgnored /\ emitted' = lead \o Executed(b)
             /\ UNCHANGED <<pstate, seqVars>>
    <3>1. b \notin Digits \cup {Semicolon}
      BY <2>5 DEF ExecutableC0, CsiIgnored, Digits, Semicolon, DEL
    <3>2. \E f : Read(body', params', cur', sawDigit', f)
      BY <2>2, <2>4, <2>5, <3>1 DEF seqVars
    <3>3. NoCsi(emitted')
      BY <2>5, ExecutedIsNoCsi
    <3>4. QED BY <2>1, <2>5, <3>2, <3>3, NoneDelivered DEF CsiInv
  <2>6. CASE /\ b \in Digits /\ cur' = Saturated(cur * 10 + (b - 48)) /\ sawDigit' = TRUE
             /\ emitted' = lead /\ UNCHANGED <<pstate, params, private>>
    <3>1. Read(Append(body, b), params, Saturated(cur * 10 + (b - 48)), TRUE, e)
      BY <2>2, <2>6, ReadDigit
    <3>2. Read(body', params', cur', sawDigit', e)
      BY <2>3, <2>6, <3>1
    <3>3. NoCsi(emitted')
      BY <2>6, LedEvent
    <3>4. QED BY <2>1, <2>6, <3>2, <3>3, NoneDelivered DEF CsiInv
  <2>7. CASE /\ b = Semicolon /\ params' = Append(params, cur) /\ cur' = 0
             /\ sawDigit' = FALSE /\ emitted' = lead /\ UNCHANGED <<pstate, private>>
    <3>1. PICK f : Read(Append(body, Semicolon), Append(params, cur), 0, FALSE, f)
      BY <2>2, ReadSeparator
    <3>2. Read(body', params', cur', sawDigit', f)
      BY <2>3, <2>7, <3>1
    <3>3. NoCsi(emitted')
      BY <2>7, LedEvent
    <3>4. QED BY <2>1, <2>7, <3>2, <3>3, NoneDelivered DEF CsiInv
  <2>8. CASE /\ b \in Privates /\ private' = b /\ emitted' = lead
             /\ UNCHANGED <<pstate, params, cur, sawDigit>>
    <3>1. b \notin Digits \cup {Semicolon}
      BY <2>8 DEF Privates, Digits, Semicolon
    <3>2. Read(body', params', cur', sawDigit', e)
      BY <2>2, <2>4, <2>8, <3>1
    <3>3. NoCsi(emitted')
      BY <2>8, LedEvent
    <3>4. QED BY <2>1, <2>8, <3>2, <3>3, NoneDelivered DEF CsiInv
  <2>9. CASE /\ b \in Finals /\ emitted' = lead \o <<CsiEvent(Completed, private, b)>>
             /\ pstate' = "Ground" /\ ResetParams
    <3>1. b \notin Digits \cup {Semicolon}
      BY <2>9 DEF Finals, Digits, Semicolon
    <3>2. Completed = Written(body')
      BY <2>2, <2>4, <3>1, ReadIsWritten DEF Completed
    <3> DEFINE own == CsiEvent(Completed, private, b)
    <3>3. own.params = Completed
      BY DEF CsiEvent
    <3> HIDE DEF own
    <3>4. \A i \in DOMAIN emitted' : emitted'[i] = own \/ emitted'[i].kind = "print"
      BY <2>9, LedEvent DEF own
    <3>5. CsiParamsExact'
      BY <3>2, <3>3, <3>4 DEF CsiParamsExact
    <3>6. QED BY <2>9, <3>5 DEF CsiInv
  <2>10. CASE CsiAborts(b, lead)
    <3>1. pstate' = "Ground" /\ emitted' = lead
      BY <2>10 DEF CsiAborts
    <3>2. NoCsi(emitted')
      BY <3>1, LedEvent
    <3>3. QED BY <3>1, <3>2, NoneDelivered DEF CsiInv
  <2>11. QED BY <1>9, <2>5, <2>6, <2>7, <2>8, <2>9, <2>10 DEF Csi
<1>10. QED BY <1>2, <1>4, <1>5, <1>6, <1>7, <1>8, <1>9 DEF Dispatch

\* So does `advance`: a byte that continues a character touches no sequence.
LEMMA FeedReads ==
  ASSUME CsiInv, NEW b \in Byte, Advance(b), body' = Kept(b)
  PROVE  CsiInv' /\ CsiParamsExact'
<1>1. CASE Continue(b)
  <2>1. b \notin {ESC} \cup Digits \cup {Semicolon}
    BY <1>1 DEF Continue, Continuation, ESC, Digits, Semicolon
  <2>2. body' = body
    BY <2>1 DEF Kept
  <2>3. UNCHANGED <<pstate, seqVars>>
    BY <1>1 DEF Continue
  <2>4. CsiInv'
    BY <2>2, <2>3 DEF CsiInv, seqVars
  <2>5. NoCsi(emitted')
    <3>1. emitted' = <<>> \/ emitted' = FlushUtf8(Append(utf8, b))
      BY <1>1 DEF Continue
    <3>2. NoCsi(<<>>)
      BY DEF NoCsi
    <3>3. QED BY <3>1, <3>2, FlushIsNoCsi
  <2>6. QED BY <2>4, <2>5, NoneDelivered
<1>2. CASE Dispatch(b, <<>>) \/ Dispatch(b, <<Printed(Replacement)>>)
  BY <1>2, DispatchReads DEF Leads
<1>3. QED BY <1>1, <1>2 DEF Advance

\* So does every step.
LEMMA CsiStep ==
  ASSUME CsiInv, CsiParamsExact, [Next]_vars
  PROVE  CsiInv' /\ CsiParamsExact'
<1>1. CASE Finish
  <2>1. UNCHANGED <<pstate, seqVars, body>> /\ NoCsi(emitted')
    BY <1>1, FlushIsNoCsi DEF Finish
  <2>2. CsiInv'
    BY <2>1 DEF CsiInv, seqVars
  <2>3. QED BY <2>1, <2>2, NoneDelivered
<1>2. ASSUME NEW b \in Bytes, NEW fresh \in BOOLEAN, Feed(b, fresh)
      PROVE  CsiInv' /\ CsiParamsExact'
  <2>1. b \in Byte /\ Advance(b) /\ body' = Kept(b)
    BY <1>2, SanitizerAssumption DEF Feed, Record, Kept
  <2>2. QED BY <2>1, FeedReads
<1>3. CASE UNCHANGED vars
  <2>1. UNCHANGED <<pstate, params, cur, sawDigit, body, emitted>>
    BY <1>3 DEF vars, parserVars, seqVars, history
  <2>2. CsiInv' /\ CsiParamsExact'
    BY <2>1 DEF CsiInv, CsiParamsExact
  <2>3. QED BY <2>2
<1>4. QED BY <1>1, <1>2, <1>3 DEF Next

\* A sequence is delivered with the numbers written in it, saturated, whatever
\* bytes interrupted it or came before it (`dispatch_csi` of parser.rs).
THEOREM ParamsAreExact == Spec => []CsiParamsExact
<1>1. Init => CsiInv /\ CsiParamsExact
  BY DEF Init, ParserInit, CsiInv, CsiParamsExact
<1>2. CsiInv /\ CsiParamsExact /\ [Next]_vars => (CsiInv /\ CsiParamsExact)'
  BY CsiStep
<1>3. QED BY <1>1, <1>2, PTL DEF Spec
=============================================================================
