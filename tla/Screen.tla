-------------------------------- MODULE Screen --------------------------------
(***************************************************************************)
(* src/src/screen.rs: the screen behind a full-screen target. A step is    *)
(* one event of the parser. Rows and columns are numbered from 0 as in the *)
(* code; cells[r + 1][c + 1] is the cell of row r and column c.            *)
(***************************************************************************)
EXTENDS Integers, SequencesExt

CONSTANTS
    Rows, Cols,
    MaxScrollback,      \* MAX_SCROLLBACK
    Chars,              \* what is printed
    Params,             \* the parameters of sequences, 0 for a missing one
    MaxPrints, MaxFeeds, MaxMoves, MaxSwitches, MaxEvents   \* bounds of the instance

ASSUME ScreenAssumption ==
    /\ {Rows, Cols, MaxScrollback} \subseteq Nat \ {0} /\ Params \subseteq Nat
    /\ {MaxPrints, MaxFeeds, MaxMoves, MaxSwitches, MaxEvents} \subseteq Nat

VARIABLES
    primary, alternate, inAlternate, savedCursor,
    \* What happened, for the properties: whether only text, line ends, CR, BS and
    \* HT have come, all they wrote as rows of endless paper, the state in which the
    \* alternate screen was entered and how, and how much of each bound is used.
    lineFed, paper, entry, spent

screenVars == <<primary, alternate, inAlternate, savedCursor>>
vars       == <<screenVars, lineFed, paper, entry, spent>>

Space  == 0
Blank  == [c \in 1..Cols |-> Space]
AtMost(n, max) == IF n > max THEN max ELSE n
Less(n, k)     == IF k > n THEN 0 ELSE n - k    \* saturating_sub
Newest(s, n)   == SubSeq(s, Len(s) - n + 1, Len(s))

-----------------------------------------------------------------------------
(* Grid.                                                                   *)

NewGrid ==
    [cells |-> [r \in 1..Rows |-> Blank], scrollback |-> <<>>, row |-> 0, col |-> 0,
     top |-> 0, bottom |-> Rows - 1, decsc |-> <<0, 0>>]

Clear(g) == [NewGrid EXCEPT !.decsc = g.decsc]

Region(g) == g.top + 1 .. g.bottom + 1

\* Mutant of ScrollUp: rows leave at the top of the screen instead of the region.
ScrollUpAll(g, n) ==
    LET k == AtMost(n, g.bottom - g.top + 1)
        history == g.scrollback \o SubSeq(g.cells, 1, k)
    IN  [g EXCEPT !.cells = [r \in 1..Rows |-> CASE r > g.bottom + 1      -> @[r]
                                               [] r + k <= g.bottom + 1 -> @[r + k]
                                               [] OTHER                 -> Blank],
                  !.scrollback = Newest(history, AtMost(Len(history), MaxScrollback))]

\* `scroll_region_up`: the rows that leave the region are the newest history.
ScrollUp(g, n) ==
    LET k == AtMost(n, g.bottom - g.top + 1)
        history == g.scrollback \o SubSeq(g.cells, g.top + 1, g.top + k)
    IN  [g EXCEPT !.cells = [r \in 1..Rows |-> IF r \notin Region(g) THEN @[r]
                                               ELSE IF r + k \in Region(g) THEN @[r + k]
                                               ELSE Blank],
                  !.scrollback = Newest(history, AtMost(Len(history), MaxScrollback))]

\* `scroll_region_down`: the rows that leave are discarded.
ScrollDown(g, n) ==
    [g EXCEPT !.cells = [r \in 1..Rows |-> IF r \notin Region(g) THEN @[r]
                                           ELSE IF r - n \in Region(g) THEN @[r - n]
                                           ELSE Blank]]

LineFeed(g) ==
    CASE g.row = g.bottom                     -> ScrollUp(g, 1)
      [] g.row # g.bottom /\ g.row + 1 < Rows -> [g EXCEPT !.row = @ + 1]
      [] OTHER                                -> g

\* Mutant of Put: a full row wraps at once.
PutEager(g, c) ==
    LET h == [g EXCEPT !.cells[g.row + 1][g.col + 1] = c, !.col = @ + 1]
    IN  IF h.col >= Cols THEN LineFeed([h EXCEPT !.col = 0]) ELSE h

\* A full row wraps when the next character comes, not before.
Put(g, c) ==
    LET h == IF g.col >= Cols THEN LineFeed([g EXCEPT !.col = 0]) ELSE g
    IN  [h EXCEPT !.cells[h.row + 1][h.col + 1] = c, !.col = @ + 1]

ExecuteOn(g, b) ==
    CASE b = "LF" -> LineFeed(g)
      [] b = "CR" -> [g EXCEPT !.col = 0]
      [] b = "BS" -> [g EXCEPT !.col = Less(@, 1)]
      [] OTHER    -> [g EXCEPT !.col = AtMost((@ \div 8 + 1) * 8, Cols - 1)]

MoveTo(g, r, c) == [g EXCEPT !.row = AtMost(r, Rows - 1), !.col = AtMost(c, Cols - 1)]

\* Mutant of RegionOf: a bottom one row below the screen is accepted.
RegionOfLoose(t, b) ==
    LET top == Less(t, 1)   bottom == IF b = 0 THEN Rows - 1 ELSE b - 1
    IN  IF top < bottom /\ bottom <= Rows THEN <<top, bottom>> ELSE <<0, Rows - 1>>

\* The region that DECSTBM asks for; an invalid one is the whole screen.
RegionOf(t, b) ==
    LET top == Less(t, 1)   bottom == IF b = 0 THEN Rows - 1 ELSE b - 1
    IN  IF top < bottom /\ bottom < Rows THEN <<top, bottom>> ELSE <<0, Rows - 1>>

SetScrollRegion(g, t, b) ==
    [g EXCEPT !.top = RegionOf(t, b)[1], !.bottom = RegionOf(t, b)[2], !.row = 0, !.col = 0]

\* Blanks the cells of the screen for which Erased(row, column) holds.
Erase(g, Erased(_, _)) ==
    [g EXCEPT !.cells = [r \in 1..Rows |-> [c \in 1..Cols |->
        IF Erased(r - 1, c - 1) THEN Space ELSE @[r][c]]]]

EraseLine(g, mode) ==
    CASE mode = 1 -> Erase(g, LAMBDA r, c : r = g.row /\ c <= g.col)
      [] mode = 2 -> Erase(g, LAMBDA r, c : r = g.row)
      [] OTHER    -> Erase(g, LAMBDA r, c : r = g.row /\ c >= g.col)

EraseDisplay(g, mode) ==
    CASE mode = 1        -> Erase(g, LAMBDA r, c : r < g.row \/ (r = g.row /\ c <= g.col))
      [] mode \in {2, 3} -> Erase(g, LAMBDA r, c : TRUE)
      [] OTHER           -> Erase(g, LAMBDA r, c : r > g.row \/ (r = g.row /\ c >= g.col))

MoveCursor(g, final, p, q) ==
    LET n == IF p = 0 THEN 1 ELSE p
    IN  CASE final = "A" -> [g EXCEPT !.row = Less(@, n)]
          [] final = "B" -> [g EXCEPT !.row = AtMost(@ + n, Rows - 1)]
          [] final = "C" -> [g EXCEPT !.col = AtMost(@ + n, Cols - 1)]
          [] final = "D" -> [g EXCEPT !.col = Less(@, n)]
          [] final = "E" -> [g EXCEPT !.col = 0, !.row = AtMost(@ + n, Rows - 1)]
          [] final = "F" -> [g EXCEPT !.col = 0, !.row = Less(@, n)]
          [] final = "G" -> [g EXCEPT !.col = AtMost(n - 1, Cols - 1)]
          [] final = "d" -> [g EXCEPT !.row = AtMost(n - 1, Rows - 1)]
          [] final = "H" -> MoveTo(g, Less(p, 1), Less(q, 1))
          [] final = "s" -> [g EXCEPT !.decsc = <<g.row, g.col>>]
          [] OTHER       -> MoveTo(g, g.decsc[1], g.decsc[2])   \* "u"

-----------------------------------------------------------------------------
(* Rendering.                                                              *)

TrimEnd(row) ==
    SubSeq(row, 1, Max({0} \cup {c \in DOMAIN row : row[c] # Space}))

Trimmed(rows)   == [r \in DOMAIN rows |-> TrimEnd(rows[r])]
DropBlanks(ls)  == SubSeq(ls, 1, Max({0} \cup {i \in DOMAIN ls : ls[i] # <<>>}))

\* Mutant of SeamOverlap: only the last line of the scrollback is looked for.
SeamOverlapLastLine(sb, vp) ==
    Max({0} \cup {l \in DOMAIN vp : sb # <<>> /\ sb[Len(sb)] = vp[l]})

SeamOverlap(sb, vp) ==
    Max({0} \cup {l \in 1 .. AtMost(Len(sb), Len(vp)) : Newest(sb, l) = SubSeq(vp, 1, l)})

\* `render_full`, as a sequence of lines.
FullText(g) ==
    LET scrollback == Trimmed(g.scrollback)
        viewport   == Trimmed(g.cells)
        written    == {r \in DOMAIN viewport : viewport[r] # <<>>}
        blanks     == IF written = {} THEN Rows ELSE Min(written) - 1
        shown      == SubSeq(viewport, blanks + 1, Rows)
        overlap    == SeamOverlap(scrollback, shown)
    IN  DropBlanks(scrollback \o SubSeq(viewport, 1, blanks)
                              \o SubSeq(shown, overlap + 1, Len(shown)))

-----------------------------------------------------------------------------
(* The events.                                                             *)

Active == IF inAlternate THEN alternate ELSE primary

\* `active()`: the grid that an event works on becomes g.
OnActive(g) ==
    /\ IF inAlternate THEN alternate' = g /\ UNCHANGED primary
                      ELSE primary' = g /\ UNCHANGED alternate
    /\ UNCHANGED <<inAlternate, savedCursor, entry>>

Events == spent.prints + spent.feeds + spent.moves + spent.switches

Spend(what, max) ==
    spent[what] < max /\ Events < MaxEvents /\ spent' = [spent EXCEPT ![what] = @ + 1]

\* On endless paper a line end starts a new row, and nothing scrolls.
OnPaper(rows) == lineFed' = lineFed /\ paper' = IF lineFed THEN rows ELSE <<>>

PaperWith(c) ==
    LET rows == IF primary.col >= Cols THEN Append(paper, Blank) ELSE paper
        col  == IF primary.col >= Cols THEN 1 ELSE primary.col + 1
    IN  [rows EXCEPT ![Len(rows)][col] = c]

OffPaper == lineFed' = FALSE /\ paper' = <<>>

Init ==
    /\ primary = NewGrid /\ alternate = NewGrid
    /\ inAlternate = FALSE /\ savedCursor = <<0, 0>>
    /\ lineFed = TRUE /\ paper = <<Blank>> /\ entry = [how |-> 0, grid |-> NewGrid]
    /\ spent = [prints |-> 0, feeds |-> 0, moves |-> 0, switches |-> 0]

Draw(c) ==
    /\ Spend("prints", MaxPrints)
    /\ OnActive(Put(Active, c))
    /\ IF lineFed THEN OnPaper(PaperWith(c)) ELSE OnPaper(<<>>)

Execute(b) ==
    /\ IF b = "LF" THEN Spend("feeds", MaxFeeds) ELSE Spend("moves", MaxMoves)
    /\ OnActive(ExecuteOn(Active, b))
    /\ OnPaper(IF b = "LF" THEN Append(paper, Blank) ELSE paper)

Control(g) == Spend("moves", MaxMoves) /\ OnActive(g) /\ OffPaper

Move(final, p, q) == Control(MoveCursor(Active, final, p, q))
EraseJ(mode)      == Control(EraseDisplay(Active, mode))
EraseK(mode)      == Control(EraseLine(Active, mode))
Decstbm(t, b)     == Control(SetScrollRegion(Active, t, b))

ScrollBy(final, p) ==
    LET n == IF p = 0 THEN 1 ELSE p
    IN  /\ Spend("feeds", MaxFeeds)
        /\ OnActive(IF final = "S" THEN ScrollUp(Active, n) ELSE ScrollDown(Active, n))
        /\ OffPaper

\* Mutant of Enter: the cursor is taken from the grid just switched to.
EnterSavesOther(how) ==
    /\ ~inAlternate
    /\ inAlternate' = TRUE
    /\ savedCursor' = IF how = 1049 THEN <<alternate.row, alternate.col>> ELSE savedCursor
    /\ alternate' = IF how \in {1049, 1047} THEN Clear(alternate) ELSE alternate
    /\ entry' = [how |-> how, grid |-> primary]
    /\ UNCHANGED primary

\* ESC[?1049h, ?1047h and ?47h; nothing when the alternate screen is shown already.
Enter(how) ==
    /\ ~inAlternate
    /\ inAlternate' = TRUE
    /\ savedCursor' = IF how = 1049 THEN <<primary.row, primary.col>> ELSE savedCursor
    /\ alternate' = IF how \in {1049, 1047} THEN Clear(alternate) ELSE alternate
    /\ entry' = [how |-> how, grid |-> primary]
    /\ UNCHANGED primary

Leave(how) ==
    /\ inAlternate
    /\ inAlternate' = FALSE
    /\ primary' = IF how = 1049 THEN MoveTo(primary, savedCursor[1], savedCursor[2])
                                ELSE primary
    /\ UNCHANGED <<alternate, savedCursor, entry>>

Switch(how) == Spend("switches", MaxSwitches) /\ OffPaper /\ (Enter(how) \/ Leave(how))

Next ==
    \/ \E c \in Chars : Draw(c)
    \/ \E b \in {"LF", "CR", "BS", "HT"} : Execute(b)
    \/ \E final \in {"A", "B", "C", "D", "E", "F", "G", "d", "s", "u"}, p \in Params :
         Move(final, p, 0)
    \/ \E p, q \in Params : Move("H", p, q)
    \/ \E mode \in 0..3 : EraseJ(mode)
    \/ \E mode \in 0..3 : EraseK(mode)
    \/ \E t, b \in Params : Decstbm(t, b)
    \/ \E final \in {"S", "T"}, p \in Params : ScrollBy(final, p)
    \/ \E how \in {1049, 1047, 47} : Switch(how)

Spec == Init /\ [][Next]_vars

-----------------------------------------------------------------------------
(* Properties.                                                             *)

Row == [1..Cols -> {Space} \cup Chars]

GridOK(g) ==
    /\ g.cells \in [1..Rows -> Row]
    /\ g.scrollback \in Seq(Row) /\ Len(g.scrollback) <= MaxScrollback
    /\ g.row \in 0 .. Rows - 1 /\ g.col \in 0..Cols
    /\ g.top \in 0 .. Rows - 1 /\ g.bottom \in g.top .. Rows - 1
    /\ g.decsc \in (0 .. Rows - 1) \X (0..Cols)

\* Every variable has its type; the cursor and the region stay within the grid, so
\* that no index panics, and a column one past the end is a wrap that is due.
TypeOK ==
    /\ GridOK(primary) /\ GridOK(alternate)
    /\ inAlternate \in BOOLEAN /\ savedCursor \in (0 .. Rows - 1) \X (0..Cols)

History(g) == g.scrollback \o SubSeq(g.cells, 1, g.row + 1)

\* For a target that only writes lines, the scrollback and the screen down to the
\* cursor are the last rows it wrote, all of them until MAX_SCROLLBACK is reached,
\* and nothing is below.
Transcript ==
    lineFed =>
        /\ IsSuffix(History(primary), paper)
        /\ Len(paper) > Len(History(primary)) => Len(primary.scrollback) = MaxScrollback
        /\ \A r \in primary.row + 2 .. Rows : primary.cells[r] = Blank

Lines(rows) == {TrimEnd(rows[r]) : r \in DOMAIN rows} \ {<<>>}

\* Reconciling the seam loses no line: every line of the scrollback and of the screen
\* is in the text, whatever overlap is dropped; for lines written once, the text is
\* exactly those lines (the comment of `render_full`).
FullTextLosesNothing ==
    \A g \in {primary, alternate} :
        LET rows == g.scrollback \o g.cells
            ls   == Trimmed(rows)
            distinct == \A i, j \in DOMAIN ls : i # j /\ ls[i] # <<>> => ls[i] # ls[j]
        IN  /\ ToSet(FullText(g)) \ {<<>>} = Lines(rows)
            /\ distinct => FullText(g) = DropBlanks(ls)

\* The rows of g that a scroll moves, with what has left them already.
Scrolled(g) == g.scrollback \o SubSeq(g.cells, g.top + 1, g.bottom + 1)

\* A line end or a scroll up moves rows of the region into the scrollback in order
\* and leaves the rows outside the region and the cursor's column alone.
ScrollStaysInRegion ==
    [][\A g \in {Active}, h \in {Active'} :
        spent'.feeds # spent.feeds =>
            /\ \A r \in (1..Rows) \ Region(g) : h.cells[r] = g.cells[r]
            /\ h.scrollback # g.scrollback =>
                 \E k \in 1..Rows :
                    IsSuffix(Scrolled(h), Scrolled(g) \o [i \in 1..k |-> Blank])
            /\ <<h.col, h.top, h.bottom>> = <<g.col, g.top, g.bottom>>]_vars

\* Leaving the alternate screen shows the main screen as it was, its history too, and
\* after ?1049 the cursor where it was (a wrap that was due may be forgotten): what the
\* alternate screen did in between, saving its own cursor included, does not count.
LeaveRestores ==
    [][inAlternate /\ ~inAlternate' =>
        /\ primary'.cells = entry.grid.cells /\ primary'.scrollback = entry.grid.scrollback
        /\ entry.how = 1049 =>
             /\ primary'.row = entry.grid.row
             /\ primary'.col \in {entry.grid.col, AtMost(entry.grid.col, Cols - 1)}]_vars
=============================================================================
