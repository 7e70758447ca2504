----------------------------- MODULE Screen_proofs -----------------------------
(***************************************************************************)
(* Theorems about Screen, for a screen of any size, a scrollback of any    *)
(* length and every sequence of events.                                    *)
(***************************************************************************)
EXTENDS Screen, Basics_proofs

-----------------------------------------------------------------------------
(* What a grid is.                                                         *)

GridType ==
    [cells : [1..Rows -> Row], scrollback : Seq(Row), row : 0 .. Rows - 1, col : 0..Cols,
     top : 0 .. Rows - 1, bottom : 0 .. Rows - 1, decsc : (0 .. Rows - 1) \X (0..Cols)]

Grids == {g \in GridType : Len(g.scrollback) <= MaxScrollback /\ g.top <= g.bottom}

Spendings == [prints : Nat, feeds : Nat, moves : Nat, switches : Nat]

\* Every variable has its type, and what is shown stays on the screen.
TypeInv ==
    /\ primary \in Grids /\ alternate \in Grids
    /\ inAlternate \in BOOLEAN /\ savedCursor \in (0 .. Rows - 1) \X (0..Cols)
    /\ spent \in Spendings /\ lineFed \in BOOLEAN

\* The numbers of the screen.
LEMMA Sizes ==
  /\ Rows \in Nat /\ Rows > 0 /\ Cols \in Nat /\ Cols > 0
  /\ MaxScrollback \in Nat /\ MaxScrollback > 0 /\ Params \subseteq Nat
  /\ {MaxPrints, MaxFeeds, MaxMoves, MaxSwitches, MaxEvents} \subseteq Nat
  BY ScreenAssumption

\* An empty row is a row, and so the screen of the beginning a screen.
LEMMA BlankIsRow == Blank \in Row
  BY DEF Blank, Row

\* The grid of the beginning is one.
LEMMA NewGridIsGrid == NewGrid \in Grids
<1>1. <<>> \in Seq(Row) /\ Len(<<>>) = 0
  OBVIOUS
<1>2. <<0, 0>> \in (0 .. Rows - 1) \X (0..Cols)
  BY Sizes
<1>3. [r \in 1..Rows |-> Blank] \in [1..Rows -> Row]
  BY BlankIsRow
<1>4. QED BY <1>1, <1>2, <1>3, Sizes, SMTT(30) DEF NewGrid, Grids, GridType

\* A grid's parts, and what other parts make it another grid.
LEMMA GridFacts ==
  ASSUME NEW g \in Grids
  PROVE  /\ g.cells \in [1..Rows -> Row] /\ g.scrollback \in Seq(Row)
         /\ Len(g.scrollback) \in Nat /\ Len(g.scrollback) <= MaxScrollback
         /\ g.row \in 0 .. Rows - 1 /\ g.col \in 0..Cols
         /\ g.top \in 0 .. Rows - 1 /\ g.bottom \in 0 .. Rows - 1 /\ g.top <= g.bottom
         /\ g.decsc \in (0 .. Rows - 1) \X (0..Cols)
         /\ Region(g) \subseteq 1..Rows
<1>1. /\ g.cells \in [1..Rows -> Row] /\ g.scrollback \in Seq(Row)
      /\ Len(g.scrollback) \in Nat /\ Len(g.scrollback) <= MaxScrollback
      /\ g.row \in 0 .. Rows - 1 /\ g.col \in 0..Cols
      /\ g.top \in 0 .. Rows - 1 /\ g.bottom \in 0 .. Rows - 1 /\ g.top <= g.bottom
      /\ g.decsc \in (0 .. Rows - 1) \X (0..Cols)
  BY LenProperties DEF Grids, GridType
<1>2. Region(g) \subseteq 1..Rows
  <2>1. /\ g.top \in Nat /\ g.bottom \in Int /\ g.bottom + 1 <= Rows /\ Rows \in Nat
    BY ONLY <1>1, Sizes
  <2>2. \A i \in g.top + 1 .. g.bottom + 1 : i \in 1..Rows
    BY ONLY <2>1
  <2>3. QED BY ONLY <2>2 DEF Region
<1>3. QED BY <1>1, <1>2

\* A cursor that stays on the grid leaves it a grid.
LEMMA CursorMoved ==
  ASSUME NEW g \in Grids, NEW r \in 0 .. Rows - 1, NEW c \in 0..Cols
  PROVE  /\ [g EXCEPT !.row = r] \in Grids /\ [g EXCEPT !.row = r].row = r
         /\ [g EXCEPT !.col = c] \in Grids /\ [g EXCEPT !.col = c].col = c
         /\ [g EXCEPT !.col = c, !.row = r] \in Grids
         /\ [g EXCEPT !.row = r, !.col = c] \in Grids
  BY DEF Grids, GridType

\* The newest n of a sequence.
LEMMA NewestOf ==
  ASSUME NEW S, NEW s \in Seq(S), NEW n \in 0..Len(s)
  PROVE  /\ Newest(s, n) \in Seq(S) /\ Len(Newest(s, n)) = n
         /\ \A i \in 1..n : Newest(s, n)[i] = s[Len(s) - n + i]
<1>1. Len(s) \in Nat /\ \A i \in 1..Len(s) : s[i] \in S
  BY LenProperties, ElementOfSeq
<1>2. \A i \in Len(s) - n + 1 .. Len(s) : s[i] \in S
  BY <1>1
<1> DEFINE t == SubSeq(s, Len(s) - n + 1, Len(s))
<1>3. /\ t \in Seq(S)
      /\ Len(t) = IF Len(s) - n + 1 <= Len(s) THEN Len(s) - (Len(s) - n + 1) + 1 ELSE 0
      /\ \A i \in 1 .. Len(s) - (Len(s) - n + 1) + 1 : t[i] = s[(Len(s) - n + 1) + i - 1]
  BY <1>1, <1>2, SubSeqProperties
<1>4. t = Newest(s, n)
  BY DEF Newest
<1> HIDE DEF t
<1>5. QED BY <1>1, <1>3, <1>4

\* What `scroll_region_up` makes of a grid.
LEMMA ScrollUpDoes ==
  ASSUME NEW g \in Grids, NEW n \in Nat \ {0}
  PROVE  LET k == AtMost(n, g.bottom - g.top + 1)
             m == AtMost(Len(g.scrollback) + k, MaxScrollback)
             h == ScrollUp(g, n)
         IN  /\ h \in Grids
             /\ <<h.row, h.col, h.top, h.bottom>> = <<g.row, g.col, g.top, g.bottom>>
             /\ \A r \in 1..Rows : h.cells[r] = IF r \notin Region(g) THEN g.cells[r]
                                  ELSE IF r + k \in Region(g) THEN g.cells[r + k] ELSE Blank
             /\ Len(h.scrollback) = m
             /\ \A i \in 1..m : h.scrollback[i] =
                   LET j == Len(g.scrollback) + k - m + i
                   IN  IF j <= Len(g.scrollback) THEN g.scrollback[j]
                       ELSE g.cells[g.top + j - Len(g.scrollback)]
<1> DEFINE L == Len(g.scrollback)
           k == AtMost(n, g.bottom - g.top + 1)
           m == AtMost(L + k, MaxScrollback)
           left == SubSeq(g.cells, g.top + 1, g.top + k)
           history == g.scrollback \o left
           h == ScrollUp(g, n)
           cells == [r \in 1..Rows |-> IF r \notin Region(g) THEN g.cells[r]
                                       ELSE IF r + k \in Region(g) THEN g.cells[r + k]
                                       ELSE Blank]
<1>1. /\ g.cells \in [1..Rows -> Row] /\ g.scrollback \in Seq(Row) /\ L \in Nat
      /\ g.top \in 0 .. Rows - 1 /\ g.bottom \in 0 .. Rows - 1 /\ g.top <= g.bottom
      /\ L <= MaxScrollback
  BY LenProperties DEF Grids, GridType
<1>2. k \in Nat /\ k >= 1 /\ g.top + k <= Rows /\ g.top + k <= g.bottom + 1
  BY <1>1, Sizes, SMTT(30) DEF AtMost
<1> HIDE DEF k, L
<1>5. m \in 0 .. L + k /\ m <= MaxScrollback
  BY <1>1, <1>2, Sizes DEF AtMost
<1>3. /\ left \in Seq(Row) /\ Len(left) = k
      /\ \A i \in 1..k : left[i] = g.cells[g.top + i]
  <2> DEFINE a == g.top + 1
             b == g.top + k
  <2>0. /\ a..b \subseteq 1..Rows
        /\ a \in Int /\ b \in Int /\ a <= b /\ b - a + 1 = k
    <3>1. \A t, j, z \in Nat : j >= 1 /\ t + j <= z =>
            /\ t + 1 .. t + j \subseteq 1..z
            /\ t + 1 <= t + j /\ (t + j) - (t + 1) + 1 = j
      OBVIOUS
    <3>2. g.top \in Nat
      BY <1>1
    <3>3. QED BY <1>2, <3>1, <3>2, Sizes
  <2>1. \A i \in a..b : g.cells[i] \in Row
    BY <1>1, <2>0
  <2>2. left = SubSeq(g.cells, a, b)
    OBVIOUS
  <2>3. \A i \in 1..k : a + i - 1 = g.top + i
    BY <1>1, <1>2
  <2> HIDE DEF left, a, b
  <2>4. /\ left \in Seq(Row) /\ Len(left) = IF a <= b THEN b - a + 1 ELSE 0
        /\ \A i \in 1 .. b - a + 1 : left[i] = g.cells[a + i - 1]
    BY <2>0, <2>1, <2>2, SubSeqProperties
  <2>5. QED BY <2>0, <2>3, <2>4
<1> HIDE DEF left
<1>4. /\ history \in Seq(Row) /\ Len(history) = L + k
      /\ \A i \in 1 .. L + k : history[i] = IF i <= L THEN g.scrollback[i]
                                            ELSE g.cells[g.top + i - L]
  <2>1. /\ history \in Seq(Row) /\ Len(history) = L + Len(left)
        /\ \A i \in 1 .. L + Len(left) : history[i] = IF i <= L THEN g.scrollback[i]
                                                      ELSE left[i - L]
    BY <1>1, <1>3, ConcatProperties, ZenonT(30) DEF L
  <2> HIDE DEF history
  <2>2. \A i \in 1 .. L + k : ~(i <= L) => i - L \in 1..k /\ g.top + (i - L) = g.top + i - L
    BY <1>1, <1>2
  <2>3. QED BY <1>1, <1>2, <1>3, <2>1, <2>2
<1>6. h = [g EXCEPT !.cells = cells, !.scrollback = Newest(history, m)]
  <2>1. m = AtMost(Len(history), MaxScrollback)
    BY <1>4
  <2>2. QED BY <2>1, Zenon DEF ScrollUp, k, L, left
<1>7. /\ Newest(history, m) \in Seq(Row) /\ Len(Newest(history, m)) = m
      /\ \A i \in 1..m : Newest(history, m)[i] = history[L + k - m + i]
  <2> HIDE DEF history, m
  <2>1. m \in 0..Len(history)
    BY <1>4, <1>5
  <2>2. /\ Newest(history, m) \in Seq(Row) /\ Len(Newest(history, m)) = m
        /\ \A i \in 1..m : Newest(history, m)[i] = history[Len(history) - m + i]
    BY <1>4, <2>1, NewestOf
  <2>3. Len(history) = L + k
    BY <1>4
  <2>4. ASSUME NEW i \in 1..m PROVE Newest(history, m)[i] = history[L + k - m + i]
    <3>1. Newest(history, m)[i] = history[Len(history) - m + i]
      BY <2>2
    <3>2. L \in Nat /\ k \in Nat /\ m \in Nat
      BY <1>1, <1>2, <1>5
    <3>3. Len(history) - m + i = L + k - m + i
      BY <2>3, <3>2
    <3>4. QED BY <3>1, <3>3
  <2>5. QED BY <2>2, <2>4
<1>8. /\ cells \in [1..Rows -> Row]
      /\ \A r \in 1..Rows : cells[r] = IF r \notin Region(g) THEN g.cells[r]
                               ELSE IF r + k \in Region(g) THEN g.cells[r + k] ELSE Blank
  <2>1. Region(g) \subseteq 1..Rows
    BY <1>1, Sizes DEF Region
  <2>2. QED BY <1>1, <2>1, BlankIsRow
<1> HIDE DEF cells, history, m, h
<1>9. /\ h.cells = cells /\ h.scrollback = Newest(history, m)
      /\ <<h.row, h.col, h.top, h.bottom>> = <<g.row, g.col, g.top, g.bottom>>
      /\ h \in Grids
  BY <1>5, <1>6, <1>7, <1>8 DEF Grids, GridType
<1>10. \A i \in 1..m : /\ L + k - m + i \in 1 .. L + k
                       /\ g.top + (L + k - m + i) - L = g.top + (L + k - m + i) - L
  BY <1>1, <1>2, <1>5
<1>11. \A i \in 1..m : h.scrollback[i] =
          LET j == L + k - m + i
          IN  IF j <= L THEN g.scrollback[j] ELSE g.cells[g.top + j - L]
  BY <1>4, <1>7, <1>9, <1>10
<1>12. QED BY <1>7, <1>8, <1>9, <1>11 DEF k, m, L, h

\* `scroll_region_down` leaves everything but the region's rows alone.
LEMMA ScrollDownDoes ==
  ASSUME NEW g \in Grids, NEW n \in Nat
  PROVE  LET h == ScrollDown(g, n)
         IN  /\ h \in Grids
             /\ <<h.row, h.col, h.top, h.bottom>> = <<g.row, g.col, g.top, g.bottom>>
             /\ h.scrollback = g.scrollback
             /\ \A r \in (1..Rows) \ Region(g) : h.cells[r] = g.cells[r]
<1> DEFINE cells == [r \in 1..Rows |-> IF r \notin Region(g) THEN g.cells[r]
                                       ELSE IF r - n \in Region(g) THEN g.cells[r - n]
                                       ELSE Blank]
<1>1. /\ g.cells \in [1..Rows -> Row] /\ Region(g) \subseteq 1..Rows
  BY GridFacts
<1>2. cells \in [1..Rows -> Row] /\ \A r \in (1..Rows) \ Region(g) : cells[r] = g.cells[r]
  BY <1>1, BlankIsRow
<1>3. ScrollDown(g, n) = [g EXCEPT !.cells = cells]
  BY DEF ScrollDown
<1> HIDE DEF cells
<1>4. QED BY <1>2, <1>3 DEF Grids, GridType

\* A line end scrolls at the bottom of the region and moves the cursor elsewhere.
LEMMA LineFeedDoes ==
  ASSUME NEW g \in Grids
  PROVE  LET h == LineFeed(g)
         IN  /\ h \in Grids /\ <<h.col, h.top, h.bottom>> = <<g.col, g.top, g.bottom>>
             /\ g.row = g.bottom => h = ScrollUp(g, 1)
             /\ g.row # g.bottom => /\ h.cells = g.cells /\ h.scrollback = g.scrollback
                                    /\ h.row = IF g.row + 1 < Rows THEN g.row + 1 ELSE g.row
<1>0. g.row \in 0 .. Rows - 1
  BY DEF Grids, GridType
<1>1. CASE g.row = g.bottom
  <2>1. LineFeed(g) = ScrollUp(g, 1)
    BY <1>1 DEF LineFeed
  <2>2. /\ ScrollUp(g, 1) \in Grids
        /\ <<ScrollUp(g, 1).row, ScrollUp(g, 1).col, ScrollUp(g, 1).top, ScrollUp(g, 1).bottom>>
             = <<g.row, g.col, g.top, g.bottom>>
    BY ScrollUpDoes
  <2>3. QED BY <1>1, <2>1, <2>2
<1>2. CASE g.row # g.bottom
  <2>1. LineFeed(g) = IF g.row + 1 < Rows THEN [g EXCEPT !.row = g.row + 1] ELSE g
    BY <1>2 DEF LineFeed
  <2>2. CASE g.row + 1 < Rows
    <3>1. g.row + 1 \in 0 .. Rows - 1
      BY <1>0, <2>2, Sizes
    <3>2. QED BY <1>2, <2>1, <2>2, <3>1 DEF Grids, GridType
  <2>3. CASE ~(g.row + 1 < Rows)
    BY <1>2, <2>1, <2>3
  <2>4. QED BY <2>2, <2>3
<1>3. QED BY <1>1, <1>2

\* Moving the cursor clamps it to the grid.
LEMMA MoveToDoes ==
  ASSUME NEW g \in Grids, NEW r \in Nat, NEW c \in Nat
  PROVE  /\ MoveTo(g, r, c) \in Grids
         /\ MoveTo(g, r, c).cells = g.cells /\ MoveTo(g, r, c).scrollback = g.scrollback
         /\ MoveTo(g, r, c).row = AtMost(r, Rows - 1) /\ MoveTo(g, r, c).col = AtMost(c, Cols - 1)
<1>1. AtMost(r, Rows - 1) \in 0 .. Rows - 1 /\ AtMost(c, Cols - 1) \in 0..Cols
  BY Sizes DEF AtMost
<1>2. QED BY <1>1 DEF MoveTo, Grids, GridType

\* A character goes into the cursor's cell, on the next line if the row is full.
LEMMA PutDoes ==
  ASSUME NEW g \in Grids, NEW c \in Chars
  PROVE  LET f == IF g.col >= Cols THEN LineFeed([g EXCEPT !.col = 0]) ELSE g
         IN  /\ f \in Grids /\ f.col \in 0 .. Cols - 1
             /\ Put(g, c) \in Grids
             /\ Put(g, c) = [f EXCEPT !.cells[f.row + 1][f.col + 1] = c, !.col = f.col + 1]
<1> DEFINE f == IF g.col >= Cols THEN LineFeed([g EXCEPT !.col = 0]) ELSE g
           h == [f EXCEPT !.cells[f.row + 1][f.col + 1] = c, !.col = f.col + 1]
<1>1. g.col \in 0..Cols
  BY DEF Grids, GridType
<1>2. [g EXCEPT !.col = 0] \in Grids /\ [g EXCEPT !.col = 0].col = 0
  <2>1. 0 \in 0..Cols /\ g.row \in 0 .. Rows - 1
    BY GridFacts, Sizes
  <2>2. QED BY <2>1, CursorMoved
<1>3. f \in Grids /\ f.col \in 0 .. Cols - 1
  <2>1. CASE g.col >= Cols
    <3>1. f = LineFeed([g EXCEPT !.col = 0])
      BY <2>1
    <3>2. f \in Grids /\ f.col = 0
      <4>1. LET e == LineFeed([g EXCEPT !.col = 0])
            IN  e \in Grids /\ e.col = [g EXCEPT !.col = 0].col
        BY <1>2, LineFeedDoes
      <4>2. QED BY <1>2, <3>1, <4>1
    <3>3. QED BY <3>2, Sizes
  <2>2. CASE ~(g.col >= Cols)
    BY <1>1, <2>2, Sizes
  <2>3. QED BY <2>1, <2>2
<1>4. Put(g, c) = h
  BY DEF Put
<1> HIDE DEF f
<1>5. /\ f.cells \in [1..Rows -> Row] /\ f.row + 1 \in 1..Rows /\ f.col + 1 \in 1..Cols
      /\ f.col + 1 \in 0..Cols
  <2>1. f.row \in 0 .. Rows - 1 /\ f.cells \in [1..Rows -> Row]
    BY <1>3, GridFacts
  <2>2. QED BY <1>3, <2>1, Sizes, SMTT(30)
<1>6. f.cells[f.row + 1] \in Row
  BY <1>5
<1>7. [f.cells[f.row + 1] EXCEPT ![f.col + 1] = c] \in Row
  BY <1>5, <1>6 DEF Row
<1>8. [f.cells EXCEPT ![f.row + 1] = [f.cells[f.row + 1] EXCEPT ![f.col + 1] = c]]
        \in [1..Rows -> Row]
  BY <1>5, <1>7
<1>9. h = [f EXCEPT !.cells = [f.cells EXCEPT ![f.row + 1] =
                                  [f.cells[f.row + 1] EXCEPT ![f.col + 1] = c]],
                    !.col = f.col + 1]
  OBVIOUS
<1>10. h \in Grids
  BY <1>3, <1>5, <1>8, <1>9 DEF Grids, GridType
<1>11. QED BY <1>3, <1>4, <1>10 DEF f

\* A control character is a line end or moves the cursor in its row.
LEMMA ExecuteOnDoes ==
  ASSUME NEW g \in Grids, NEW b \in {"LF", "CR", "BS", "HT"}
  PROVE  /\ ExecuteOn(g, b) \in Grids
         /\ b = "LF" => ExecuteOn(g, b) = LineFeed(g)
         /\ b # "LF" => \E col \in 0..Cols : ExecuteOn(g, b) = [g EXCEPT !.col = col]
<1>1. g.col \in 0..Cols
  BY DEF Grids, GridType
<1>2. CASE b = "LF"
  BY <1>2, LineFeedDoes DEF ExecuteOn
<1>3. CASE b # "LF"
  <2>1. \E col \in 0..Cols : ExecuteOn(g, b) = [g EXCEPT !.col = col]
    <3>1. CASE b = "CR"
      BY <3>1, Sizes DEF ExecuteOn
    <3>2. CASE b = "BS"
      <4>1. Less(g.col, 1) \in 0..Cols
        BY <1>1, Sizes DEF Less
      <4>2. QED BY <3>2, <4>1 DEF ExecuteOn
    <3>3. CASE b = "HT"
      <4>1. AtMost((g.col \div 8 + 1) * 8, Cols - 1) \in 0..Cols
        <5>1. g.col \div 8 \in Nat
          BY <1>1, Sizes
        <5> DEFINE d == g.col \div 8
        <5> HIDE DEF d
        <5>2. AtMost((d + 1) * 8, Cols - 1) \in 0..Cols
          BY <5>1, Sizes DEF AtMost, d
        <5>3. QED BY <5>2 DEF d
      <4>2. QED BY <3>3, <4>1 DEF ExecuteOn
    <3>4. QED BY <1>3, <3>1, <3>2, <3>3
  <2>2. QED BY <1>3, <2>1 DEF Grids, GridType
<1>4. QED BY <1>2, <1>3

\* Any parameters of DECSTBM give a region of the screen.
LEMMA SetScrollRegionDoes ==
  ASSUME NEW g \in Grids, NEW t \in Nat, NEW b \in Nat
  PROVE  SetScrollRegion(g, t, b) \in Grids
<1>1. /\ RegionOf(t, b)[1] \in 0 .. Rows - 1 /\ RegionOf(t, b)[2] \in 0 .. Rows - 1
      /\ RegionOf(t, b)[1] <= RegionOf(t, b)[2]
  BY Sizes DEF RegionOf, Less
<1> DEFINE a == RegionOf(t, b)[1]
           z == RegionOf(t, b)[2]
<1>2. SetScrollRegion(g, t, b) = [g EXCEPT !.top = a, !.bottom = z, !.row = 0, !.col = 0]
  BY DEF SetScrollRegion
<1>3. 0 \in 0 .. Rows - 1 /\ 0 \in 0..Cols
  BY Sizes
<1> HIDE DEF a, z
<1>4. QED BY <1>1, <1>2, <1>3 DEF Grids, GridType, a, z

\* Erasing, of whichever cells.
LEMMA ErasedGrid ==
  ASSUME NEW g \in Grids, NEW cells \in [1..Rows -> Row]
  PROVE  [g EXCEPT !.cells = cells] \in Grids
  BY DEF Grids, GridType

\* Erasing in a line leaves a grid.
LEMMA EraseLineDoes == ASSUME NEW g \in Grids, NEW mode PROVE EraseLine(g, mode) \in Grids
<1>1. g.cells \in [1..Rows -> Row]
  BY DEF Grids, GridType
<1>2. \A r \in 1..Rows, c \in 1..Cols : g.cells[r][c] \in {Space} \cup Chars
  BY <1>1 DEF Row
<1>3. CASE mode = 1
  BY <1>2, <1>3, ErasedGrid DEF EraseLine, Erase, Row
<1>4. CASE mode = 2
  BY <1>2, <1>4, ErasedGrid DEF EraseLine, Erase, Row
<1>5. CASE mode \notin {1, 2}
  BY <1>2, <1>5, ErasedGrid DEF EraseLine, Erase, Row
<1>6. QED BY <1>3, <1>4, <1>5

\* Erasing in the display leaves a grid.
LEMMA EraseDisplayDoes ==
  ASSUME NEW g \in Grids, NEW mode \in 0..3 PROVE EraseDisplay(g, mode) \in Grids
<1>1. g.cells \in [1..Rows -> Row]
  BY DEF Grids, GridType
<1>2. \A r \in 1..Rows, c \in 1..Cols : g.cells[r][c] \in {Space} \cup Chars
  BY <1>1 DEF Row
<1>3. CASE mode = 1
  BY <1>2, <1>3, ErasedGrid DEF EraseDisplay, Erase, Row
<1>4. CASE mode \in {2, 3}
  BY <1>2, <1>4, ErasedGrid DEF EraseDisplay, Erase, Row
<1>5. CASE mode = 0
  BY <1>2, <1>5, ErasedGrid DEF EraseDisplay, Erase, Row
<1>6. QED BY <1>3, <1>4, <1>5

\* Moving the cursor by any sequence leaves a grid.
LEMMA MoveCursorDoes ==
  ASSUME NEW g \in Grids, NEW p \in Nat, NEW q \in Nat,
         NEW final \in {"A", "B", "C", "D", "E", "F", "G", "d", "H", "s", "u"}
  PROVE  MoveCursor(g, final, p, q) \in Grids
<1> DEFINE n == IF p = 0 THEN 1 ELSE p
<1>1. /\ g.row \in 0 .. Rows - 1 /\ g.col \in 0..Cols
      /\ g.decsc[1] \in 0 .. Rows - 1 /\ g.decsc[2] \in 0..Cols
      /\ <<g.row, g.col>> \in (0 .. Rows - 1) \X (0..Cols)
      /\ n \in Nat /\ n >= 1
  BY DEF Grids, GridType
<1>2. /\ Less(g.row, n) \in 0 .. Rows - 1 /\ Less(g.col, n) \in 0..Cols
      /\ AtMost(g.row + n, Rows - 1) \in 0 .. Rows - 1 /\ AtMost(g.col + n, Cols - 1) \in 0..Cols
      /\ AtMost(n - 1, Rows - 1) \in 0 .. Rows - 1 /\ AtMost(n - 1, Cols - 1) \in 0..Cols
      /\ Less(p, 1) \in Nat /\ Less(q, 1) \in Nat /\ 0 \in 0..Cols
  <2> HIDE DEF n
  <2>1. QED BY <1>1, Sizes DEF Less, AtMost
<1>3. /\ MoveTo(g, Less(p, 1), Less(q, 1)) \in Grids
      /\ MoveTo(g, g.decsc[1], g.decsc[2]) \in Grids
  <2>1. g.decsc[1] \in Nat /\ g.decsc[2] \in Nat
    BY <1>1, Sizes
  <2>2. QED BY <1>2, <2>1, MoveToDoes
<1>4. \A r \in 0 .. Rows - 1, c \in 0..Cols : /\ [g EXCEPT !.row = r] \in Grids
                                              /\ [g EXCEPT !.col = c] \in Grids
                                              /\ [g EXCEPT !.col = c, !.row = r] \in Grids
  BY CursorMoved
<1>5. [g EXCEPT !.decsc = <<g.row, g.col>>] \in Grids
  BY <1>1 DEF Grids, GridType
<1>6. MoveCursor(g, final, p, q) =
         CASE final = "A" -> [g EXCEPT !.row = Less(g.row, n)]
           [] final = "B" -> [g EXCEPT !.row = AtMost(g.row + n, Rows - 1)]
           [] final = "C" -> [g EXCEPT !.col = AtMost(g.col + n, Cols - 1)]
           [] final = "D" -> [g EXCEPT !.col = Less(g.col, n)]
           [] final = "E" -> [g EXCEPT !.col = 0, !.row = AtMost(g.row + n, Rows - 1)]
           [] final = "F" -> [g EXCEPT !.col = 0, !.row = Less(g.row, n)]
           [] final = "G" -> [g EXCEPT !.col = AtMost(n - 1, Cols - 1)]
           [] final = "d" -> [g EXCEPT !.row = AtMost(n - 1, Rows - 1)]
           [] final = "H" -> MoveTo(g, Less(p, 1), Less(q, 1))
           [] final = "s" -> [g EXCEPT !.decsc = <<g.row, g.col>>]
           [] OTHER       -> MoveTo(g, g.decsc[1], g.decsc[2])
  BY DEF MoveCursor
<1> HIDE DEF n
<1>7. QED BY <1>2, <1>3, <1>4, <1>5, <1>6, ZenonT(30)

-----------------------------------------------------------------------------
(* The types.                                                              *)

Finals == {"A", "B", "C", "D", "E", "F", "G", "d", "H", "s", "u"}

\* An event that is not a switch makes h of g, the grid it works on.
Makes(g, h) ==
    \/ \E c \in Chars : h = Put(g, c)
    \/ \E b \in {"LF", "CR", "BS", "HT"} : h = ExecuteOn(g, b)
    \/ \E final \in Finals, p \in Params, q \in Params \cup {0} : h = MoveCursor(g, final, p, q)
    \/ \E mode \in 0..3 : h = EraseDisplay(g, mode) \/ h = EraseLine(g, mode)
    \/ \E t, b \in Params : h = SetScrollRegion(g, t, b)
    \/ \E n \in Nat \ {0} : h = ScrollUp(g, n) \/ h = ScrollDown(g, n)

\* What an event makes of a grid is a grid.
LEMMA MadeIsGrid == ASSUME NEW g \in Grids, NEW h, Makes(g, h) PROVE h \in Grids
<1>1. \A c \in Chars : Put(g, c) \in Grids
  BY PutDoes
<1>2. \A b \in {"LF", "CR", "BS", "HT"} : ExecuteOn(g, b) \in Grids
  BY ExecuteOnDoes
<1>3. \A final \in Finals, p \in Params, q \in Params \cup {0} :
         MoveCursor(g, final, p, q) \in Grids
  <2>1. \A p \in Params \cup {0} : p \in Nat
    BY Sizes
  <2>2. QED BY <2>1, MoveCursorDoes DEF Finals
<1>4. \A mode \in 0..3 : EraseDisplay(g, mode) \in Grids /\ EraseLine(g, mode) \in Grids
  BY EraseDisplayDoes, EraseLineDoes
<1>5. \A t, b \in Params : SetScrollRegion(g, t, b) \in Grids
  BY SetScrollRegionDoes, Sizes
<1>6. \A n \in Nat \ {0} : ScrollUp(g, n) \in Grids /\ ScrollDown(g, n) \in Grids
  BY ScrollUpDoes, ScrollDownDoes
<1>7. QED BY <1>1, <1>2, <1>3, <1>4, <1>5, <1>6 DEF Makes

\* An event writes one of these to the grid it works on, or switches grids.
LEMMA Happens ==
  ASSUME Next
  PROVE  \/ \E g : Makes(Active, g) /\ OnActive(g)
         \/ \E how \in {1049, 1047, 47} : Enter(how) \/ Leave(how)
<1>1. CASE \E c \in Chars : Draw(c)
  BY <1>1 DEF Draw, Makes
<1>2. CASE \E b \in {"LF", "CR", "BS", "HT"} : Execute(b)
  BY <1>2 DEF Execute, Makes
<1>3. CASE \/ \E final \in {"A", "B", "C", "D", "E", "F", "G", "d", "s", "u"}, p \in Params :
                 Move(final, p, 0)
           \/ \E p, q \in Params : Move("H", p, q)
  BY <1>3 DEF Move, Control, Makes, Finals
<1>4. CASE (\E mode \in 0..3 : EraseJ(mode)) \/ (\E mode \in 0..3 : EraseK(mode))
  BY <1>4 DEF EraseJ, EraseK, Control, Makes
<1>5. CASE \E t, b \in Params : Decstbm(t, b)
  BY <1>5 DEF Decstbm, Control, Makes
<1>6. CASE \E final \in {"S", "T"}, p \in Params : ScrollBy(final, p)
  <2>1. PICK final \in {"S", "T"}, p \in Params : ScrollBy(final, p)
    BY <1>6
  <2> DEFINE n == IF p = 0 THEN 1 ELSE p
  <2>2. n \in Nat \ {0}
    BY Sizes
  <2>3. OnActive(ScrollUp(Active, n)) \/ OnActive(ScrollDown(Active, n))
    BY <2>1, Zenon DEF ScrollBy
  <2> HIDE DEF n
  <2>4. QED BY <2>2, <2>3 DEF Makes
<1>7. CASE \E how \in {1049, 1047, 47} : Switch(how)
  BY <1>7 DEF Switch
<1>8. QED BY <1>1, <1>2, <1>3, <1>4, <1>5, <1>6, <1>7 DEF Next

\* Every event uses up one of the bounds.
LEMMA Spends ==
  ASSUME TypeInv, Next PROVE spent' \in Spendings /\ lineFed' \in BOOLEAN
<1>1. \A max : \A what \in {"prints", "feeds", "moves", "switches"} :
         Spend(what, max) => spent' \in Spendings
  BY DEF TypeInv, Spendings, Spend
<1>2. \/ \E max : Spend("prints", max) \/ Spend("feeds", max) \/ Spend("moves", max)
                    \/ Spend("switches", max)
  BY DEF Next, Draw, Execute, Move, EraseJ, EraseK, Decstbm, ScrollBy, Switch, Control
<1>3. lineFed' = lineFed \/ lineFed' = FALSE
  BY DEF Next, Draw, Execute, Move, EraseJ, EraseK, Decstbm, ScrollBy, Switch, Control,
         OnPaper, OffPaper
<1>4. QED BY <1>1, <1>2, <1>3 DEF TypeInv

\* A cleared grid is one.
LEMMA ClearIsGrid == ASSUME NEW g \in Grids PROVE Clear(g) \in Grids
  BY NewGridIsGrid, GridFacts DEF Clear, Grids, GridType

\* The grid that is shown is one.
LEMMA ActiveIsGrid == ASSUME TypeInv PROVE Active \in Grids
  BY DEF TypeInv, Active

\* Every event keeps the types.
LEMMA TypeStep == ASSUME TypeInv, Next PROVE TypeInv'
<1>1. spent' \in Spendings /\ lineFed' \in BOOLEAN
  BY Spends
<1>2. CASE \E g : Makes(Active, g) /\ OnActive(g)
  <2>1. PICK g : Makes(Active, g) /\ OnActive(g)
    BY <1>2
  <2>2. g \in Grids
    BY <2>1, ActiveIsGrid, MadeIsGrid
  <2>3. QED BY <1>1, <2>1, <2>2 DEF OnActive, TypeInv
<1>3. CASE \E how \in {1049, 1047, 47} : Enter(how)
  <2>1. PICK how \in {1049, 1047, 47} : Enter(how)
    BY <1>3
  <2>2. /\ <<primary.row, primary.col>> \in (0 .. Rows - 1) \X (0..Cols)
        /\ Clear(alternate) \in Grids
    BY GridFacts, ClearIsGrid DEF TypeInv
  <2>3. QED BY <1>1, <2>1, <2>2 DEF Enter, TypeInv
<1>4. CASE \E how \in {1049, 1047, 47} : Leave(how)
  <2>1. /\ inAlternate' = FALSE /\ alternate' = alternate /\ savedCursor' = savedCursor
        /\ \/ primary' = primary
           \/ primary' = MoveTo(primary, savedCursor[1], savedCursor[2])
    BY <1>4 DEF Leave
  <2>2. MoveTo(primary, savedCursor[1], savedCursor[2]) \in Grids
    <3>1. savedCursor[1] \in Nat /\ savedCursor[2] \in Nat
      BY Sizes DEF TypeInv
    <3>2. QED BY <3>1, MoveToDoes DEF TypeInv
  <2>3. primary' \in Grids /\ alternate' \in Grids
    BY <2>1, <2>2 DEF TypeInv
  <2>4. inAlternate' \in BOOLEAN
    BY <2>1, Zenon
  <2>5. savedCursor' \in (0 .. Rows - 1) \X (0..Cols)
    BY <2>1 DEF TypeInv
  <2>6. QED BY ONLY <1>1, <2>3, <2>4, <2>5 DEF TypeInv
<1>5. QED BY <1>2, <1>3, <1>4, Happens

\* Both grids are always grids: whatever the target sends, the cursor and the region
\* stay on the screen (Grid, screen.rs).
THEOREM TypeInvHolds == Spec => []TypeInv
<1>1. Init => TypeInv
  <2> SUFFICES ASSUME Init PROVE TypeInv
    OBVIOUS
  <2>1. <<0, 0>> \in (0 .. Rows - 1) \X (0..Cols)
    BY Sizes
  <2>2. QED BY <2>1, NewGridIsGrid DEF Init, TypeInv, Spendings
<1>2. TypeInv /\ UNCHANGED vars => TypeInv'
  BY DEF TypeInv, vars, screenVars
<1>3. QED BY <1>1, <1>2, TypeStep, PTL DEF Spec

\* No event, whatever its parameters, takes the cursor, the region or the saved cursor
\* off the grid, or the scrollback over its limit: no index into the cells panics
\* (Grid, screen.rs).
THEOREM ScreenTypes == Spec => []TypeOK
<1>1. \A g \in Grids : GridOK(g)
  <2> SUFFICES ASSUME NEW g \in Grids PROVE GridOK(g)
    OBVIOUS
  <2>1. g.bottom \in g.top .. Rows - 1
    BY GridFacts, Sizes
  <2>2. QED BY <2>1, GridFacts DEF GridOK
<1>2. TypeInv => TypeOK
  BY <1>1 DEF TypeInv, TypeOK
<1>3. QED BY <1>2, TypeInvHolds, PTL

-----------------------------------------------------------------------------
(* The two grids.                                                          *)

\* While the alternate screen is shown, the main one is what it was, and the saved
\* cursor is the main screen's if it was saved on entering.
EntryInv ==
    inAlternate => /\ entry.grid = primary
                   /\ entry.how = 1049 => savedCursor = <<primary.row, primary.col>>

\* What the alternate screen does never reaches the main one (active, screen.rs).
THEOREM EntryInvHolds == Spec => []EntryInv
<1>1. Init => EntryInv
  BY DEF Init, EntryInv
<1>2. ASSUME TypeInv, EntryInv, Next PROVE EntryInv'
  <2>1. CASE \E g : Makes(Active, g) /\ OnActive(g)
    BY <1>2, <2>1 DEF OnActive, EntryInv, TypeInv
  <2>2. CASE \E how \in {1049, 1047, 47} : Enter(how)
    BY <2>2 DEF Enter, EntryInv
  <2>3. CASE \E how \in {1049, 1047, 47} : Leave(how)
    BY <2>3 DEF Leave, EntryInv
  <2>4. QED BY <1>2, <2>1, <2>2, <2>3, Happens
<1>3. EntryInv /\ UNCHANGED vars => EntryInv'
  BY DEF EntryInv, vars, screenVars
<1>4. QED BY <1>1, <1>2, <1>3, TypeInvHolds, PTL DEF Spec

\* Leaving the alternate screen brings the main screen back with its cells and its
\* history, and with its cursor if it was entered by ?1049 (leave_alternate, screen.rs).
THEOREM MainScreenComesBack == Spec => LeaveRestores
<1> DEFINE Restores ==
      inAlternate /\ ~inAlternate' =>
        /\ primary'.cells = entry.grid.cells /\ primary'.scrollback = entry.grid.scrollback
        /\ entry.how = 1049 =>
             /\ primary'.row = entry.grid.row
             /\ primary'.col \in {entry.grid.col, AtMost(entry.grid.col, Cols - 1)}
<1>1. ASSUME TypeInv, EntryInv, Next PROVE Restores
  <2> SUFFICES ASSUME inAlternate, ~inAlternate' PROVE Restores
    OBVIOUS
  <2>1. PICK how \in {1049, 1047, 47} : Leave(how)
    <3>1. ~ \E g : Makes(Active, g) /\ OnActive(g)
      BY DEF OnActive
    <3>2. ~ \E how \in {1049, 1047, 47} : Enter(how)
      BY DEF Enter
    <3>3. QED BY <1>1, <3>1, <3>2, Happens
  <2>2. entry.grid = primary /\ (entry.how = 1049 => savedCursor = <<primary.row, primary.col>>)
    BY <1>1 DEF EntryInv
  <2>3. CASE how = 1049
    <3>1. primary' = MoveTo(primary, savedCursor[1], savedCursor[2])
      BY <2>1, <2>3 DEF Leave
    <3>2. savedCursor[1] \in Nat /\ savedCursor[2] \in Nat
      BY <1>1, Sizes DEF TypeInv
    <3>3. /\ primary'.cells = primary.cells /\ primary'.scrollback = primary.scrollback
          /\ primary'.row = AtMost(savedCursor[1], Rows - 1)
          /\ primary'.col = AtMost(savedCursor[2], Cols - 1)
      BY <1>1, <3>1, <3>2, MoveToDoes, ZenonT(30) DEF TypeInv
    <3>4. AtMost(primary.row, Rows - 1) = primary.row
      <4>1. primary.row \in 0 .. Rows - 1
        BY <1>1, GridFacts DEF TypeInv
      <4>2. QED BY <4>1, Sizes DEF AtMost
    <3>5. QED BY <2>2, <3>3, <3>4
  <2>4. CASE how # 1049
    <3>1. primary' = primary
      BY <2>1, <2>4 DEF Leave
    <3>2. QED BY <2>2, <3>1
  <2>5. QED BY <2>3, <2>4
<1>2. TypeInv /\ EntryInv /\ [Next]_vars => [Restores]_vars
  BY <1>1
<1>3. QED BY <1>2, TypeInvHolds, EntryInvHolds, PTL DEF Spec, LeaveRestores

-----------------------------------------------------------------------------
(* Scrolling.                                                              *)

\* What Scrolled, and blank rows below it, come to.
LEMMA ScrolledIs ==
  ASSUME NEW g \in Grids
  PROVE  LET L == Len(g.scrollback)
             n == g.bottom - g.top + 1
         IN  /\ n \in Nat /\ n > 0
             /\ Scrolled(g) \in Seq(Row) /\ Len(Scrolled(g)) = L + n
             /\ \A i \in 1 .. L + n : Scrolled(g)[i] = IF i <= L THEN g.scrollback[i]
                                                       ELSE g.cells[g.top + i - L]
<1> DEFINE L == Len(g.scrollback)
           n == g.bottom - g.top + 1
           a == g.top + 1
           b == g.bottom + 1
           region == SubSeq(g.cells, a, b)
<1>1. /\ a \in Int /\ b \in Int /\ a <= b /\ b - a + 1 = n /\ n \in Nat /\ n > 0
      /\ g.cells \in [1..Rows -> Row] /\ a..b \subseteq 1..Rows /\ g.top \in Nat
      /\ g.scrollback \in Seq(Row) /\ L \in Nat
  <2>1. a..b \subseteq 1..Rows
    BY GridFacts DEF Region
  <2>2. g.top \in Nat /\ g.bottom \in Nat /\ g.top <= g.bottom
    BY GridFacts, Sizes
  <2>3. /\ g.cells \in [1..Rows -> Row] /\ g.scrollback \in Seq(Row) /\ L \in Nat
    BY GridFacts
  <2>4. QED BY <2>1, <2>2, <2>3
<1>2. \A i \in 1..n : a + i - 1 = g.top + i
  BY <1>1
<1> HIDE DEF a, b, n
<1>3. \A i \in a..b : g.cells[i] \in Row
  BY <1>1
<1>4. /\ region \in Seq(Row) /\ Len(region) = IF a <= b THEN b - a + 1 ELSE 0
      /\ \A i \in 1 .. b - a + 1 : region[i] = g.cells[a + i - 1]
  BY <1>1, <1>3, SubSeqProperties
<1>5. Scrolled(g) = g.scrollback \o region
  BY DEF Scrolled, a, b
<1> HIDE DEF region
<1>6. Len(region) = n /\ \A i \in 1..n : region[i] = g.cells[g.top + i]
  BY <1>1, <1>2, <1>4
<1>7. /\ Scrolled(g) \in Seq(Row) /\ Len(Scrolled(g)) = L + n
      /\ \A i \in 1 .. L + n : Scrolled(g)[i] = IF i <= L THEN g.scrollback[i]
                                                ELSE region[i - L]
  <2>1. /\ g.scrollback \o region \in Seq(Row)
        /\ Len(g.scrollback \o region) = Len(g.scrollback) + Len(region)
        /\ \A i \in 1 .. Len(g.scrollback) + Len(region) :
              (g.scrollback \o region)[i] = IF i <= Len(g.scrollback) THEN g.scrollback[i]
                                             ELSE region[i - Len(g.scrollback)]
    BY <1>1, <1>4, ConcatProperties
  <2>2. Len(region) = n
    BY <1>6
  <2>3. QED BY <1>5, <2>1, <2>2
<1> HIDE DEF L
<1>8. \A i \in 1 .. L + n : ~(i <= L) => i - L \in 1..n /\ g.top + (i - L) = g.top + i - L
  BY <1>1
<1>9. \A i \in 1 .. L + n : Scrolled(g)[i] = IF i <= L THEN g.scrollback[i]
                                             ELSE g.cells[g.top + i - L]
  BY <1>6, <1>7, <1>8
<1>10. QED BY <1>1, <1>7, <1>9 DEF L, n

\* A suffix, element by element.
LEMMA SuffixOf ==
  ASSUME NEW S, NEW s \in Seq(S), NEW t \in Seq(S), Len(s) <= Len(t),
         \A i \in 1..Len(s) : s[i] = t[Len(t) - Len(s) + i]
  PROVE  IsSuffix(s, t)
<1> DEFINE m == Len(s)
           n == Len(t)
           u == [i \in 1..m |-> s[m - i + 1]]
           v == [i \in 1..n |-> t[n - i + 1]]
<1>1. m \in Nat /\ n \in Nat /\ m <= n
  BY LenProperties
<1>2. Reverse(s) = u /\ Reverse(t) = v
  BY DEF Reverse
<1> HIDE DEF m, n
<1>3. /\ \A i \in 1..m : m - i + 1 \in 1..m
      /\ \A i \in 1..n : n - i + 1 \in 1..n
  BY <1>1
<1>4. /\ \A i \in 1..m : s[i] \in S
      /\ \A i \in 1..n : t[i] \in S
  BY ElementOfSeq DEF m, n
<1>5. u \in Seq(S) /\ v \in Seq(S) /\ Len(u) = m /\ Len(v) = n
  BY <1>1, <1>3, <1>4
<1>6. \A i \in 1..m : u[i] = v[i]
  <2> SUFFICES ASSUME NEW i \in 1..m PROVE u[i] = v[i]
    OBVIOUS
  <2>1. s[m - i + 1] = t[n - m + (m - i + 1)]
    BY <1>3 DEF m, n
  <2>2. n - m + (m - i + 1) = n - i + 1 /\ i \in 1..n
    BY <1>1
  <2>3. QED BY <2>1, <2>2
<1> HIDE DEF u, v
<1>7. SubSeq(u, 1, m) = SubSeq(v, 1, m)
  <2>1. \A i \in 1..m : u[i] \in S /\ v[i] \in S
    BY <1>1, <1>5, <1>6, ElementOfSeq
  <2>2. /\ SubSeq(u, 1, m) \in Seq(S) /\ Len(SubSeq(u, 1, m)) = IF 1 <= m THEN m - 1 + 1 ELSE 0
        /\ \A i \in 1 .. m - 1 + 1 : SubSeq(u, 1, m)[i] = u[1 + i - 1]
    BY <1>1, <2>1, SubSeqProperties
  <2>3. /\ SubSeq(v, 1, m) \in Seq(S) /\ Len(SubSeq(v, 1, m)) = IF 1 <= m THEN m - 1 + 1 ELSE 0
        /\ \A i \in 1 .. m - 1 + 1 : SubSeq(v, 1, m)[i] = v[1 + i - 1]
    BY <1>1, <2>1, SubSeqProperties
  <2>4. Len(SubSeq(u, 1, m)) = m /\ Len(SubSeq(v, 1, m)) = m
    BY <1>1, <2>2, <2>3
  <2>5. \A i \in 1..m : SubSeq(u, 1, m)[i] = SubSeq(v, 1, m)[i]
    BY <1>1, <1>6, <2>2, <2>3
  <2>6. QED BY <2>2, <2>3, <2>4, <2>5, SeqEqual
<1>8. QED BY <1>1, <1>2, <1>5, <1>7 DEF IsSuffix, IsPrefix

\* A scroll, of one grid into the next: the rows outside the region stay, and what has
\* left the region is the newest history.
Scrolls(g, h) ==
    /\ \A r \in (1..Rows) \ Region(g) : h.cells[r] = g.cells[r]
    /\ h.scrollback # g.scrollback =>
         \E k \in 1..Rows : IsSuffix(Scrolled(h), Scrolled(g) \o [i \in 1..k |-> Blank])
    /\ <<h.col, h.top, h.bottom>> = <<g.col, g.top, g.bottom>>

\* A scroll up moves the rows of the region in order and nothing else.
LEMMA ScrollUpScrolls ==
  ASSUME NEW g \in Grids, NEW n \in Nat \ {0} PROVE Scrolls(g, ScrollUp(g, n))
<1> DEFINE h == ScrollUp(g, n)
           L == Len(g.scrollback)
           size == g.bottom - g.top + 1
           k == AtMost(n, size)
           m == AtMost(L + k, MaxScrollback)
           blanks == [i \in 1..k |-> Blank]
           t == Scrolled(g) \o blanks
<1>1. /\ L \in Nat /\ size \in Nat /\ size > 0 /\ g.top \in Nat /\ g.bottom \in Nat
      /\ g.bottom < Rows /\ Region(g) \subseteq 1..Rows
  BY GridFacts, Sizes
<1>2. k \in 1..Rows /\ k <= size
  BY <1>1, Sizes DEF AtMost
<1>3. m \in 0 .. L + k
  <2> HIDE DEF k, L, size
  <2>1. QED BY <1>1, <1>2, Sizes DEF AtMost
<1>4. /\ h \in Grids
      /\ <<h.row, h.col, h.top, h.bottom>> = <<g.row, g.col, g.top, g.bottom>>
      /\ \A r \in 1..Rows : h.cells[r] = IF r \notin Region(g) THEN g.cells[r]
                           ELSE IF r + k \in Region(g) THEN g.cells[r + k] ELSE Blank
      /\ Len(h.scrollback) = m
      /\ \A i \in 1..m : h.scrollback[i] =
            LET j == L + k - m + i
            IN  IF j <= L THEN g.scrollback[j] ELSE g.cells[g.top + j - L]
  BY ScrollUpDoes
<1>5. /\ Scrolled(g) \in Seq(Row) /\ Len(Scrolled(g)) = L + size
      /\ \A i \in 1 .. L + size : Scrolled(g)[i] = IF i <= L THEN g.scrollback[i]
                                                   ELSE g.cells[g.top + i - L]
  BY ScrolledIs
<1>6. /\ Scrolled(h) \in Seq(Row) /\ Len(Scrolled(h)) = m + size
      /\ \A i \in 1 .. m + size : Scrolled(h)[i] = IF i <= m THEN h.scrollback[i]
                                                   ELSE h.cells[g.top + i - m]
  <2>1. LET L2 == Len(h.scrollback)
            n2 == h.bottom - h.top + 1
         IN  /\ Scrolled(h) \in Seq(Row) /\ Len(Scrolled(h)) = L2 + n2
             /\ \A i \in 1 .. L2 + n2 : Scrolled(h)[i] = IF i <= L2 THEN h.scrollback[i]
                                                         ELSE h.cells[h.top + i - L2]
    BY <1>4, ScrolledIs
  <2>2. h.bottom - h.top + 1 = size /\ h.top = g.top
    BY <1>4
  <2> HIDE DEF h, m, size
  <2>3. QED BY <1>4, <2>1, <2>2
<1> HIDE DEF h, L, k, m, size
<1>7. blanks \in Seq(Row) /\ Len(blanks) = k /\ \A i \in 1..k : blanks[i] = Blank
  BY <1>2, BlankIsRow
<1>8. /\ t \in Seq(Row) /\ Len(t) = L + size + k
      /\ \A i \in 1 .. L + size + k : t[i] = IF i <= L + size THEN Scrolled(g)[i] ELSE Blank
  <2> HIDE DEF blanks
  <2>1. /\ t \in Seq(Row) /\ Len(t) = Len(Scrolled(g)) + Len(blanks)
        /\ \A i \in 1 .. Len(Scrolled(g)) + Len(blanks) :
              t[i] = IF i <= Len(Scrolled(g)) THEN Scrolled(g)[i]
                     ELSE blanks[i - Len(Scrolled(g))]
    BY <1>5, <1>7, ConcatProperties
  <2> HIDE DEF t
  <2>2. \A i \in 1 .. L + size + k : ~(i <= L + size) => i - (L + size) \in 1..k
    BY <1>1, <1>2
  <2>3. QED BY <1>1, <1>2, <1>5, <1>7, <2>1, <2>2
<1> HIDE DEF t
<1>9. m + size <= L + size + k
  BY <1>1, <1>2, <1>3
<1>10. ASSUME NEW i \in 1 .. m + size
       PROVE  Scrolled(h)[i] = t[(L + size + k) - (m + size) + i]
  <2> DEFINE j == L + k - m + i
  <2>1. /\ (L + size + k) - (m + size) + i = j /\ j \in 1 .. L + size + k
        /\ i \in Nat /\ j \in Nat
    BY <1>1, <1>2, <1>3, <1>10
  <2>2. CASE i <= m
    <3>1. Scrolled(h)[i] = IF j <= L THEN g.scrollback[j] ELSE g.cells[g.top + j - L]
      BY <1>3, <1>4, <1>6, <2>2
    <3>2. j \in 1 .. L + size /\ j <= L + size
      BY <1>1, <1>2, <1>3, <2>2
    <3> HIDE DEF j
    <3>3. QED BY <1>5, <1>8, <2>1, <3>1, <3>2
  <2>3. CASE ~(i <= m)
    <3> DEFINE r == g.top + i - m
    <3>1. /\ r \in Region(g) /\ r \in 1..Rows
          /\ r + k \in Region(g) <=> j <= L + size
          /\ ~(j <= L) /\ g.top + j - L = r + k
      BY <1>1, <1>2, <1>3, <1>10, <2>3 DEF Region, size
    <3>2. Scrolled(h)[i] = h.cells[r]
      BY <1>6, <2>3
    <3>3. h.cells[r] = IF r + k \in Region(g) THEN g.cells[r + k] ELSE Blank
      BY <1>4, <3>1
    <3>4. t[j] = IF j <= L + size THEN Scrolled(g)[j] ELSE Blank
      BY <1>8, <2>1
    <3>5. j <= L + size => Scrolled(g)[j] = g.cells[g.top + j - L]
      <4>1. j <= L + size => j \in 1 .. L + size
        BY <1>1, <2>1
      <4> HIDE DEF j
      <4>2. QED BY <1>5, <3>1, <4>1
    <3> HIDE DEF r, j
    <3>6. QED BY <2>1, <3>1, <3>2, <3>3, <3>4, <3>5
  <2>4. QED BY <2>2, <2>3
<1>11. IsSuffix(Scrolled(h), t)
  BY <1>5, <1>6, <1>8, <1>9, <1>10, SuffixOf
<1>12. QED BY <1>2, <1>4, <1>11 DEF Scrolls, t, blanks, h

\* A line end or a scroll is the only event counted as one.
LEMMA Feeds ==
  ASSUME TypeInv, Next, spent'.feeds # spent.feeds
  PROVE  /\ inAlternate' = inAlternate
         /\ \/ Active' = LineFeed(Active)
            \/ \E n \in Nat \ {0} : Active' = ScrollUp(Active, n) \/ Active' = ScrollDown(Active, n)
<1>1. \A max : \A what \in {"prints", "moves", "switches"} : ~Spend(what, max)
  BY DEF TypeInv, Spendings, Spend
<1>2. \A g : OnActive(g) => Active' = g /\ inAlternate' = inAlternate
  BY DEF OnActive, Active
<1>3. \/ Execute("LF") \/ \E final \in {"S", "T"}, p \in Params : ScrollBy(final, p)
  BY <1>1 DEF Next, Draw, Execute, Move, EraseJ, EraseK, Decstbm, Switch, Control
<1>4. CASE Execute("LF")
  BY <1>2, <1>4 DEF Execute, ExecuteOn
<1>5. ASSUME NEW final \in {"S", "T"}, NEW p \in Params, ScrollBy(final, p)
      PROVE  /\ inAlternate' = inAlternate
             /\ \E n \in Nat \ {0} : \/ Active' = ScrollUp(Active, n)
                                     \/ Active' = ScrollDown(Active, n)
  <2> DEFINE n == IF p = 0 THEN 1 ELSE p
  <2>1. n \in Nat \ {0}
    BY Sizes
  <2>2. OnActive(ScrollUp(Active, n)) \/ OnActive(ScrollDown(Active, n))
    BY <1>5, Zenon DEF ScrollBy
  <2> HIDE DEF n
  <2>3. QED BY <1>2, <2>1, <2>2
<1>6. QED BY <1>3, <1>4, <1>5

\* A line end at the bottom of the region, or a scroll, touches nothing but the region
\* and moves its rows into the history in order (scroll_region_up, screen.rs).
THEOREM ScrollingStays == Spec => ScrollStaysInRegion
<1> DEFINE Stays == \A g \in {Active}, h \in {Active'} :
      spent'.feeds # spent.feeds =>
        /\ \A r \in (1..Rows) \ Region(g) : h.cells[r] = g.cells[r]
        /\ h.scrollback # g.scrollback =>
             \E k \in 1..Rows : IsSuffix(Scrolled(h), Scrolled(g) \o [i \in 1..k |-> Blank])
        /\ <<h.col, h.top, h.bottom>> = <<g.col, g.top, g.bottom>>
<1>1. ASSUME NEW g \in Grids PROVE Scrolls(g, LineFeed(g))
  <2>1. CASE g.row = g.bottom
    BY <2>1, LineFeedDoes, ScrollUpScrolls
  <2>2. CASE g.row # g.bottom
    BY <2>2, LineFeedDoes DEF Scrolls
  <2>3. QED BY <2>1, <2>2
<1>2. ASSUME NEW g \in Grids, NEW n \in Nat PROVE Scrolls(g, ScrollDown(g, n))
  BY ScrollDownDoes DEF Scrolls
<1>3. ASSUME TypeInv, Next, spent'.feeds # spent.feeds PROVE Scrolls(Active, Active')
  BY <1>1, <1>2, <1>3, Feeds, ActiveIsGrid, ScrollUpScrolls
<1>4. TypeInv /\ [Next]_vars => [Stays]_vars
  BY <1>3, Zenon DEF Scrolls
<1>5. QED BY <1>4, TypeInvHolds, PTL DEF Spec, ScrollStaysInRegion

-----------------------------------------------------------------------------
(* The transcript.                                                         *)

\* The scrollback of g and its rows down to the cursor are the last rows of the paper p,
\* and the first rows are missing only if the scrollback is full.
Written(g, p) ==
    LET L == Len(g.scrollback)
        d == Len(p) - (L + g.row + 1)
    IN  /\ p \in Seq(Row) /\ d >= 0
        /\ d > 0 => L = MaxScrollback
        /\ \A i \in 1..L : p[d + i] = g.scrollback[i]
        /\ \A r \in 1 .. g.row + 1 : p[d + L + r] = g.cells[r]
        /\ \A r \in g.row + 2 .. Rows : g.cells[r] = Blank

WholeScreen(g) == g.top = 0 /\ g.bottom = Rows - 1

PaperInv == lineFed => ~inAlternate /\ WholeScreen(primary) /\ Written(primary, paper)

\* The numbers of Written and what it says of the rows.
LEMMA WrittenFacts ==
  ASSUME NEW g \in Grids, NEW p, Written(g, p)
  PROVE  LET L == Len(g.scrollback)
             d == Len(p) - (L + g.row + 1)
         IN  /\ L \in Nat /\ L <= MaxScrollback /\ g.row \in Nat /\ g.row <= Rows - 1
             /\ p \in Seq(Row) /\ Len(p) \in Nat /\ d \in Nat /\ Len(p) = d + L + g.row + 1
             /\ d > 0 => L = MaxScrollback
             /\ \A i \in 1..L : p[d + i] = g.scrollback[i]
             /\ \A r \in 1 .. g.row + 1 : p[d + L + r] = g.cells[r]
             /\ \A r \in g.row + 2 .. Rows : g.cells[r] = Blank
<1> DEFINE L == Len(g.scrollback)
           d == Len(p) - (L + g.row + 1)
<1>1. /\ p \in Seq(Row) /\ d >= 0
      /\ d > 0 => L = MaxScrollback
      /\ \A i \in 1..L : p[d + i] = g.scrollback[i]
      /\ \A r \in 1 .. g.row + 1 : p[d + L + r] = g.cells[r]
      /\ \A r \in g.row + 2 .. Rows : g.cells[r] = Blank
  BY DEF Written
<1>2. L \in Nat /\ L <= MaxScrollback /\ g.row \in Nat /\ g.row <= Rows - 1
  BY GridFacts, Sizes
<1>3. Len(p) \in Nat
  BY <1>1, LenProperties
<1> HIDE DEF L
<1>4. d \in Nat /\ Len(p) = d + L + g.row + 1
  BY <1>1, <1>2, <1>3
<1> HIDE DEF d
<1>5. QED BY <1>1, <1>2, <1>3, <1>4 DEF d, L

\* How Written is established.
LEMMA WrittenIf ==
  ASSUME NEW g, NEW p \in Seq(Row), NEW L \in Nat, NEW d \in Nat, g.row \in Nat,
         L = Len(g.scrollback), Len(p) = d + L + g.row + 1, d > 0 => L = MaxScrollback,
         \A i \in 1..L : p[d + i] = g.scrollback[i],
         \A r \in 1 .. g.row + 1 : p[d + L + r] = g.cells[r],
         \A r \in g.row + 2 .. Rows : g.cells[r] = Blank
  PROVE  Written(g, p)
<1>1. Len(p) - (L + g.row + 1) = d
  BY LenProperties
<1>2. Len(p) - (Len(g.scrollback) + g.row + 1) = d
  BY <1>1, Zenon
<1> DEFINE e == Len(p) - (Len(g.scrollback) + g.row + 1)
           M == Len(g.scrollback)
<1>3. e = d /\ M = L
  BY <1>2
<1> HIDE DEF e, M
<1>4. /\ p \in Seq(Row) /\ e >= 0
      /\ e > 0 => M = MaxScrollback
      /\ \A i \in 1..M : p[e + i] = g.scrollback[i]
      /\ \A r \in 1 .. g.row + 1 : p[e + M + r] = g.cells[r]
      /\ \A r \in g.row + 2 .. Rows : g.cells[r] = Blank
  BY <1>3
<1>5. QED BY <1>4 DEF Written, e, M

\* A new row of the paper is one of the screen, or pushes the top one out.
LEMMA LineFeedWrites ==
  ASSUME NEW g \in Grids, NEW p, WholeScreen(g), Written(g, p)
  PROVE  WholeScreen(LineFeed(g)) /\ Written(LineFeed(g), Append(p, Blank))
<1> DEFINE h == LineFeed(g)
           q == Append(p, Blank)
           L == Len(g.scrollback)
           d == Len(p) - (L + g.row + 1)
<1>1. /\ L \in Nat /\ L <= MaxScrollback /\ g.row \in Nat /\ g.row <= Rows - 1
      /\ p \in Seq(Row) /\ Len(p) \in Nat /\ d \in Nat /\ Len(p) = d + L + g.row + 1
      /\ g.top = 0 /\ g.bottom = Rows - 1
  BY WrittenFacts DEF WholeScreen
<1>2. /\ d > 0 => L = MaxScrollback
      /\ \A i \in 1..L : p[d + i] = g.scrollback[i]
      /\ \A r \in 1 .. g.row + 1 : p[d + L + r] = g.cells[r]
      /\ \A r \in g.row + 2 .. Rows : g.cells[r] = Blank
  BY WrittenFacts
<1>3. /\ q \in Seq(Row) /\ Len(q) = Len(p) + 1
      /\ \A i \in 1..Len(p) : q[i] = p[i]
      /\ q[Len(p) + 1] = Blank
  BY <1>1, BlankIsRow, AppendProperties
<1>4. h \in Grids /\ WholeScreen(h)
  BY <1>1, LineFeedDoes DEF WholeScreen
<1> HIDE DEF q, L, d
<1>5. CASE g.row # g.bottom
  <2>1. /\ h.cells = g.cells /\ h.scrollback = g.scrollback /\ h.row = g.row + 1
    BY <1>1, <1>5, LineFeedDoes, Sizes
  <2> HIDE DEF h
  <2>2. Len(q) - (L + h.row + 1) = d
    BY <1>1, <1>3, <2>1
  <2>3. \A i \in 1..L : q[d + i] = h.scrollback[i]
    BY <1>1, <1>2, <1>3, <2>1, SMTT(30)
  <2>4. \A r \in 1 .. h.row + 1 : q[d + L + r] = h.cells[r]
    <3> SUFFICES ASSUME NEW r \in 1 .. h.row + 1 PROVE q[d + L + r] = h.cells[r]
      OBVIOUS
    <3>1. CASE r \in 1 .. g.row + 1
      <4>1. d + L + r \in 1..Len(p)
        <5>1. d + L + r >= 1 /\ d + L + r <= d + L + (g.row + 1)
          BY ONLY <1>1, <3>1
        <5>2. QED BY ONLY <1>1, <3>1, <5>1
      <4>2. QED BY <1>2, <1>3, <2>1, <3>1, <4>1
    <3>2. CASE r = g.row + 2
      <4>1. d + L + r = Len(p) + 1
        BY ONLY <1>1, <3>2
      <4>2. r \in g.row + 2 .. Rows
        <5>1. g.row + 2 <= Rows
          BY <1>1, <1>5, Sizes, SMTT(30)
        <5>2. QED BY ONLY <1>1, <3>2, <5>1, Sizes
      <4>3. QED BY <1>2, <1>3, <2>1, <4>1, <4>2
    <3>3. QED BY <1>1, <2>1, <3>1, <3>2
  <2>5. \A r \in h.row + 2 .. Rows : h.cells[r] = Blank
    BY <1>1, <1>2, <2>1
  <2>6. Len(h.scrollback) = L
    BY <2>1 DEF L
  <2>7. Written(h, q)
    <3>1. Len(q) = d + L + h.row + 1 /\ h.row \in Nat
      BY <1>1, <1>3, <2>1
    <3>2. /\ q \in Seq(Row) /\ L \in Nat /\ d \in Nat /\ h.row \in Nat
          /\ L = Len(h.scrollback) /\ Len(q) = d + L + h.row + 1
          /\ d > 0 => L = MaxScrollback
      BY <1>1, <1>2, <1>3, <2>6, <3>1
    <3>3. QED BY ONLY <2>3, <2>4, <2>5, <3>2, WrittenIf
  <2>8. QED BY <1>4, <2>7 DEF h, q
<1>6. CASE g.row = g.bottom
  <2> DEFINE m == AtMost(L + 1, MaxScrollback)
             e == d + L + 1 - m
  <2>1. /\ h.row = g.row /\ Len(h.scrollback) = m
        /\ \A r \in 1..Rows : h.cells[r] = IF r \notin Region(g) THEN g.cells[r]
                             ELSE IF r + 1 \in Region(g) THEN g.cells[r + 1] ELSE Blank
        /\ \A i \in 1..m : h.scrollback[i] =
              LET j == L + 1 - m + i
              IN  IF j <= L THEN g.scrollback[j] ELSE g.cells[g.top + j - L]
    <3>1. h = ScrollUp(g, 1)
      BY <1>6, LineFeedDoes
    <3>2. AtMost(1, g.bottom - g.top + 1) = 1
      BY <1>1, Sizes DEF AtMost
    <3>3. LET k == AtMost(1, g.bottom - g.top + 1)
              x == AtMost(Len(g.scrollback) + k, MaxScrollback)
              f == ScrollUp(g, 1)
          IN  /\ f.row = g.row /\ Len(f.scrollback) = x
              /\ \A r \in 1..Rows : f.cells[r] = IF r \notin Region(g) THEN g.cells[r]
                             ELSE IF r + k \in Region(g) THEN g.cells[r + k] ELSE Blank
              /\ \A i \in 1..x : f.scrollback[i] =
                    LET j == Len(g.scrollback) + k - x + i
                    IN  IF j <= Len(g.scrollback) THEN g.scrollback[j]
                        ELSE g.cells[g.top + j - Len(g.scrollback)]
      BY ScrollUpDoes
    <3> HIDE DEF h
    <3>4. QED BY <3>1, <3>2, <3>3 DEF L
  <2>2. /\ m \in Nat /\ m <= L + 1 /\ m <= MaxScrollback /\ m > 0
        /\ m < L + 1 => m = MaxScrollback
    BY <1>1, Sizes DEF AtMost
  <2> HIDE DEF m
  <2>3. /\ e \in Nat /\ Len(q) = e + m + h.row + 1
        /\ e > 0 => m = MaxScrollback
    BY <1>1, <1>2, <1>3, <2>1, <2>2
  <2>4. Region(g) = 1..Rows
    BY <1>1, Sizes DEF Region
  <2>5. \A i \in 1..m : q[e + i] = h.scrollback[i]
    <3> SUFFICES ASSUME NEW i \in 1..m PROVE q[e + i] = h.scrollback[i]
      OBVIOUS
    <3> DEFINE j == L + 1 - m + i
    <3>1. e + i = d + j /\ j \in 1 .. L + 1 /\ d + j \in 1..Len(p)
      BY <1>1, <1>2, <2>2
    <3>2. h.scrollback[i] = IF j <= L THEN g.scrollback[j] ELSE g.cells[g.top + j - L]
      BY <2>1
    <3> HIDE DEF j
    <3>3. q[e + i] = p[d + j]
      BY <1>3, <3>1
    <3>4. CASE j <= L
      BY <1>1, <1>2, <3>1, <3>2, <3>3, <3>4
    <3>5. CASE j = L + 1
      <4>1. d + j = d + L + 1 /\ g.top + j - L = 1 /\ 1 \in 1 .. g.row + 1 /\ ~(j <= L)
        BY <1>1, <3>5
      <4>2. p[d + L + 1] = g.cells[1]
        BY <1>2, <4>1
      <4>3. QED BY <3>2, <3>3, <4>1, <4>2
    <3>6. QED BY <1>1, <3>1, <3>4, <3>5
  <2>6. \A r \in 1 .. h.row + 1 : q[e + m + r] = h.cells[r]
    <3>0. 1 .. h.row + 1 = 1..Rows
      BY <1>1, <1>6, <2>1, Sizes
    <3> SUFFICES ASSUME NEW r \in 1..Rows PROVE q[e + m + r] = h.cells[r]
      BY <3>0
    <3>1. e + m + r = d + L + (r + 1)
      BY <1>1, <1>2, <2>2
    <3>2. CASE r < Rows
      <4>1. r + 1 \in 1 .. g.row + 1 /\ r + 1 \in 1..Rows /\ d + L + (r + 1) \in 1..Len(p)
        BY <1>1, <1>2, <1>6, <3>2, Sizes
      <4>2. h.cells[r] = g.cells[r + 1]
        BY <2>1, <2>4, <4>1
      <4>3. QED BY <1>2, <1>3, <3>1, <4>1, <4>2
    <3>3. CASE r = Rows
      <4>1. r + 1 \notin 1..Rows /\ d + L + (r + 1) = Len(p) + 1
        BY <1>1, <1>2, <1>6, <3>3, Sizes
      <4>2. QED BY <1>3, <2>1, <2>4, <3>1, <4>1
    <3>4. QED BY <3>2, <3>3, Sizes
  <2>7. \A r \in h.row + 2 .. Rows : h.cells[r] = Blank
    BY <1>1, <1>6, <2>1, Sizes, SMTT(30)
  <2> HIDE DEF e, h
  <2>8. Written(h, q)
    <3>1. /\ q \in Seq(Row) /\ m \in Nat /\ e \in Nat /\ h.row \in Nat
          /\ m = Len(h.scrollback) /\ Len(q) = e + m + h.row + 1
          /\ e > 0 => m = MaxScrollback
      BY <1>1, <1>3, <2>1, <2>2, <2>3
    <3>2. QED BY ONLY <2>5, <2>6, <2>7, <3>1, WrittenIf
  <2>9. QED BY <1>4, <2>8 DEF h, q
<1>7. QED BY <1>5, <1>6

\* A character goes to the same place of the last row.
LEMMA CharWrites ==
  ASSUME NEW g \in Grids, NEW p, WholeScreen(g), Written(g, p), NEW c \in Chars,
         g.col \in 0 .. Cols - 1
  PROVE  LET h == [g EXCEPT !.cells[g.row + 1][g.col + 1] = c, !.col = g.col + 1]
         IN  WholeScreen(h) /\ Written(h, [p EXCEPT ![Len(p)][g.col + 1] = c])
<1> DEFINE h == [g EXCEPT !.cells[g.row + 1][g.col + 1] = c, !.col = g.col + 1]
           q == [p EXCEPT ![Len(p)][g.col + 1] = c]
           L == Len(g.scrollback)
           d == Len(p) - (L + g.row + 1)
<1>1. /\ L \in Nat /\ L <= MaxScrollback /\ g.row \in Nat /\ g.row <= Rows - 1
      /\ p \in Seq(Row) /\ Len(p) \in Nat /\ d \in Nat /\ Len(p) = d + L + g.row + 1
  BY WrittenFacts
<1>2. /\ d > 0 => L = MaxScrollback
      /\ \A i \in 1..L : p[d + i] = g.scrollback[i]
      /\ \A r \in 1 .. g.row + 1 : p[d + L + r] = g.cells[r]
      /\ \A r \in g.row + 2 .. Rows : g.cells[r] = Blank
  BY WrittenFacts
<1> HIDE DEF L, d
<1>0. g.cells \in [1..Rows -> Row] /\ g.row + 1 \in 1..Rows /\ g.col + 1 \in 1..Cols
  <2>1. g.cells \in [1..Rows -> Row]
    BY GridFacts
  <2>2. g.row + 1 \in 1..Rows
    BY <1>1, Sizes, SMTT(30)
  <2>3. g.col + 1 \in 1..Cols
    BY Sizes
  <2>4. QED BY <2>1, <2>2, <2>3
<1> DEFINE new == [g.cells[g.row + 1] EXCEPT ![g.col + 1] = c]
<1>3. /\ h.row = g.row /\ h.scrollback = g.scrollback /\ h.top = g.top /\ h.bottom = g.bottom
      /\ h.cells = [g.cells EXCEPT ![g.row + 1] = new]
  BY DEF Grids, GridType
<1> HIDE DEF h
<1>4. Len(p) \in 1..Len(p) /\ p[Len(p)] = g.cells[g.row + 1]
  <2>1. Len(p) = d + L + (g.row + 1) /\ g.row + 1 \in 1 .. g.row + 1
    BY <1>1, <1>2
  <2>2. p[d + L + (g.row + 1)] = g.cells[g.row + 1]
    BY <1>2, <2>1
  <2>3. Len(p) >= 1
    BY <1>1, <1>2
  <2>4. QED BY <1>1, <2>1, <2>2, <2>3
<1>5. q = [p EXCEPT ![Len(p)] = new]
  BY <1>4
<1>6. new \in Row
  <2>1. g.cells[g.row + 1] \in Row
    BY <1>0
  <2>2. QED BY <1>0, <2>1 DEF Row
<1> HIDE DEF q, new
<1>7. /\ q \in Seq(Row) /\ Len(q) = Len(p)
      /\ \A i \in 1..Len(p) : q[i] = IF i = Len(p) THEN new ELSE p[i]
  BY <1>1, <1>4, <1>5, <1>6, ExceptSeq
<1>8. \A i \in 1..L : q[d + i] = h.scrollback[i]
  <2>1. \A i \in 1..L : d + i \in 1..Len(p) /\ d + i # Len(p)
    BY <1>1, <1>2
  <2>2. QED BY <1>2, <1>3, <1>7, <2>1
<1>9. \A r \in 1 .. g.row + 1 : q[d + L + r] = h.cells[r]
  <2>1. \A r \in 1 .. g.row + 1 : /\ d + L + r \in 1..Len(p) /\ r \in 1..Rows
                                  /\ (d + L + r = Len(p)) <=> (r = g.row + 1)
    <3> SUFFICES ASSUME NEW r \in 1 .. g.row + 1
                 PROVE  /\ d + L + r \in 1..Len(p) /\ r \in 1..Rows
                        /\ (d + L + r = Len(p)) <=> (r = g.row + 1)
      OBVIOUS
    <3>1. r \in Nat /\ r >= 1 /\ r <= g.row + 1 /\ r \in 1..Rows
      BY <1>1, Sizes, SMTT(30)
    <3>2. QED BY <1>1, <3>1
  <2>2. QED BY <1>0, <1>2, <1>3, <1>7, <2>1
<1>10. \A r \in g.row + 2 .. Rows : h.cells[r] = Blank
  <2>1. \A r \in g.row + 2 .. Rows : r \in 1..Rows /\ r # g.row + 1
    BY <1>1, Sizes, SMTT(30)
  <2>2. QED BY <1>0, <1>2, <1>3, <2>1
<1>11. WholeScreen(h)
  BY <1>3 DEF WholeScreen
<1>12. Len(q) = d + L + h.row + 1 /\ Len(h.scrollback) = L /\ h.row \in Nat
  BY <1>1, <1>3, <1>7 DEF L
<1>13. Written(h, q)
  <2>1. /\ q \in Seq(Row) /\ L \in Nat /\ d \in Nat /\ h.row \in Nat
        /\ L = Len(h.scrollback) /\ Len(q) = d + L + h.row + 1
        /\ d > 0 => L = MaxScrollback
    BY <1>1, <1>2, <1>7, <1>12
  <2>2. /\ \A i \in 1..L : q[d + i] = h.scrollback[i]
        /\ \A r \in 1 .. h.row + 1 : q[d + L + r] = h.cells[r]
        /\ \A r \in h.row + 2 .. Rows : h.cells[r] = Blank
    BY <1>3, <1>8, <1>9, <1>10
  <2>3. QED BY ONLY <2>1, <2>2, WrittenIf
<1>14. QED BY <1>11, <1>13 DEF h, q

\* The column of the cursor is no part of what is written.
LEMMA ColumnWrites ==
  ASSUME NEW g \in Grids, NEW p, WholeScreen(g), Written(g, p), NEW col \in 0..Cols
  PROVE  LET h == [g EXCEPT !.col = col] IN WholeScreen(h) /\ Written(h, p)
<1> DEFINE h == [g EXCEPT !.col = col]
<1>1. /\ h.row = g.row /\ h.scrollback = g.scrollback /\ h.cells = g.cells
      /\ h.top = g.top /\ h.bottom = g.bottom
  BY DEF Grids, GridType
<1> HIDE DEF h
<1>2. WholeScreen(h) /\ Written(h, p)
  BY <1>1 DEF WholeScreen, Written
<1>3. QED BY <1>2 DEF h

\* A printed character goes to a new row exactly if a wrap was due.
LEMMA PutWrites ==
  ASSUME NEW g \in Grids, NEW p, WholeScreen(g), Written(g, p), NEW c \in Chars
  PROVE  LET rows == IF g.col >= Cols THEN Append(p, Blank) ELSE p
             col  == IF g.col >= Cols THEN 1 ELSE g.col + 1
         IN  WholeScreen(Put(g, c)) /\ Written(Put(g, c), [rows EXCEPT ![Len(rows)][col] = c])
<1> DEFINE f    == IF g.col >= Cols THEN LineFeed([g EXCEPT !.col = 0]) ELSE g
           rows == IF g.col >= Cols THEN Append(p, Blank) ELSE p
           col  == IF g.col >= Cols THEN 1 ELSE g.col + 1
<1>1. /\ f \in Grids /\ f.col \in 0 .. Cols - 1
      /\ Put(g, c) = [f EXCEPT !.cells[f.row + 1][f.col + 1] = c, !.col = f.col + 1]
  BY PutDoes
<1>2. WholeScreen(f) /\ Written(f, rows) /\ f.col + 1 = col
  <2>1. CASE g.col >= Cols
    <3> DEFINE e == [g EXCEPT !.col = 0]
    <3>1. 0 \in 0..Cols /\ g.row \in 0 .. Rows - 1
      BY GridFacts, Sizes
    <3>2. e \in Grids /\ e.col = 0
      BY <3>1, CursorMoved
    <3>3. WholeScreen(e) /\ Written(e, p)
      BY <3>1, ColumnWrites
    <3> HIDE DEF e
    <3>4. /\ WholeScreen(LineFeed(e)) /\ Written(LineFeed(e), Append(p, Blank))
          /\ LineFeed(e).col = 0
      BY <3>2, <3>3, LineFeedWrites, LineFeedDoes
    <3>5. f = LineFeed(e) /\ rows = Append(p, Blank) /\ col = 1
      BY <2>1 DEF e
    <3>6. QED BY <3>4, <3>5
  <2>2. CASE ~(g.col >= Cols)
    BY <2>2
  <2>3. QED BY <2>1, <2>2
<1> HIDE DEF f, rows, col
<1> DEFINE h == [f EXCEPT !.cells[f.row + 1][f.col + 1] = c, !.col = f.col + 1]
<1>3. WholeScreen(h) /\ Written(h, [rows EXCEPT ![Len(rows)][f.col + 1] = c])
  BY <1>1, <1>2, CharWrites
<1>4. QED BY <1>1, <1>2, <1>3 DEF rows, col

\* What a step leaves on the paper is the text's, if it was and nothing but text came.
LEMMA PaperStep == ASSUME TypeInv, PaperInv, Next PROVE PaperInv'
<1> SUFFICES ASSUME lineFed'
             PROVE  ~inAlternate' /\ WholeScreen(primary') /\ Written(primary', paper')
  BY DEF PaperInv, WholeScreen, Written
<1>1. \/ \E c \in Chars : Draw(c)
      \/ \E b \in {"LF", "CR", "BS", "HT"} : Execute(b)
  BY DEF Next, Move, EraseJ, EraseK, Decstbm, ScrollBy, Switch, Control, OffPaper
<1>2. lineFed
  BY <1>1 DEF Draw, Execute, OnPaper
<1>3. /\ ~inAlternate /\ WholeScreen(primary) /\ Written(primary, paper)
      /\ primary \in Grids /\ Active = primary
  BY <1>2 DEF PaperInv, TypeInv, Active
<1>4. CASE \E c \in Chars : Draw(c)
  <2>1. PICK c \in Chars : Draw(c)
    BY <1>4
  <2>2. primary' = Put(primary, c) /\ paper' = PaperWith(c) /\ inAlternate' = inAlternate
    BY <1>2, <1>3, <2>1 DEF Draw, OnActive, OnPaper
  <2>3. WholeScreen(Put(primary, c)) /\ Written(Put(primary, c), PaperWith(c))
    BY <1>3, PutWrites DEF PaperWith
  <2>4. QED BY <1>3, <2>2, <2>3
<1>5. CASE \E b \in {"LF", "CR", "BS", "HT"} : Execute(b)
  <2>1. PICK b \in {"LF", "CR", "BS", "HT"} : Execute(b)
    BY <1>5
  <2>2. /\ primary' = ExecuteOn(primary, b) /\ inAlternate' = inAlternate
        /\ paper' = IF b = "LF" THEN Append(paper, Blank) ELSE paper
    BY <1>2, <1>3, <2>1 DEF Execute, OnActive, OnPaper
  <2>3. CASE b = "LF"
    BY <1>3, <2>2, <2>3, ExecuteOnDoes, LineFeedWrites
  <2>4. CASE b # "LF"
    <3>1. PICK col \in 0..Cols : ExecuteOn(primary, b) = [primary EXCEPT !.col = col]
      BY <1>3, <2>4, ExecuteOnDoes
    <3>2. LET h == [primary EXCEPT !.col = col] IN WholeScreen(h) /\ Written(h, paper)
      BY <1>3, ColumnWrites
    <3>3. QED BY <1>3, <2>2, <2>4, <3>1, <3>2
  <2>5. QED BY <2>3, <2>4
<1>6. QED BY <1>1, <1>4, <1>5

\* While nothing but text and line ends has come, the main screen is shown, its region
\* is the whole screen, and it holds the end of what was written.
THEOREM PaperInvHolds == Spec => []PaperInv
<1>1. ASSUME Init PROVE PaperInv
  <2>1. <<Blank>> \in Seq(Row) /\ Len(<<Blank>>) = 1 /\ <<Blank>>[1] = Blank
    BY BlankIsRow
  <2> DEFINE p == <<Blank>>
  <2> HIDE DEF p
  <2>2. /\ p \in Seq(Row) /\ Len(p) = 0 + 0 + NewGrid.row + 1 /\ NewGrid.row = 0
        /\ 0 = Len(NewGrid.scrollback) /\ p[1] = Blank
    BY <2>1 DEF NewGrid, p
  <2>3. /\ \A r \in 1..Rows : NewGrid.cells[r] = Blank
        /\ NewGrid.top = 0 /\ NewGrid.bottom = Rows - 1
    BY DEF NewGrid
  <2>4. 1 \in 1..Rows /\ 0 \in Nat
    BY Sizes
  <2> DEFINE n == NewGrid
  <2> HIDE DEF n
  <2>5. \A r \in 1 .. n.row + 1 : p[0 + 0 + r] = n.cells[r]
    BY <2>2, <2>3, <2>4 DEF n
  <2>6. \A r \in n.row + 2 .. Rows : n.cells[r] = Blank
    BY <2>2, <2>3, Sizes DEF n
  <2>7. /\ p \in Seq(Row) /\ n.row \in Nat /\ 0 \in Nat
        /\ 0 = Len(n.scrollback) /\ Len(p) = 0 + 0 + n.row + 1
        /\ 0 > 0 => 0 = MaxScrollback
        /\ \A i \in 1..0 : p[0 + i] = n.scrollback[i]
    BY <2>2 DEF n
  <2>8. Written(n, p)
    BY ONLY <2>5, <2>6, <2>7, WrittenIf
  <2>9. QED BY <1>1, <2>3, <2>8 DEF Init, PaperInv, WholeScreen, n, p
<1>2. PaperInv /\ UNCHANGED vars => PaperInv'
  BY DEF PaperInv, vars, screenVars, WholeScreen, Written
<1>3. QED BY <1>1, <1>2, PaperStep, TypeInvHolds, PTL DEF Spec

\* However long the output of a target that only writes lines, and wherever its rows
\* wrapped: scrollback and screen are the end of it, and all of it while the scrollback
\* is not full (Grid::put, line_feed and scroll_region_up, screen.rs).
THEOREM TheTranscript == Spec => []Transcript
<1>1. ASSUME NEW g \in Grids, NEW p, Written(g, p)
      PROVE  /\ IsSuffix(History(g), p)
             /\ Len(p) > Len(History(g)) => Len(g.scrollback) = MaxScrollback
             /\ \A r \in g.row + 2 .. Rows : g.cells[r] = Blank
  <2> DEFINE L == Len(g.scrollback)
             d == Len(p) - (L + g.row + 1)
             shown == SubSeq(g.cells, 1, g.row + 1)
             s == History(g)
  <2>1. /\ L \in Nat /\ g.row \in Nat /\ g.row <= Rows - 1
        /\ p \in Seq(Row) /\ Len(p) \in Nat /\ d \in Nat /\ Len(p) = d + L + g.row + 1
    BY <1>1, WrittenFacts
  <2>2. /\ d > 0 => L = MaxScrollback
        /\ \A i \in 1..L : p[d + i] = g.scrollback[i]
        /\ \A r \in 1 .. g.row + 1 : p[d + L + r] = g.cells[r]
        /\ \A r \in g.row + 2 .. Rows : g.cells[r] = Blank
    BY <1>1, WrittenFacts
  <2>3. g.scrollback \in Seq(Row) /\ g.cells \in [1..Rows -> Row]
    BY <1>1, GridFacts
  <2> HIDE DEF L, d
  <2>4. /\ shown \in Seq(Row) /\ Len(shown) = g.row + 1
        /\ \A r \in 1 .. g.row + 1 : shown[r] = g.cells[r]
    <3>1. \A r \in 1 .. g.row + 1 : g.cells[r] \in Row
      BY <2>1, <2>3, Sizes
    <3>2. /\ shown \in Seq(Row)
          /\ Len(shown) = IF 1 <= g.row + 1 THEN g.row + 1 - 1 + 1 ELSE 0
          /\ \A r \in 1 .. g.row + 1 - 1 + 1 : shown[r] = g.cells[1 + r - 1]
      BY <2>1, <3>1, SubSeqProperties
    <3> HIDE DEF shown
    <3>3. QED BY <2>1, <3>2
  <2> HIDE DEF shown
  <2>5. /\ s \in Seq(Row) /\ Len(s) = L + g.row + 1
        /\ \A i \in 1 .. L + g.row + 1 : s[i] = IF i <= L THEN g.scrollback[i] ELSE shown[i - L]
    <3>1. s = g.scrollback \o shown
      BY DEF History, shown
    <3>2. /\ s \in Seq(Row) /\ Len(s) = L + Len(shown)
          /\ \A i \in 1 .. L + Len(shown) :
               s[i] = IF i <= L THEN g.scrollback[i] ELSE shown[i - L]
      <4>1. /\ g.scrollback \o shown \in Seq(Row)
            /\ Len(g.scrollback \o shown) = Len(g.scrollback) + Len(shown)
            /\ \A i \in 1 .. Len(g.scrollback) + Len(shown) :
                 (g.scrollback \o shown)[i] = IF i <= Len(g.scrollback) THEN g.scrollback[i]
                                             ELSE shown[i - Len(g.scrollback)]
        BY <2>3, <2>4, ConcatProperties
      <4> HIDE DEF s
      <4>2. QED BY <3>1, <4>1 DEF L
    <3> HIDE DEF s
    <3>3. QED BY <2>1, <2>4, <3>2
  <2> HIDE DEF s
  <2>6. Len(s) <= Len(p) /\ Len(p) - Len(s) = d
    BY <2>1, <2>5
  <2>7. \A i \in 1..Len(s) : s[i] = p[d + i]
    <3> SUFFICES ASSUME NEW i \in 1 .. L + g.row + 1 PROVE s[i] = p[d + i]
      BY <2>5
    <3>1. CASE i <= L
      BY <2>1, <2>2, <2>5, <3>1
    <3>2. CASE ~(i <= L)
      <4>1. i - L \in 1 .. g.row + 1 /\ d + L + (i - L) = d + i
        BY <2>1, <3>2
      <4>2. QED BY <2>2, <2>4, <2>5, <3>2, <4>1
    <3>3. QED BY <3>1, <3>2
  <2>8. IsSuffix(s, p)
    BY <2>1, <2>5, <2>6, <2>7, SuffixOf
  <2>9. Len(p) > Len(s) => d > 0
    BY <2>1, <2>5
  <2>10. QED BY <2>2, <2>8, <2>9 DEF s, L
<1>2. TypeInv /\ PaperInv => Transcript
  BY <1>1 DEF TypeInv, PaperInv, Transcript
<1>3. QED BY <1>2, TypeInvHolds, PaperInvHolds, PTL

-----------------------------------------------------------------------------
(* The text of a screen.                                                   *)

\* What is in a sequence is at one of its places.
LEMMA MembersOf ==
  ASSUME NEW S, NEW s \in Seq(S)
  PROVE  \A x : x \in ToSet(s) <=> \E i \in 1..Len(s) : s[i] = x
<1>1. DOMAIN s = 1..Len(s)
  BY LenProperties
<1>2. QED BY <1>1 DEF ToSet

\* Dropping the blank lines at the end drops no other line.
LEMMA DropBlanksDoes ==
  ASSUME NEW S, NEW s \in Seq(S)
  PROVE  \A x : x # <<>> => (x \in ToSet(DropBlanks(s)) <=> x \in ToSet(s))
<1> DEFINE n == Len(s)
           written == {i \in DOMAIN s : s[i] # <<>>}
           m == Max({0} \cup written)
           t == SubSeq(s, 1, m)
<1>1. n \in Nat /\ DOMAIN s = 1..n
  BY LenProperties
<1>2. {0} \cup written \in SUBSET (0..n) /\ {0} \cup written # {}
  BY <1>1
<1>3. m \in {0} \cup written /\ \A k \in {0} \cup written : m >= k
  <2> DEFINE W == {0} \cup written
  <2>1. W \in SUBSET (0..n) /\ W # {}
    BY <1>2
  <2> HIDE DEF W, n
  <2>2. Max(W) \in W /\ \A k \in W : Max(W) >= k
    BY <1>1, <2>1, MinMax
  <2>3. QED BY <2>2 DEF W
<1>4. DropBlanks(s) = t
  BY DEF DropBlanks
<1>5. m \in 0..n /\ \A i \in 1..n : s[i] # <<>> => i <= m
  <2>1. m \in 0..n
    BY <1>2, <1>3
  <2> HIDE DEF m
  <2>2. \A i \in 1..n : s[i] # <<>> => m >= i
    BY <1>1, <1>3
  <2>3. QED BY <1>1, <2>1, <2>2
<1> HIDE DEF m
<1>6. t \in Seq(S) /\ Len(t) = m /\ \A i \in 1..m : t[i] = s[i]
  <2>1. 1 \in 1 .. Len(s) + 1 /\ m \in 1 - 1 .. Len(s)
    BY <1>1, <1>5
  <2>2. /\ t \in Seq(S) /\ Len(t) = m - 1 + 1
        /\ \A i \in 1 .. m - 1 + 1 : t[i] = s[1 + i - 1]
    BY <2>1, CutOut
  <2> HIDE DEF t
  <2>3. QED BY <1>5, <2>2
<1> HIDE DEF t
<1>7. ASSUME NEW x, x # <<>> PROVE (\E i \in 1..m : t[i] = x) <=> (\E i \in 1..n : s[i] = x)
  BY <1>1, <1>5, <1>6, <1>7
<1>8. QED BY <1>4, <1>6, <1>7, MembersOf

\* The overlap is as long as it can be; what it says is that the newest lines of the
\* one are the first lines of the other.
LEMMA SeamOverlapIs ==
  ASSUME NEW S, NEW s \in Seq(S), NEW t \in Seq(S)
  PROVE  LET o == SeamOverlap(s, t)
         IN  /\ o \in Nat /\ o <= Len(s) /\ o <= Len(t)
             /\ \A i \in 1..o : s[Len(s) - o + i] = t[i]
<1> DEFINE m == Len(s)
           n == Len(t)
           most == AtMost(m, n)
           O == {0} \cup {l \in 1..most : Newest(s, l) = SubSeq(t, 1, l)}
           o == Max(O)
<1>1. m \in Nat /\ n \in Nat
  BY LenProperties
<1>2. most \in Nat /\ most <= m /\ most <= n
  BY <1>1 DEF AtMost
<1> HIDE DEF most
<1>3. O \in SUBSET (0..most) /\ O # {}
  BY <1>2
<1>4. o \in O
  <2> HIDE DEF O
  <2>1. QED BY <1>2, <1>3, MinMax
<1>5. SeamOverlap(s, t) = o
  BY DEF SeamOverlap, most
<1> HIDE DEF o
<1>6. /\ o \in Nat /\ o <= m /\ o <= n
      /\ o > 0 => Newest(s, o) = SubSeq(t, 1, o)
  BY <1>1, <1>2, <1>4
<1>7. ASSUME NEW i \in 1..o PROVE s[m - o + i] = t[i]
  <2>1. Newest(s, o) = SubSeq(t, 1, o)
    BY <1>6
  <2>2. o \in 0..Len(s) /\ 1 \in 1 .. Len(t) + 1 /\ o \in 1 - 1 .. Len(t)
    BY <1>1, <1>6
  <2>3. Newest(s, o)[i] = s[Len(s) - o + i]
    BY <2>2, NewestOf
  <2>4. /\ \A k \in 1 .. o - 1 + 1 : SubSeq(t, 1, o)[k] = t[1 + k - 1]
        /\ i \in 1 .. o - 1 + 1 /\ 1 + i - 1 = i
    BY <1>6, <2>2, CutOut
  <2>5. SubSeq(t, 1, o)[i] = t[i]
    BY <2>4
  <2>6. QED BY <2>1, <2>3, <2>5
<1>8. QED BY <1>1, <1>5, <1>6, <1>7

\* Two sequences one after the other.
LEMMA Joined ==
  ASSUME NEW S, NEW s \in Seq(S), NEW t \in Seq(S), NEW m, NEW n, m = Len(s), n = Len(t)
  PROVE  /\ s \o t \in Seq(S) /\ Len(s \o t) = m + n /\ m \in Nat /\ n \in Nat
         /\ \A i \in 1 .. m + n : (s \o t)[i] = IF i <= m THEN s[i] ELSE t[i - m]
  BY ConcatProperties, LenProperties

\* The lines of the scrollback s, then those of the screen t without the overlap of its
\* first written lines with the newest ones of s.
Reconciled(s, t) ==
    LET written == {r \in DOMAIN t : t[r] # <<>>}
        blanks  == IF written = {} THEN Len(t) ELSE Min(written) - 1
        shown   == SubSeq(t, blanks + 1, Len(t))
    IN  s \o SubSeq(t, 1, blanks) \o SubSeq(shown, SeamOverlap(s, shown) + 1, Len(shown))

\* Every line is still there, and lines that differ are all there and in their order.
LEMMA ReconciledDoes ==
  ASSUME NEW S, NEW s \in Seq(S), NEW t \in Seq(S)
  PROVE  /\ Reconciled(s, t) \in Seq(S)
         /\ \A x : x \in ToSet(Reconciled(s, t)) <=> x \in ToSet(s) \/ x \in ToSet(t)
         /\ (\A i, j \in DOMAIN (s \o t) :
                i # j /\ (s \o t)[i] # <<>> => (s \o t)[i] # (s \o t)[j])
            => Reconciled(s, t) = s \o t
<1> DEFINE m == Len(s)
           n == Len(t)
           written == {r \in DOMAIN t : t[r] # <<>>}
           b == IF written = {} THEN n ELSE Min(written) - 1
           shown == SubSeq(t, b + 1, n)
           o == SeamOverlap(s, shown)
           k == Len(shown)
           head == SubSeq(t, 1, b)
           rest == SubSeq(shown, o + 1, k)
           u == s \o head \o rest
<1>1. m \in Nat /\ n \in Nat /\ DOMAIN t = 1..n
  BY LenProperties
<1>2. /\ b \in Nat /\ b <= n
      /\ b < n => t[b + 1] # <<>>
  <2>1. CASE written = {}
    BY <1>1, <2>1
  <2>2. CASE written # {}
    <3>1. written \in SUBSET (0..n) /\ written \subseteq 1..n
      BY <1>1
    <3>2. Min(written) \in written
      <4> HIDE DEF written, n
      <4>1. QED BY <1>1, <2>2, <3>1, MinMax
    <3>3. Min(written) \in 1..n /\ t[Min(written)] # <<>>
      BY <3>1, <3>2
    <3>4. b = Min(written) - 1
      BY <2>2
    <3> HIDE DEF b, written, n
    <3>5. b \in Nat /\ b <= n /\ b + 1 = Min(written)
      BY <1>1, <3>3, <3>4
    <3>6. QED BY <3>3, <3>5
  <2>3. QED BY <2>1, <2>2
<1>3. Reconciled(s, t) = u
  BY DEF Reconciled
<1> HIDE DEF b
<1>4. /\ shown \in Seq(S) /\ k = n - b
      /\ \A i \in 1 .. n - b : shown[i] = t[b + i]
  <2>1. b + 1 \in 1 .. Len(t) + 1 /\ n \in b + 1 - 1 .. Len(t)
    BY <1>1, <1>2
  <2>2. /\ shown \in Seq(S) /\ Len(shown) = n - (b + 1) + 1
        /\ \A i \in 1 .. n - (b + 1) + 1 : shown[i] = t[b + 1 + i - 1]
    BY <2>1, CutOut
  <2> HIDE DEF shown, n
  <2>3. n - (b + 1) + 1 = n - b /\ \A i \in 1 .. n - b : b + 1 + i - 1 = b + i
    BY <1>1, <1>2
  <2>4. QED BY <2>2, <2>3
<1>5. /\ head \in Seq(S) /\ Len(head) = b
      /\ \A i \in 1..b : head[i] = t[i]
  <2>1. 1 \in 1 .. Len(t) + 1 /\ b \in 1 - 1 .. Len(t)
    BY <1>1, <1>2
  <2>2. /\ head \in Seq(S) /\ Len(head) = b - 1 + 1
        /\ \A i \in 1 .. b - 1 + 1 : head[i] = t[1 + i - 1]
    BY <2>1, CutOut
  <2> HIDE DEF head
  <2>3. QED BY <1>2, <2>2
<1> HIDE DEF shown, head
<1>6. /\ o \in Nat /\ o <= m /\ o <= n - b
      /\ \A i \in 1..o : s[m - o + i] = t[b + i]
  <2>1. /\ o \in Nat /\ o <= Len(s) /\ o <= Len(shown)
        /\ \A i \in 1..o : s[Len(s) - o + i] = shown[i]
    BY <1>4, SeamOverlapIs
  <2> HIDE DEF o
  <2>2. \A i \in 1..o : i \in 1 .. n - b
    BY <1>1, <1>2, <1>4, <2>1
  <2>3. QED BY <1>4, <2>1, <2>2
<1> HIDE DEF o
<1>7. /\ rest \in Seq(S) /\ Len(rest) = n - b - o
      /\ \A i \in 1 .. n - b - o : rest[i] = t[b + o + i]
  <2>0. Len(shown) = n - b
    BY <1>4
  <2>1. o + 1 \in 1 .. Len(shown) + 1 /\ k \in o + 1 - 1 .. Len(shown)
    BY <1>1, <1>2, <1>4, <1>6, <2>0
  <2>2. /\ rest \in Seq(S) /\ Len(rest) = k - (o + 1) + 1
        /\ \A i \in 1 .. k - (o + 1) + 1 : rest[i] = shown[o + 1 + i - 1]
    BY <1>4, <2>1, CutOut
  <2> HIDE DEF rest, n, k
  <2>3. /\ k - (o + 1) + 1 = n - b - o
        /\ \A i \in 1 .. n - b - o : o + 1 + i - 1 = o + i /\ o + i \in 1 .. n - b
                                     /\ b + (o + i) = b + o + i
    BY <1>1, <1>2, <1>4, <1>6
  <2>4. QED BY <1>4, <2>2, <2>3
<1> HIDE DEF rest
<1>8. /\ u \in Seq(S) /\ Len(u) = m + n - o
      /\ \A i \in 1 .. m + n - o : u[i] = IF i <= m THEN s[i]
                                         ELSE IF i <= m + b THEN t[i - m] ELSE t[i - m + o]
  <2>1. /\ s \o head \in Seq(S) /\ Len(s \o head) = m + b
        /\ \A i \in 1 .. m + b : (s \o head)[i] = IF i <= m THEN s[i] ELSE head[i - m]
    BY <1>5, Joined, SMTT(30)
  <2> DEFINE v == s \o head
  <2> HIDE DEF v, m, n
  <2>2. v \in Seq(S) /\ Len(v) = m + b
    BY <2>1 DEF v
  <2>3. /\ v \o rest \in Seq(S) /\ Len(v \o rest) = (m + b) + (n - b - o)
        /\ \A i \in 1 .. (m + b) + (n - b - o) :
             (v \o rest)[i] = IF i <= m + b THEN v[i] ELSE rest[i - (m + b)]
    BY <1>7, <2>2, Joined
  <2>4. (m + b) + (n - b - o) = m + n - o
    BY <1>1, <1>2, <1>6
  <2>5. u = v \o rest
    BY DEF v
  <2> HIDE DEF u
  <2>6. ASSUME NEW i \in 1 .. m + n - o
        PROVE  u[i] = IF i <= m THEN s[i] ELSE IF i <= m + b THEN t[i - m] ELSE t[i - m + o]
    <3>1. CASE i <= m
      <4>1. i \in 1 .. m + b /\ i <= m + b
        BY <1>1, <1>2, <1>6, <3>1
      <4>2. QED BY <2>1, <2>3, <2>4, <2>5, <3>1, <4>1 DEF v
    <3>2. CASE ~(i <= m) /\ i <= m + b
      <4>1. i \in 1 .. m + b /\ i - m \in 1..b
        BY <1>1, <1>2, <1>6, <3>2
      <4>2. QED BY <1>5, <2>1, <2>3, <2>4, <2>5, <3>2, <4>1 DEF v
    <3>3. CASE ~(i <= m) /\ ~(i <= m + b)
      <4>1. i - (m + b) \in 1 .. n - b - o /\ b + o + (i - (m + b)) = i - m + o
        BY <1>1, <1>2, <1>6, <3>3
      <4>2. u[i] = rest[i - (m + b)]
        BY <2>3, <2>4, <2>5, <3>3
      <4>3. QED BY <1>7, <3>3, <4>1, <4>2
    <3>4. QED BY <3>1, <3>2, <3>3
  <2>7. QED BY <2>3, <2>4, <2>5, <2>6
<1>9. /\ s \o t \in Seq(S) /\ Len(s \o t) = m + n
      /\ \A i \in 1 .. m + n : (s \o t)[i] = IF i <= m THEN s[i] ELSE t[i - m]
  BY Joined
<1> DEFINE w == s \o t
<1> HIDE DEF u, m, n, w
<1>10. ASSUME NEW x
       PROVE  (\E i \in 1 .. m + n - o : u[i] = x)
              <=> (\E i \in 1..m : s[i] = x) \/ (\E i \in 1..n : t[i] = x)
  <2>1. ASSUME NEW i \in 1 .. m + n - o, u[i] = x
        PROVE  (\E j \in 1..m : s[j] = x) \/ (\E j \in 1..n : t[j] = x)
    <3>1. CASE i <= m
      <4>1. i \in 1..m
        BY <1>1, <1>6, <3>1
      <4>2. QED BY <1>8, <2>1, <3>1, <4>1
    <3>2. CASE ~(i <= m) /\ i <= m + b
      <4>1. i - m \in 1..n
        BY <1>1, <1>2, <1>6, <3>2
      <4>2. QED BY <1>8, <2>1, <3>2, <4>1
    <3>3. CASE ~(i <= m) /\ ~(i <= m + b)
      <4>1. i - m + o \in 1..n
        BY <1>1, <1>2, <1>6, <3>3
      <4>2. QED BY <1>8, <2>1, <3>3, <4>1
    <3>4. QED BY <3>1, <3>2, <3>3
  <2>2. ASSUME NEW i \in 1..m, s[i] = x PROVE \E j \in 1 .. m + n - o : u[j] = x
    <3>1. i \in 1 .. m + n - o /\ i <= m
      BY <1>1, <1>2, <1>6
    <3>2. QED BY <1>8, <2>2, <3>1
  <2>3. ASSUME NEW r \in 1..n, t[r] = x PROVE \E j \in 1 .. m + n - o : u[j] = x
    <3>1. CASE r <= b
      <4> DEFINE j == m + r
      <4>1. j \in 1 .. m + n - o /\ ~(j <= m) /\ j <= m + b /\ j - m = r
        BY <1>1, <1>2, <1>6, <3>1
      <4> HIDE DEF j
      <4>2. u[j] = t[r]
        BY <1>8, <4>1
      <4>3. QED BY <2>3, <4>1, <4>2
    <3>2. CASE ~(r <= b) /\ r <= b + o
      <4>1. r - b \in 1..o /\ b + (r - b) = r /\ m - o + (r - b) \in 1..m
        BY <1>1, <1>2, <1>6, <3>2
      <4>2. s[m - o + (r - b)] = x
        BY <1>6, <2>3, <4>1
      <4>3. QED BY <2>2, <1>8, <1>1, <1>2, <1>6, <4>1, <4>2
    <3>3. CASE ~(r <= b + o)
      <4> DEFINE j == m + r - o
      <4>1. j \in 1 .. m + n - o /\ ~(j <= m) /\ ~(j <= m + b) /\ j - m + o = r
        BY <1>1, <1>2, <1>6, <3>3
      <4> HIDE DEF j
      <4>2. u[j] = t[r]
        BY <1>8, <4>1
      <4>3. QED BY <2>3, <4>1, <4>2
    <3>4. QED BY <1>2, <1>6, <3>1, <3>2, <3>3
  <2>4. QED BY <2>1, <2>2, <2>3
<1>11. \A x : x \in ToSet(u) <=> x \in ToSet(s) \/ x \in ToSet(t)
  <2>1. /\ \A x : x \in ToSet(u) <=> \E i \in 1 .. m + n - o : u[i] = x
        /\ \A x : x \in ToSet(s) <=> \E i \in 1..m : s[i] = x
        /\ \A x : x \in ToSet(t) <=> \E i \in 1..n : t[i] = x
    BY <1>8, MembersOf DEF m, n
  <2>2. QED BY ONLY <1>10, <2>1
<1>12. ASSUME \A i, j \in DOMAIN w : i # j /\ w[i] # <<>> => w[i] # w[j]
       PROVE  u = w
  <2>1. w \in Seq(S) /\ Len(w) = m + n /\ DOMAIN w = 1 .. m + n
    BY <1>9, LenProperties DEF w
  <2>2. \A i \in 1 .. m + n : w[i] = IF i <= m THEN s[i] ELSE t[i - m]
    BY <1>9 DEF w
  <2>3. o = 0
    <3> SUFFICES ASSUME o > 0 PROVE FALSE
      BY <1>6
    <3>1. /\ m - o + 1 \in 1 .. m + n /\ m - o + 1 <= m /\ m + (b + 1) \in 1 .. m + n
          /\ ~(m + (b + 1) <= m) /\ m + (b + 1) - m = b + 1 /\ m - o + 1 # m + (b + 1)
          /\ b < n /\ 1 \in 1..o
      BY <1>1, <1>2, <1>6
    <3> DEFINE i == m - o + 1
               j == m + (b + 1)
    <3>2. s[i] = t[b + 1] /\ t[b + 1] # <<>>
      BY <1>2, <1>6, <3>1
    <3>3. /\ i \in 1 .. m + n /\ i <= m /\ j \in 1 .. m + n /\ ~(j <= m)
          /\ j - m = b + 1 /\ i # j
      BY <1>1, <1>2, <1>6, <3>1
    <3> HIDE DEF i, j
    <3>4. w[i] = s[i] /\ w[j] = t[b + 1]
      BY <2>2, <3>3
    <3>5. QED BY <1>12, <2>1, <3>2, <3>3, <3>4
  <2>4. m + n - o = m + n /\ \A i \in 1 .. m + n : i - m + o = i - m
    BY <1>1, <2>3
  <2>5. Len(u) = Len(w) /\ \A i \in 1..Len(u) : u[i] = w[i]
    BY <1>8, <2>1, <2>2, <2>4
  <2>6. QED BY <1>8, <2>1, <2>5, SeqEqual
<1>13. QED BY <1>3, <1>8, <1>11, <1>12 DEF w

\* The text of a screen is reconciled from the lines of its scrollback and of its rows,
\* and the lines of both are those of the rows one after the other.
LEMMA FullTextIs ==
  ASSUME NEW g \in Grids
  PROVE  LET s == Trimmed(g.scrollback)
             t == Trimmed(g.cells)
             Line == {TrimEnd(r) : r \in Row}
         IN  /\ s \in Seq(Line) /\ t \in Seq(Line)
             /\ FullText(g) = DropBlanks(Reconciled(s, t))
             /\ Trimmed(g.scrollback \o g.cells) = s \o t
             /\ g.scrollback \o g.cells \in Seq(Row)
<1> DEFINE a == g.scrollback
           z == g.cells
           s == Trimmed(a)
           t == Trimmed(z)
           Line == {TrimEnd(r) : r \in Row}
           m == Len(a)
<1>1. /\ a \in Seq(Row) /\ m \in Nat /\ DOMAIN a = 1..m /\ \A i \in 1..m : a[i] \in Row
  BY GridFacts, LenProperties, ElementOfSeq
<1>2. /\ z \in Seq(Row) /\ Len(z) = Rows /\ DOMAIN z = 1..Rows
      /\ \A i \in 1..Rows : z[i] \in Row
  <2>1. z \in [1..Rows -> Row]
    BY GridFacts
  <2>2. z \in Seq(Row)
    BY <2>1, Sizes, SeqDef
  <2>3. Len(z) = Rows
    BY <2>1, <2>2, Sizes, LenProperties
  <2>4. QED BY <2>1, <2>2, <2>3
<1>3. \A r \in Row : TrimEnd(r) \in Line
  OBVIOUS
<1> HIDE DEF a, z, m, Line
<1>4. s = [i \in 1..m |-> TrimEnd(a[i])] /\ t = [i \in 1..Rows |-> TrimEnd(z[i])]
  BY <1>1, <1>2 DEF Trimmed
<1> HIDE DEF s, t
<1>5. s \in [1..m -> Line] /\ t \in [1..Rows -> Line]
  BY <1>1, <1>2, <1>3, <1>4
<1>6. s \in Seq(Line) /\ t \in Seq(Line)
  BY <1>1, <1>5, Sizes, SeqDef
<1>7. Len(s) = m /\ Len(t) = Rows
  BY <1>1, <1>5, <1>6, Sizes, LenProperties
<1>8. FullText(g) = DropBlanks(Reconciled(s, t))
  BY <1>7 DEF FullText, Reconciled, s, t, a, z
<1>9. /\ a \o z \in Seq(Row) /\ Len(a \o z) = m + Rows
      /\ \A i \in 1 .. m + Rows : (a \o z)[i] = IF i <= m THEN a[i] ELSE z[i - m]
  BY <1>1, <1>2, Joined DEF m
<1>10. /\ s \o t \in Seq(Line) /\ Len(s \o t) = m + Rows
       /\ \A i \in 1 .. m + Rows : (s \o t)[i] = IF i <= m THEN s[i] ELSE t[i - m]
  BY <1>6, <1>7, Joined
<1> DEFINE w == a \o z
           v == s \o t
<1>11. w \in Seq(Row) /\ DOMAIN w = 1 .. m + Rows /\ v \in Seq(Line) /\ DOMAIN v = 1 .. m + Rows
  BY <1>9, <1>10, LenProperties
<1>12. \A i \in 1 .. m + Rows : v[i] = TrimEnd(w[i])
  <2> SUFFICES ASSUME NEW i \in 1 .. m + Rows PROVE v[i] = TrimEnd(w[i])
    OBVIOUS
  <2>1. CASE i <= m
    <3>1. i \in 1..m
      BY <1>1, <2>1
    <3>2. QED BY <1>4, <1>9, <1>10, <2>1, <3>1
  <2>2. CASE ~(i <= m)
    <3>1. i - m \in 1..Rows
      BY <1>1, <2>2, Sizes
    <3>2. QED BY <1>4, <1>9, <1>10, <2>2, <3>1
  <2>3. QED BY <2>1, <2>2
<1> HIDE DEF w, v
<1>13. v = [i \in 1 .. m + Rows |-> TrimEnd(w[i])]
  <2>1. v = [i \in DOMAIN v |-> v[i]]
    BY <1>11
  <2>2. QED BY <1>11, <1>12, <2>1
<1>14. Trimmed(w) = v
  BY <1>11, <1>13 DEF Trimmed
<1>15. QED BY <1>6, <1>8, <1>11, <1>14 DEF w, v, s, t, a, z, Line

\* Whatever the scrollback and the screen have in common, no line of either is lost from
\* the text, and lines that were written once are neither lost nor moved: the seam
\* drops only what the scrollback holds already (render_full, screen.rs).
THEOREM NothingIsLost == Spec => []FullTextLosesNothing
<1>1. ASSUME NEW g \in Grids
      PROVE  LET rows == g.scrollback \o g.cells
                 ls   == Trimmed(rows)
                 distinct == \A i, j \in DOMAIN ls : i # j /\ ls[i] # <<>> => ls[i] # ls[j]
             IN  /\ ToSet(FullText(g)) \ {<<>>} = Lines(rows)
                 /\ distinct => FullText(g) = DropBlanks(ls)
  <2> DEFINE s == Trimmed(g.scrollback)
             t == Trimmed(g.cells)
             u == Reconciled(s, t)
             rows == g.scrollback \o g.cells
             ls == Trimmed(rows)
             Line == {TrimEnd(r) : r \in Row}
  <2>1. /\ s \in Seq(Line) /\ t \in Seq(Line) /\ FullText(g) = DropBlanks(u)
        /\ ls = s \o t /\ rows \in Seq(Row)
    BY FullTextIs
  <2> HIDE DEF Line, rows
  <2>2. \A x : x \in Lines(rows) <=> x \in ToSet(ls) /\ x # <<>>
    <3>1. DOMAIN ls = DOMAIN rows /\ \A i \in DOMAIN rows : ls[i] = TrimEnd(rows[i])
      BY DEF Trimmed
    <3> HIDE DEF ls
    <3>2. ToSet(ls) = {TrimEnd(rows[i]) : i \in DOMAIN rows}
      BY <3>1 DEF ToSet
    <3>3. QED BY <3>2 DEF Lines
  <2> HIDE DEF s, t, u, ls
  <2>3. \A x : x \in ToSet(ls) <=> x \in ToSet(s) \/ x \in ToSet(t)
    <3>1. /\ s \o t \in Seq(Line) /\ Len(s) \in Nat /\ Len(t) \in Nat
          /\ Len(s \o t) = Len(s) + Len(t)
          /\ \A i \in 1 .. Len(s) + Len(t) :
               (s \o t)[i] = IF i <= Len(s) THEN s[i] ELSE t[i - Len(s)]
      BY <2>1, Joined
    <3> DEFINE m == Len(s)
               n == Len(t)
               v == s \o t
    <3> HIDE DEF m, n, v
    <3>2. /\ v \in Seq(Line) /\ m \in Nat /\ n \in Nat /\ Len(v) = m + n
          /\ \A i \in 1 .. m + n : v[i] = IF i <= m THEN s[i] ELSE t[i - m]
      BY <3>1 DEF m, n, v
    <3>3. ASSUME NEW x
          PROVE  (\E i \in 1 .. m + n : v[i] = x)
                 <=> (\E i \in 1..m : s[i] = x) \/ (\E i \in 1..n : t[i] = x)
      <4>1. ASSUME NEW i \in 1 .. m + n, v[i] = x
            PROVE  (\E j \in 1..m : s[j] = x) \/ (\E j \in 1..n : t[j] = x)
        <5>1. CASE i <= m
          <6>1. i \in 1..m
            BY <3>2, <5>1
          <6>2. QED BY <3>2, <4>1, <5>1, <6>1
        <5>2. CASE ~(i <= m)
          <6>1. i - m \in 1..n
            BY <3>2, <5>2
          <6>2. QED BY <3>2, <4>1, <5>2, <6>1
        <5>3. QED BY <5>1, <5>2
      <4>2. ASSUME NEW i \in 1..m, s[i] = x PROVE \E j \in 1 .. m + n : v[j] = x
        <5>1. i \in 1 .. m + n /\ i <= m
          BY <3>2
        <5>2. QED BY <3>2, <4>2, <5>1
      <4>3. ASSUME NEW r \in 1..n, t[r] = x PROVE \E j \in 1 .. m + n : v[j] = x
        <5> DEFINE j == m + r
        <5>1. j \in 1 .. m + n /\ ~(j <= m) /\ j - m = r
          BY <3>2
        <5> HIDE DEF j
        <5>2. QED BY <3>2, <4>3, <5>1
      <4>4. QED BY <4>1, <4>2, <4>3
    <3>4. /\ \A x : x \in ToSet(v) <=> \E i \in 1 .. m + n : v[i] = x
          /\ \A x : x \in ToSet(s) <=> \E i \in 1..m : s[i] = x
          /\ \A x : x \in ToSet(t) <=> \E i \in 1..n : t[i] = x
      BY <2>1, <3>2, MembersOf DEF m, n
    <3>5. \A x : x \in ToSet(v) <=> x \in ToSet(s) \/ x \in ToSet(t)
      BY ONLY <3>3, <3>4
    <3>6. QED BY <2>1, <3>5 DEF v
  <2>4. /\ u \in Seq(Line)
        /\ \A x : x \in ToSet(u) <=> x \in ToSet(s) \/ x \in ToSet(t)
        /\ (\A i, j \in DOMAIN (s \o t) :
               i # j /\ (s \o t)[i] # <<>> => (s \o t)[i] # (s \o t)[j]) => u = s \o t
    BY <2>1, ReconciledDoes DEF u
  <2>5. \A x : x # <<>> => (x \in ToSet(FullText(g)) <=> x \in ToSet(u))
    BY <2>1, <2>4, DropBlanksDoes
  <2>6. ToSet(FullText(g)) \ {<<>>} = Lines(rows)
    <3>1. \A x : x \in ToSet(FullText(g)) \ {<<>>} <=> x \in Lines(rows)
      BY <2>2, <2>3, <2>4, <2>5
    <3>2. QED BY <3>1
  <2>7. (\A i, j \in DOMAIN ls : i # j /\ ls[i] # <<>> => ls[i] # ls[j])
        => FullText(g) = DropBlanks(ls)
    BY <2>1, <2>4
  <2>8. QED BY <2>6, <2>7 DEF ls, rows
<1>2. TypeInv => FullTextLosesNothing
  BY <1>1 DEF TypeInv, FullTextLosesNothing
<1>3. QED BY <1>2, TypeInvHolds, PTL
=============================================================================
