------------------------------ MODULE Structural ------------------------------
(***************************************************************************)
(* src/src/extract.rs: the reply as the chrome of a known CLI delimits it, *)
(* for a target that omitted the markers. A line is a sequence of tokens,  *)
(* here                                                                    *)
(*   sp      a space                  dot     the bullet of an answer      *)
(*   prompt  the sign of a prompt     mark    claude's status or mode sign *)
(*   rule    a horizontal rule        status  words of a status line       *)
(*   banner  words of a banner        long    more text than a line has    *)
(* where words stand for those that every table of the code knows.         *)
(***************************************************************************)
EXTENDS Integers, SequencesExt

None == <<>>
Some(text) == <<text>>

Blanks == {"sp", "nl"}

\* `trim`
Trim(text) ==
    LET kept == {i \in DOMAIN text : text[i] \notin Blanks}
    IN  IF kept = {} THEN <<>> ELSE SubSeq(text, Min(kept), Max(kept))

Blank(line)     == Trim(line) = <<>>
Indent(line)    == Max({n \in 0 .. Len(line) : \A i \in 1..n : line[i] = "sp"})
Dedent(line, n) == SubSeq(line, (IF Indent(line) < n THEN Indent(line) ELSE n) + 1, Len(line))
Starts(line)    == IF Blank(line) THEN {} ELSE {Trim(line)[1]}

\* Where the lines of a text end: a line end at its end begins no further line.
LineEnds(text) ==
    {i \in DOMAIN text : text[i] = "nl"}
      \cup (IF text # <<>> /\ Last(text) # "nl" THEN {Len(text) + 1} ELSE {})

Line(text, end) ==
    SubSeq(text, Max({0} \cup {e \in LineEnds(text) : e < end}) + 1, end - 1)

\* The lines of a text, and back.
LinesOf(text) ==
    LET UpTo[i \in 0 .. Len(text) + 1] ==
            IF i = 0 THEN <<>>
            ELSE IF i \in LineEnds(text) THEN Append(UpTo[i - 1], Line(text, i)) ELSE UpTo[i - 1]
    IN  UpTo[Len(text) + 1]
Join(lines) ==
    FlattenSeq([i \in DOMAIN lines |-> IF i = 1 THEN lines[i] ELSE <<"nl">> \o lines[i]])

\* `finish`: without the blank lines around; nothing when nothing is left.
Finish(lines) ==
    LET full == {i \in DOMAIN lines : ~Blank(lines[i])}
    IN  IF full = {} THEN None ELSE Some(Join(SubSeq(lines, Min(full), Max(full))))

\* `is_codex_chrome`
CodexChrome(line) == Starts(line) \cap {"prompt", "rule"} # {} \/ "status" \in ToSet(line)

\* `is_claude_bottom_chrome`
ClaudeChrome(line) ==
    \/ Starts(line) \cap {"prompt", "mark"} # {}
    \/ "status" \in ToSet(line)
    \/ Trim(line) = <<"rule">>

\* `is_claude_banner`
ClaudeBanner(line) == "banner" \in ToSet(line)

\* The lines that begin with a bullet and a space.
Bullets(lines) ==
    {i \in DOMAIN lines : LET t == Dedent(lines[i], Len(lines[i]))
                          IN  t = <<"dot">> \/ IsPrefix(<<"dot", "sp">>, t)}

BulletText(line) == LET t == Tail(Dedent(line, Len(line))) IN Dedent(t, Len(t))

\* The lines first..last as the reply has them.
Dedented(lines, first, last) ==
    [k \in 1 .. last - first + 1 |-> LET line == lines[first + k - 1]
                                     IN  IF Blank(line) THEN <<>> ELSE Dedent(line, 2)]

\* Mutant of AnswerStart: the first bullet counts.
AnswerStartFirst(lines) == Min(Bullets(lines))

\* The line the answer starts at: the last bullet.
AnswerStart(lines) == Max(Bullets(lines))

\* From its start down to the first line that ends the reply.
FromBullet(lines, Ends(_)) ==
    LET start == AnswerStart(lines)
        ends  == {i \in start + 1 .. Len(lines) : ~Blank(lines[i]) /\ Ends(lines[i])}
    IN  Finish(<<BulletText(lines[start])>>
                 \o Dedented(lines, start + 1, Min(ends \cup {Len(lines) + 1}) - 1))

\* `extract_codex`
ExtractCodex(lines) ==
    IF Bullets(lines) = {} THEN None
    ELSE FromBullet(lines, LAMBDA line : CodexChrome(line) \/ Indent(line) < 2)

\* `extract_claude` without a bullet: the indented lines above the bottom chrome.
AboveChrome(lines) ==
    LET last  == Max({0} \cup {i \in DOMAIN lines : ~Blank(lines[i]) /\ ~ClaudeChrome(lines[i])})
        stops == {i \in 1..last : /\ ~Blank(lines[i])
                                  /\ \/ ClaudeBanner(lines[i])
                                     \/ "prompt" \in Starts(lines[i])
                                     \/ Indent(lines[i]) < 2}
    IN  Finish(Dedented(lines, Max({0} \cup stops) + 1, last))

\* `extract_claude`
ExtractClaude(lines) ==
    IF Bullets(lines) = {} THEN AboveChrome(lines)
    ELSE FromBullet(lines, LAMBDA line : ClaudeChrome(line) \/ ClaudeBanner(line))

ExtractForTarget(program, lines) ==
    CASE program = "claude" -> ExtractClaude(lines)
      [] program = "codex"  -> ExtractCodex(lines)
      [] OTHER              -> None

Unclean == {"prompt", "mark", "rule", "dot", "status", "banner", "long", "B", "E"}

\* `looks_clean`
LooksClean(text) == ~Blank(text) /\ ToSet(text) \cap Unclean = {}
=============================================================================
