-------------------------------- MODULE Extract --------------------------------
(***************************************************************************)
(* src/src/extract.rs: the reply, from the screen and from the target's    *)
(* JSONL transcript. Text is a sequence of tokens, those of Structural and *)
(*   B, E   the markers of the run        n, u   letters                   *)
(*   nl     a line end                                                     *)
(*   qt, bs a quote, a backslash          ctl    a control character       *)
(*   astral a character beyond U+FFFF     lone   half of such a character  *)
(* and JSON adds K, the key `"text":"` with its opening quote, x, any      *)
(* other structure, and the four digits HI, LO (surrogates), CU (others).  *)
(***************************************************************************)
EXTENDS Structural

CONSTANTS
    Pieces,       \* what replies are composed of
    TornInText,   \* may the transcript end inside a text that names the marker?
    AnswerLines,  \* the lines of answers without markers
    MaxPieces, MaxTurns, MaxRows   \* bounds of the instance

\* What replies and answers are made of.
Characters == {"sp", "nl", "n", "u", "B", "E", "qt", "bs", "ctl", "astral", "lone"}
Words      == {"sp", "text", "dot", "prompt", "mark", "rule", "status", "banner", "long"}

ASSUME ExtractAssumption ==
    /\ Pieces \subseteq Seq(Characters) /\ AnswerLines \subseteq Seq(Words)
    /\ TornInText \in BOOLEAN /\ {MaxPieces, MaxTurns, MaxRows} \subseteq Nat

\* A screen trims the ends of its rows (`Screen::text`), so that a blank line is empty.
ASSUME RowsAreTrimmed == \A line \in AnswerLines : Blank(line) => line = <<>>

VARIABLES
    program,  \* a target that omits the markers, or one that is unknown
    screen,   \* the rendered transcript
    file,     \* the lines of the target's JSONL file
    torn,     \* whether the last line is cut short
    \* The replies completed on the screen and, whole, in the file.
    shown, saved,
    \* The answers without markers, as far as they are on the screen.
    drawn

fencedVars == <<file, torn, shown, saved>>
vars       == <<program, screen, fencedVars, drawn>>

Body == {FlattenSeq(ps) : ps \in UNION {[1..n -> Pieces] : n \in 0..MaxPieces}}

-----------------------------------------------------------------------------
(* Fences.                                                                 *)

\* Only spaces separate position p from the end of its line.
AtLineEnd(text, p) ==
    \A q \in p .. Len(text) :
        (\A i \in p .. q - 1 : text[i] = "sp") => text[q] \in {"sp", "nl"}

\* Mutant of Fences: any mention of a marker counts.
FencesAnywhere(text, marker, limit) == {p \in 1 .. limit - 1 : text[p] = marker}

Fences(text, marker, limit) ==
    {p \in 1 .. limit - 1 : text[p] = marker /\ AtLineEnd(text, p + 1)}

\* A reply may name the markers, but it has no line that ends in the opening one: that
\* would be taken for its beginning.
ASSUME BodiesDoNotOpen ==
    \A piece \in Pieces : \A p \in DOMAIN piece : piece[p] = "B" => ~AtLineEnd(piece, p + 1)

\* `extract_between`: the last END on its own, and the last BEGIN before it.
ExtractBetween(text) ==
    LET ends == Fences(text, "E", Len(text) + 1)
    IN  IF ends = {} THEN None
        ELSE LET begins == Fences(text, "B", Max(ends))
             IN  IF begins = {} THEN None
                 ELSE Some(Trim(SubSeq(text, Max(begins) + 1, Max(ends) - 1)))

\* `choose_reply` with the structural fallback allowed.
ChooseReply(text) ==
    LET slice == ExtractForTarget(program, LinesOf(text))
    IN  CASE ExtractBetween(text) # None -> ExtractBetween(text)
          [] ExtractBetween(text) = None /\ slice # None ->
               IF LooksClean(slice[1]) THEN slice ELSE None
          [] ExtractBetween(text) = None /\ slice = None -> None

-----------------------------------------------------------------------------
(* JSON.                                                                   *)

\* The writer of the transcript: a JSON serializer that escapes what it must.
EncodeToken(c) ==
    CASE c = "nl"     -> <<"bs", "n">>
      [] c = "qt"     -> <<"bs", "qt">>
      [] c = "bs"     -> <<"bs", "bs">>
      [] c = "ctl"    -> <<"bs", "u", "CU">>
      [] c = "astral" -> <<"bs", "u", "HI", "bs", "u", "LO">>
      [] c = "lone"   -> <<"bs", "u", "HI">>
      [] OTHER        -> <<c>>

Encode(text) == FlattenSeq([i \in DOMAIN text |-> EncodeToken(text[i])])
Block(text)  == <<"K">> \o Encode(text) \o <<"qt", "x">>

At(s, i) == IF i \in DOMAIN s THEN s[i] ELSE "end"

\* `json_unescape` of a high surrogate, with the rest of the text behind it: a
\* backslash and the character after it are consumed whatever they are, and a second
\* escape is taken for the low half without a look at its value.
LowHalf(s, i) == [skip |-> IF At(s, i) # "bs" THEN 0 ELSE IF At(s, i + 1) # "u" THEN 2 ELSE 3,
                  char |-> IF At(s, i) # "bs" \/ At(s, i + 1) # "u" THEN <<>>
                           ELSE CASE At(s, i + 2) = "LO"         -> <<"astral">>
                                  [] At(s, i + 2) \in {"HI", "CU"} -> <<"garbled">>
                                  [] OTHER                       -> <<>>]

\* `json_unescape`: what one escape at position i becomes and how much it takes.
EscapeAt(s, i) ==
    LET c == At(s, i + 1)   unit == At(s, i + 2)
    IN  CASE c = "end"                  -> [skip |-> 1, char |-> <<>>]
          [] c = "n"                    -> [skip |-> 2, char |-> <<"nl">>]
          [] c = "u" /\ unit = "HI"     -> [skip |-> 3 + LowHalf(s, i + 3).skip,
                                            char |-> LowHalf(s, i + 3).char]
          [] c = "u" /\ unit = "CU"     -> [skip |-> 3, char |-> <<"ctl">>]
          [] c = "u" /\ unit \notin {"HI", "CU"} -> [skip |-> 3, char |-> <<>>]
          [] c \notin {"end", "n", "u"} -> [skip |-> 2, char |-> <<c>>]

\* What the first i characters yield, and where the next one to read is.
Unescape(s) ==
    LET Read[i \in 0 .. Len(s)] ==
            IF i = 0 THEN [text |-> <<>>, next |-> 1]
            ELSE LET read == Read[i - 1]
                 IN  CASE i < read.next -> read
                       [] i >= read.next /\ s[i] # "bs" ->
                            [text |-> Append(read.text, s[i]), next |-> i + 1]
                       [] i >= read.next /\ s[i] = "bs" ->
                            [text |-> read.text \o EscapeAt(s, i).char,
                             next |-> i + EscapeAt(s, i).skip]
    IN  Read[Len(s)].text

\* Whether the character at i is escaped by the backslash before it, in the text that
\* starts at `start`.
Escaped(line, start, i) ==
    LET Esc[j \in 0 .. Len(line)] == j > start /\ line[j - 1] = "bs" /\ ~Esc[j - 1]
    IN  Esc[i]

\* Mutant of Closing: the first quote ends the text, escaped or not.
ClosingFirst(line, start) == {i \in start .. Len(line) : line[i] = "qt"}

\* The quotes that may end the text that starts at `start`.
Closing(line, start) ==
    {i \in start .. Len(line) : line[i] = "qt" /\ ~Escaped(line, start, i)}

\* `text_values`: where the texts of a line start, and the text that starts there. A
\* text without an end is sliced past the end of its line when the next one is looked
\* for, and that panics.
TextStarts(line)    == {i \in 2 .. Len(line) + 1 : line[i - 1] = "K"}
TextAt(line, start) == Unescape(SubSeq(line, start, Min(Closing(line, start)) - 1))
Panics(line)        == \E i \in TextStarts(line) : Closing(line, i) = {}

\* The first option that is not None.
FirstOf(options) ==
    IF \E i \in DOMAIN options : options[i] # None
      THEN options[Min({i \in DOMAIN options : options[i] # None})]
      ELSE None

\* The texts of a line that hold a fence.
FencedTexts(line) == {i \in TextStarts(line) : ExtractBetween(TextAt(line, i)) # None}

\* What one line of the transcript yields, if it names the marker.
ReplyOfLine(line) ==
    IF "B" \notin ToSet(line) \/ Panics(line) \/ FencedTexts(line) = {} THEN None
    ELSE ExtractBetween(TextAt(line, Min(FencedTexts(line))))

\* `reply_from_jsonl_text`: the first line with a fence; lines behind it are not read.
ReplyFromJsonl == FirstOf([i \in DOMAIN file |-> ReplyOfLine(file[i])])

ReadingPanics ==
    \E i \in DOMAIN file : /\ "B" \in ToSet(file[i]) /\ Panics(file[i])
                           /\ \A h \in 1 .. i - 1 : ReplyOfLine(file[h]) = None

-----------------------------------------------------------------------------
(* The target, which the code only reads.                                  *)

Init ==
    /\ program \in {"unknown", "claude", "codex"}
    /\ screen = <<>> /\ file = <<>> /\ torn = FALSE
    /\ shown = <<>> /\ saved = <<>> /\ drawn = <<>>

\* Another message of a target that writes the markers.
Message == Len(file) < MaxTurns /\ UNCHANGED <<program, drawn>>

Instruction(marker) == <<marker, "sp", "n">>

\* The instruction is echoed or quoted: a marker with prose behind it on its line.
Mention(marker) ==
    /\ Message
    /\ screen' = screen \o Instruction(marker) \o <<"nl">>
    /\ file' = Append(file, <<"x">> \o Block(Instruction(marker)))
    /\ UNCHANGED <<torn, shown, saved>>

Fence(body, pad) == <<"B">> \o pad \o <<"nl">> \o body \o <<"nl", "E">> \o pad

\* A fenced reply; a terminal may pad the marker's line with spaces, and the same
\* message may quote the instruction in a block of its own first.
Answer(body, pad, quoted) ==
    /\ Message
    /\ LET fence == Fence(body, pad)
           quote == IF quoted THEN Instruction("B") ELSE <<>>
       IN  /\ screen' = screen \o quote \o <<"nl">> \o fence \o <<"nl">>
           /\ file' = Append(file, <<"x">> \o Block(quote) \o Block(fence))
    /\ shown' = Append(shown, body) /\ saved' = Append(saved, body)
    /\ UNCHANGED torn

\* A reply cut off before its end, on the screen and as the file's last message.
Abandon(body) ==
    /\ Message
    /\ "E" \notin ToSet(body)
    /\ screen' = screen \o <<"B", "nl">> \o body \o <<"nl">>
    /\ file' = Append(file, <<"x">> \o Block(<<"B", "nl">> \o body))
    /\ UNCHANGED <<torn, shown, saved>>

\* Whether the text that is open at the end of the line names the marker.
OpenOnMarker(line) == "B" \in ToSet(line) /\ Panics(line)

\* The target stops, or is killed, while it writes its last line.
Tear(k) ==
    /\ LET line == Last(file)   cut == SubSeq(line, 1, k)
       IN  /\ TornInText \/ ~OpenOnMarker(cut)
           /\ file' = [file EXCEPT ![Len(file)] = cut]
           /\ saved' = IF FencedTexts(line) # {} /\ k < Len(line) - 1
                         THEN Front(saved) ELSE saved
    /\ torn' = TRUE
    /\ UNCHANGED <<program, screen, shown, drawn>>

\* What an answer's lines say differs from the answer that is on the screen before it.
Worded(lines) ==
    LET letter == IF "a" \in ToSet(screen) THEN "b" ELSE "a"
    IN  [k \in DOMAIN lines |-> [i \in DOMAIN lines[k] |->
            IF lines[k][i] = "text" THEN letter ELSE lines[k][i]]]

\* A turn of a CLI that omits the markers: the prompt with its instruction, the answer
\* with its bullet and the rest indented, the chrome below.
Draw(answer) ==
    /\ Len(drawn) < MaxTurns
    /\ screen' = screen \o Join(
           << <<"prompt", "sp", "n", "sp", "B">> \o <<"sp", "n">>,
              <<"sp", "sp", "n", "sp", "E", "sp", "n">>, <<>>, <<"dot", "sp">> \o answer[1] >>
           \o [k \in 1 .. Len(answer) - 1 |->
                 IF answer[k + 1] = <<>> THEN <<>> ELSE <<"sp", "sp">> \o answer[k + 1]]
           \o << <<>>, IF program = "claude" THEN <<"mark">> ELSE <<"status">>,
                 <<"rule">>, <<"prompt">>, <<>> >>)
    /\ drawn' = Append(drawn, answer)
    /\ UNCHANGED <<program, fencedVars>>

\* Everything down to the last bullet has scrolled off.
ScrollOff ==
    LET lines == LinesOf(screen)
    IN  /\ Bullets(lines) # {}
        /\ screen' = Join(SubSeq(lines, Max(Bullets(lines)) + 1, Len(lines)) \o << <<>> >>)
        /\ drawn' = << SubSeq(Last(drawn), Max({1} \cup Bullets(Last(drawn))) + 1,
                              Len(Last(drawn))) >>
        /\ UNCHANGED <<program, fencedVars>>

AnswerTexts == {<< <<"text">> >> \o ls : ls \in UNION {[1..n -> AnswerLines] : n \in 0 .. MaxRows - 1}}

\* A target that writes the markers.
Fenced ==
    \/ \E marker \in {"B", "E"} : Mention(marker)
    \/ \E body \in Body, pad \in {<<>>, <<"sp">>}, quoted \in BOOLEAN : Answer(body, pad, quoted)
    \/ \E body \in Body : Abandon(body)
    \/ file # <<>> /\ \E k \in 1 .. Len(Last(file)) - 1 : Tear(k)

\* A CLI that omits them.
Unfenced == (\E answer \in AnswerTexts : Draw(Worded(answer))) \/ ScrollOff

Next ==
    \/ program = "unknown" /\ ~torn /\ Fenced
    \/ program # "unknown" /\ Unfenced

Spec == Init /\ [][Next]_vars

-----------------------------------------------------------------------------
(* Properties.                                                             *)

\* The screen yields the last reply that was completed and never what a quoted
\* instruction, a cut-off reply or a marker inside a reply seems to fence; nothing
\* when there was none (the comment of `extract_between`).
FencedReply ==
    ExtractBetween(screen) = IF shown = <<>> THEN None ELSE Some(Trim(Last(shown)))

\* Without markers the structural fallback yields lines of the last answer that follow
\* one another, dedented: never an earlier answer, the echoed instruction or chrome. It
\* is the whole answer, or what is left of it on a claude screen, if no line of it looks
\* like the CLI's own chrome.
SliceIsLastAnswer ==
    LET slice   == ChooseReply(screen)
        answer  == IF drawn = <<>> THEN <<>> ELSE Last(drawn)
        Text(i) == IF Bullets(<<answer[i]>>) = {} THEN answer[i] ELSE BulletText(answer[i])
        Lines(i, j) == [k \in 1 .. j - i + 1 |-> IF k = 1 THEN Text(i) ELSE answer[i + k - 1]]
        plain   == ToSet(Join(answer)) \cap Unclean = {}
    IN  program # "unknown" =>
            /\ slice # None => \E i, j \in DOMAIN answer : slice = Finish(Lines(i, j))
            /\ plain /\ (program = "claude" \/ Bullets(LinesOf(screen)) # {}) =>
                    slice = Finish(answer)

\* The transcript yields the first reply that was saved whole, every character of it,
\* wherever the file ends; nothing when there was none. With one reply for a marker
\* this is the reply on the screen.
TranscriptReply ==
    ReplyFromJsonl = IF saved = <<>> THEN None ELSE Some(Trim(Head(saved)))

\* What JSON escapes comes back as it was, but for halves of characters, which no text
\* of the code can hold ("lenience never loses payload").
Written(text) == SelectSeq(text, LAMBDA c : c # "lone")

PayloadKept ==
    \A i \in DOMAIN shown : Unescape(Encode(shown[i])) = Written(shown[i])

\* "`None` when no line carries a well-formed fence": reading the file ends.
NoneWithoutFence == saved = <<>> => ~ReadingPanics /\ ReplyFromJsonl = None
=============================================================================
