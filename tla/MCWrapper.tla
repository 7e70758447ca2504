------------------------------ MODULE MCWrapper ------------------------------
(***************************************************************************)
(* Instances of Wrapper for TLC: how the commands get their markers, and   *)
(* what the target puts on a line and on the screen.                       *)
(***************************************************************************)
EXTENDS Wrapper

CONSTANTS m1, m2

\* The --extract CLI: a fresh marker for every command.
Fresh == <<m1, m2>>
\* A library caller that reuses one marker.
Reused == <<m1, m1>>

\* The prompt "$ ".
Prompt == <<"$", " ">>
DollarPrompt == {Prompt}

\* [new] overwrite (Y, n/q)   |   really y/n
Asking == {
    <<"[", "new", "]", " ", "overwrite", " ", "(", "Y", ",", " ", "n", "/", "q", ")", " ">>,
    <<"really", " ", "y", "/", "n">>}

\* (see [2/3]) yes   |   a prompt   |   nothing
NotAsking == {
    <<"(", "see", " ", "[", "2", "/", "3", "]", ")", " ", "yes">>,
    <<"user">> \o Prompt,
    <<>>}

SomeLines == Asking \cup NotAsking
NoLine    == {<<>>}
NoText    == {}

Option  == <<" ", ">>", " ", "1.", " ", "Yes", ",", " ", "proceed">>
Refusal == <<" ", "2.", " ", "No">>
Hint    == <<"press", " ", "enter", " ", "to confirm">>
Prose   == <<"Yes", " ", "it", " ", "is">>

\* A menu, and one with a blank line in it; for a window of three lines.
MenuScreens == {<<Option, Refusal, Hint>>, <<Prose, Option, <<>>, Hint>>}
\* No option, no hint, and a menu that has scrolled up.
OtherScreens ==
    {<<>>, <<Prose, Hint>>, <<Option, Refusal>>, <<Option, Hint, Prose, Prose>>}

SomeScreens == MenuScreens \cup OtherScreens
NoScreen    == {<<>>}

\* One menu and nothing else.
OneMenu       == {<<Option, Refusal, Hint>>}
MenuOrNothing == OneMenu \cup NoScreen

\* None, for the options of the configurations.
Unset == None
=============================================================================
