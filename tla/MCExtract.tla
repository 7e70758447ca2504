------------------------------- MODULE MCExtract -------------------------------
(***************************************************************************)
(* Instances of Extract for TLC: what replies are composed of.             *)
(***************************************************************************)
EXTENDS Extract

\* Characters that JSON escapes, a letter that names an escape, and markers inside a
\* reply, with and without prose behind them.
Ordinary == {<<"n">>, <<"nl">>, <<"qt">>, <<"bs">>, <<"astral">>, <<"B", "n">>, <<"E", "nl">>}
WithHalves == Ordinary \cup {<<"ctl">>, <<"lone">>}

\* A line of text, a blank one, a nested one, and lines that look like chrome.
SomeLines == {<<"text">>, <<>>, <<"sp", "text">>, <<"dot", "sp", "text">>, <<"text", "sp", "status">>,
              <<"prompt", "sp", "text">>, <<"text", "sp", "banner">>}
=============================================================================
