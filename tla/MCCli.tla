-------------------------------- MODULE MCCli --------------------------------
(***************************************************************************)
(* Instances of Cli for TLC: two updaters started together, and command    *)
(* lines of a few options.                                                 *)
(***************************************************************************)
EXTENDS Cli

CONSTANTS u1, u2

Two == {u1, u2}

\* Releases v1.2-rc2, v1.2.0.1 and latest; the running version is 1.2.
Running   == <<<<1>>, <<2>>>>
SomeTags  == {<<<<1>>, <<2, "rc2">>>>, <<<<1>>, <<2>>, <<0>>, <<1>>>>, <<<<NoNumber>>>>}
SomeUpdateArgs == {<<>>, <<"--check">>, <<"--check", "now">>}

SomeNumbers == [t \in {"0", "3", "9"} |-> CASE t = "0" -> 0 [] t = "3" -> 3 [] OTHER -> 9]

SomeItems == {
    <<"--cmd", "x">>, <<"--cmd", "--help">>, <<"--cmd-file", "x">>, <<"--cmd-file", "gone">>,
    <<"--prompt", "x">>, <<"--timeout-ms", "9">>, <<"--timeout-ms", "0">>,
    <<"--hard-timeout-ms", "3">>, <<"--idle-ms", "x">>, <<"--extract-grace-ms", "9">>,
    <<"--cols", "9">>, <<"--cols", "0">>, <<"--wrap-input", "3">>,
    <<"--no-confirm">>, <<"--auto-approve">>, <<"--tui">>, <<"--extract">>,
    <<"--extract-structural">>, <<"--no-transcript-read">>, <<"--transcript-dir", "x">>,
    <<"--transcript-dir", "">>, <<"--result-file", "">>, <<"--cwd", "">>,
    <<"--result-file", "x">>, <<"--cwd", "x">>, <<"--cwd", "gone">>,
    <<"--no-jitter">>, <<"--paste-input">>, <<"--unknown">>, <<"-V">>, <<"--idle-ms">>}

Lines(n, tail) == {FlattenSeq(items) \o tail : items \in BoundedSeq(SomeItems, n)}

SomeLines ==
    Lines(3, <<"--", "prog", "--help">>)
      \cup UNION {Lines(1, tail) : tail \in {<<>>, <<"--">>, <<"version">>, <<"update">>}}

SomeEnvs == {
    [cols |-> "unset", hard |-> "unset", resultFile |-> "unset", home |-> TRUE],
    [cols |-> "3",     hard |-> "9",     resultFile |-> "x",     home |-> FALSE],
    [cols |-> "0",     hard |-> "unset", resultFile |-> "",      home |-> TRUE]}

SomeTexts == BoundedSeq({"a", Blank, LF, "zw"}, 4) \cup BoundedSeq({"a", Blank}, 6)
=============================================================================
