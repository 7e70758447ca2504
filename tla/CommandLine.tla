----------------------------- MODULE CommandLine -----------------------------
(***************************************************************************)
(* src/src/main.rs: parse_from, the reading of the command line.           *)
(*                                                                         *)
(* A command line is a sequence of tokens. One loop walks the tokens up to *)
(* the first `--`; it takes a value with every option that wants one,      *)
(* whatever that token looks like. Environment variables give defaults.    *)
(***************************************************************************)
EXTENDS Integers, Sequences, SequencesExt, FiniteSetsExt

CONSTANTS
    Numbers,        \* what the tokens that are numbers mean
    MinCols, MaxCols,
    Readable,       \* the paths --cmd-file can read
    Directories,    \* the paths --cwd finds
    DefaultCols, DefaultExec, DefaultIdle

ASSUME CommandLineAssumption == \A v \in DOMAIN Numbers : Numbers[v] \in Nat

\* Options without a value, and with one.
Flags == {"--no-confirm", "--auto-approve", "--tui", "--extract", "--extract-structural",
          "--no-transcript-read", "--no-jitter", "--paste-input"}
NumberOptions == {"--timeout-ms", "--hard-timeout-ms", "--idle-ms", "--extract-grace-ms",
                  "--cols", "--wrap-input"}
ValueOptions == NumberOptions \cup {"--cmd", "--cmd-file", "--prompt", "--cwd",
                                    "--transcript-dir", "--result-file"}

Off      == -1                    \* None, of an optional number
Absent   == <<>>                  \* None, of an optional path; Some(v) is <<v>>
HomeDir  == <<"$HOME/.claude/projects">>

VARIABLES
    argv,      \* the arguments of the process
    env,       \* its environment: fields cols, hard, resultFile, home
    at,        \* where the loop is
    mode,      \* "head", "loop"; then "help", "version", "error" or "run"
    args       \* what has been parsed

parseVars == <<argv, env, at, mode, args>>

\* Where the first `--` is, past the end when there is none.
SplitOf(tokens) ==
    Min({Len(tokens) + 1} \cup {i \in DOMAIN tokens : tokens[i] = "--"})

Split == SplitOf(argv)

Options == SubSeq(argv, 1, Split - 1)

-----------------------------------------------------------------------------
(* Before the loop.                                                        *)

NoArgs ==
    [cmds |-> <<>>, hasCmd |-> FALSE, hasCmdFile |-> FALSE,
     confirm |-> TRUE, approve |-> FALSE, tui |-> FALSE,
     extract |-> FALSE, structural |-> FALSE, grace |-> Off,
     exec |-> DefaultExec, hard |-> Off, idle |-> DefaultIdle,
     cols |-> DefaultCols, wrap |-> 0, burst |-> FALSE, paste |-> FALSE,
     prompts |-> <<>>, cwd |-> Absent, resultFile |-> Absent,
     transcriptDir |-> Absent, transcriptOff |-> FALSE, program |-> ""]

IsNumber(v) == v \in DOMAIN Numbers

IsCols(v) == IsNumber(v) /\ Numbers[v] \in MinCols .. MaxCols

EnvIsValid ==
    /\ env.cols = "unset" \/ IsCols(env.cols)
    /\ env.hard = "unset" \/ IsNumber(env.hard)

\* In the environment, not as an option, an empty result file path is none.
ResultFileOfEnv == IF env.resultFile \in {"unset", ""} THEN Absent ELSE <<env.resultFile>>

FromEnv ==
    [NoArgs EXCEPT
        !.cols = IF env.cols = "unset" THEN @ ELSE Numbers[env.cols],
        !.hard = IF env.hard = "unset" THEN @ ELSE Numbers[env.hard],
        !.resultFile = ResultFileOfEnv]

ParseInit ==
    /\ at = 1 /\ mode = "head" /\ args = NoArgs

Asks(words) == \E i \in DOMAIN Options : Options[i] \in words

WantsHelp == Asks({"-h", "--help"})

WantsVersion ==
    \/ argv # <<>> /\ argv[1] = "version" /\ Split > Len(argv)
    \/ Asks({"--version", "-V"})

ParseHead ==
    /\ mode = "head"
    /\ mode' = CASE WantsHelp          -> "help"
                 [] WantsVersion       -> "version"
                 [] Split >= Len(argv) -> "error"  \* no `--`, or no program behind it
                 [] ~EnvIsValid        -> "error"
                 [] OTHER              -> "loop"
    /\ args' = IF mode' = "loop" THEN [FromEnv EXCEPT !.program = argv[Split + 1]] ELSE args
    /\ UNCHANGED <<argv, env, at>>

-----------------------------------------------------------------------------
(* The loop.                                                               *)

SetFlag(opt) ==
    CASE opt = "--no-confirm"         -> [args EXCEPT !.confirm = FALSE]
      [] opt = "--auto-approve"       -> [args EXCEPT !.approve = TRUE]
      [] opt = "--tui"                -> [args EXCEPT !.tui = TRUE]
      [] opt = "--extract"            -> [args EXCEPT !.extract = TRUE, !.tui = TRUE]
      [] opt = "--extract-structural" ->
            [args EXCEPT !.extract = TRUE, !.structural = TRUE, !.tui = TRUE]
      [] opt = "--no-transcript-read" -> [args EXCEPT !.transcriptOff = TRUE]
      [] opt = "--no-jitter"          -> [args EXCEPT !.burst = TRUE]
      [] opt = "--paste-input"        -> [args EXCEPT !.paste = TRUE]

SetNumber(opt, n) ==
    CASE opt = "--timeout-ms"       -> [args EXCEPT !.exec = n]
      [] opt = "--hard-timeout-ms"  -> [args EXCEPT !.hard = n]
      [] opt = "--idle-ms"          -> [args EXCEPT !.idle = n]
      [] opt = "--extract-grace-ms" -> [args EXCEPT !.grace = n]
      [] opt = "--cols"             -> [args EXCEPT !.cols = n]
      [] opt = "--wrap-input"       -> [args EXCEPT !.wrap = n]

SetText(opt, v) ==
    CASE opt = "--cmd"            -> [args EXCEPT !.hasCmd = TRUE, !.cmds = Append(@, v)]
      [] opt = "--cmd-file"       -> [args EXCEPT !.hasCmdFile = TRUE, !.cmds = Append(@, v)]
      [] opt = "--prompt"         -> [args EXCEPT !.prompts = Append(@, v)]
      [] opt = "--cwd"            -> [args EXCEPT !.cwd = <<v>>]
      [] opt = "--transcript-dir" -> [args EXCEPT !.transcriptDir = <<v>>]
      [] opt = "--result-file"    -> [args EXCEPT !.resultFile = <<v>>]

\* Each spelling of a command excludes the other.
Conflicts(opt) ==
    \/ opt = "--cmd" /\ args.hasCmdFile
    \/ opt = "--cmd-file" /\ args.hasCmd

Fits(opt, v) ==
    /\ opt \in NumberOptions => IsNumber(v)
    /\ opt = "--cols" => IsCols(v)
    /\ opt = "--cmd-file" => v \in Readable

TakeFlag ==
    /\ mode = "loop" /\ at < Split /\ argv[at] \in Flags
    /\ args' = SetFlag(argv[at])
    /\ at' = at + 1
    /\ UNCHANGED <<argv, env, mode>>

\* The value may be any token, an option's name included.
TakeValue ==
    /\ mode = "loop" /\ at + 1 < Split /\ argv[at] \in ValueOptions
    /\ ~Conflicts(argv[at]) /\ Fits(argv[at], argv[at + 1])
    /\ args' = IF argv[at] \in NumberOptions
                 THEN SetNumber(argv[at], Numbers[argv[at + 1]])
                 ELSE SetText(argv[at], argv[at + 1])
    /\ at' = at + 2
    /\ UNCHANGED <<argv, env, mode>>

\* An unknown option, one that excludes an earlier one, lacks its value or has a
\* wrong one.
RejectOption ==
    /\ mode = "loop" /\ at < Split
    /\ argv[at] \notin Flags
    /\ argv[at] \in ValueOptions =>
         Conflicts(argv[at]) \/ at + 1 >= Split \/ ~Fits(argv[at], argv[at + 1])
    /\ mode' = "error"
    /\ UNCHANGED <<argv, env, at, args>>

-----------------------------------------------------------------------------
(* After the loop.                                                         *)

\* Mutant of HardTimeoutOf: the default ignores --timeout-ms.
HardTimeoutOfDefault(a) == IF a.hard = Off THEN DefaultExec ELSE a.hard

\* The hard cap defaults to the watchdog's timeout.
HardTimeoutOf(a) == IF a.hard = Off THEN a.exec ELSE a.hard

TranscriptDirOf(a) ==
    IF a.transcriptOff THEN Absent
    ELSE IF a.transcriptDir # Absent THEN a.transcriptDir
    ELSE IF a.extract /\ env.home THEN HomeDir
    ELSE Absent

FinishParsing ==
    /\ mode = "loop" /\ at = Split
    /\ IF \/ args.cwd # Absent /\ args.cwd[1] \notin Directories
          \/ args.resultFile # Absent /\ ~args.extract
         THEN mode' = "error" /\ UNCHANGED args
         ELSE /\ mode' = "run"
              /\ args' = [args EXCEPT !.hard = HardTimeoutOf(args),
                                      !.transcriptDir = TranscriptDirOf(args)]
    /\ UNCHANGED <<argv, env, at>>

ParseStep == ParseHead \/ TakeFlag \/ TakeValue \/ RejectOption \/ FinishParsing

-----------------------------------------------------------------------------
(* Properties.                                                             *)

\* Whether an option is read at a place: everywhere but where the token is a value.
IsOption[i \in 0 .. Len(Options)] ==
    i > 0 /\ ~(IsOption[i - 1] /\ Options[i - 1] \in ValueOptions)

\* Whether an option is read at one of the first n places.
HasUpTo(opt, n) == \E i \in 1 .. n : IsOption[i] /\ Options[i] = opt

\* The values an option is given at the first n places, in order.
GivenUpTo(opt, n) ==
    LET Values[i \in 0 .. Len(Options)] ==
          IF i = 0 THEN <<>>
          ELSE IF IsOption[i] /\ Options[i] = opt THEN Append(Values[i - 1], Options[i + 1])
          ELSE Values[i - 1]
    IN  Values[n]

Has(opt) == HasUpTo(opt, Len(Options))

Given(opt) == GivenUpTo(opt, Len(Options))

\* The last path given, if any.
Latest(opt, default) == IF Has(opt) THEN <<Last(Given(opt))>> ELSE default

\* Nothing that stands behind the first `--` is flat-cyborg's, and what is parsed
\* before it depends on which options are given, and on the order only of one
\* option's own values: each takes effect wherever it stands, the last value wins
\* over the earlier ones and over the environment, and what is derived (the grid
\* from --extract, the hard cap from --timeout-ms) is derived from the final values.
\* Nothing is said of a line that has both --cmd and --cmd-file.
ParsedAsGiven ==
    /\ mode \in {"help", "version"} /\ Split <= Len(argv) =>
         \E i \in 1 .. Split - 1 : argv[i] \in {"-h", "--help", "-V", "--version"}
    /\ mode = "run" =>
        LET number(opt, v) == IF Has(opt) THEN Numbers[Last(Given(opt))] ELSE v
            fromEnv(v, default) == IF v = "unset" THEN default ELSE Numbers[v]
            exec == number("--timeout-ms", DefaultExec)
            file == Latest("--result-file", ResultFileOfEnv)
        IN  /\ args.program = argv[Split + 1]
            /\ Has("--cmd") /\ ~Has("--cmd-file") => args.cmds = Given("--cmd")
            /\ ~Has("--cmd") => args.cmds = Given("--cmd-file")
            /\ args.prompts = Given("--prompt")
            /\ args.extract <=> Has("--extract") \/ Has("--extract-structural")
            /\ args.structural <=> Has("--extract-structural")
            /\ args.tui <=> args.extract \/ Has("--tui")
            /\ args.confirm <=> ~Has("--no-confirm")
            /\ args.approve <=> Has("--auto-approve")
            /\ args.burst <=> Has("--no-jitter")
            /\ args.paste <=> Has("--paste-input")
            /\ args.exec = exec
            /\ args.hard = number("--hard-timeout-ms", fromEnv(env.hard, exec))
            /\ args.idle = number("--idle-ms", DefaultIdle)
            /\ args.cols = number("--cols", fromEnv(env.cols, DefaultCols))
            /\ args.wrap = number("--wrap-input", 0)
            /\ args.grace = number("--extract-grace-ms", Off)
            /\ args.resultFile = file /\ (file # Absent => args.extract)
            /\ args.cwd = Latest("--cwd", Absent)
            /\ args.transcriptDir =
                 IF Has("--no-transcript-read") THEN Absent
                 ELSE Latest("--transcript-dir",
                         IF args.extract /\ env.home THEN HomeDir ELSE Absent)
=============================================================================
