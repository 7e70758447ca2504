--------------------------------- MODULE Cli ---------------------------------
(***************************************************************************)
(* src/src/main.rs: `main`, which takes its first argument for a           *)
(* subcommand or has the command line parsed, up to the typing of the      *)
(* commands. What a run does besides is Orchestrator's and Interactive's.  *)
(***************************************************************************)
EXTENDS Updater, CommandLine, Delivery

CONSTANTS
    CommandLines, \* the arguments of the process
    Envs,         \* its environments
    Texts         \* what a command may say

\* Commands of text and line ends. One with a carriage return or a marker of a bracketed
\* paste in it is typed all the same, but may be submitted in parts.
ASSUME CliAssumption == Texts \subseteq Seq(STRING \ {CR, PasteBegin, PasteEnd})

ASSUME ArgumentsAssumption == CommandLines \subseteq Seq(STRING)

VARIABLE stage   \* of the process: "main", "update", "parse", "type", "end"

cliVars == <<stage, updateVars, parseVars, deliveryVars>>

Init ==
    /\ stage = "main"
    /\ argv \in CommandLines /\ env \in Envs
    /\ UpdateInit /\ ParseInit /\ DeliveryInit

\* The command line has been used and is not looked at any more.
ForgetCommandLine ==
    /\ argv' = <<>> /\ at' = 1 /\ mode' = "head" /\ args' = NoArgs
    /\ env' = [cols |-> "unset", hard |-> "unset", resultFile |-> "unset", home |-> FALSE]

\* `update` is a subcommand as the first argument only.
IsUpdate == argv # <<>> /\ argv[1] = "update"

DispatchUpdate ==
    /\ stage = "main"
    /\ IsUpdate
    /\ stage' = "update"
    /\ ForgetCommandLine
    /\ UNCHANGED <<updateVars, deliveryVars>>

DispatchParse ==
    /\ stage = "main"
    /\ ~IsUpdate
    /\ stage' = "parse"
    /\ UNCHANGED <<updateVars, parseVars, deliveryVars>>

Updates ==
    /\ stage = "update"
    /\ UpdateNext
    /\ UNCHANGED <<stage, parseVars, deliveryVars>>

Parses ==
    /\ stage = "parse"
    /\ ParseStep
    /\ stage' = IF mode' \in {"help", "version", "error"} THEN "end" ELSE "parse"
    /\ UNCHANGED <<updateVars, deliveryVars>>

InputStyle == IF args.paste THEN "paste" ELSE IF args.burst THEN "burst" ELSE "jitter"

\* trim_end, of the text of a --cmd-file.
TrimEnd(s) ==
    LET solid == {i \in DOMAIN s : s[i] \notin {Blank, LF}}
    IN  SubSeq(s, 1, Max({0} \cup solid))

\* The instruction to fence the reply, and the one to write it to a file, are on
\* the command's last line. A letter stands for each.
WrapCommand(cmd, resultFile) ==
    cmd \o <<Blank, "F">> \o (IF resultFile = Absent THEN <<>> ELSE <<Blank, "W">>)

\* orchestrate types a command.
SendsCommand ==
    /\ stage = "parse" /\ mode = "run"
    /\ args.cmds # <<>>
    /\ stage' = "type"
    /\ \E s \in Texts :
          LET cmd == IF args.hasCmdFile THEN TrimEnd(s) ELSE s
          IN  Send(IF args.extract THEN WrapCommand(cmd, args.resultFile) ELSE cmd,
                   InputStyle, args.wrap)
    /\ ForgetCommandLine
    /\ UNCHANGED updateVars

Types ==
    /\ stage = "type"
    /\ TypeCommand
    /\ UNCHANGED <<stage, updateVars, parseVars>>

Next == DispatchUpdate \/ DispatchParse \/ Updates \/ Parses \/ SendsCommand \/ Types

Spec == Init /\ [][Next]_cliVars
=============================================================================
