----------------------------- MODULE Orchestrator -----------------------------
(***************************************************************************)
(* src/src/main.rs: one run of the CLI with --cmd (orchestrate) or without *)
(* (capture), from the spawned target to the process's exit code.          *)
(*                                                                         *)
(* The run owns a Wrapper and calls it once per command; with --extract    *)
(* every command gets closing markers of its own and the gate that goes    *)
(* with them. The reply is then looked for in the --result-file, in the    *)
(* target's own transcript files and on the screen, in this order, and the *)
(* exit code is derived from the last outcome and from what was printed.   *)
(* A reply is named by the command it answers.                             *)
(***************************************************************************)
EXTENDS Wrapper

CONSTANTS
    Structural,     \* --extract-structural
    ExplicitGrace,  \* --extract-grace-ms, or None
    GraceFloor,     \* FLOOR of default_markerless_grace
    ResultFile,     \* --result-file is given
    Transcripts,    \* a transcript directory is given and the target is claude
    TargetCodes,    \* exit statuses of the target
    LateFile,       \* the target may write a reply's file after its wait returned
    RemovalFails    \* removing the result file may fail

\* min(max(4 * idle, FLOOR), exec_timeout / 2)
DefaultMarkerlessGrace(idle, exec) ==
    LET wanted == IF 4 * idle > GraceFloor THEN 4 * idle ELSE GraceFloor
    IN  IF wanted < exec \div 2 THEN wanted ELSE exec \div 2

\* The marker-less grace of the gate idle_gate_for builds.
GraceFor ==
    IF Structural /\ ExplicitGrace = None
      THEN DefaultMarkerlessGrace(IdleSilence, ExecTimeout)
      ELSE ExplicitGrace

\* Gated is --extract, which the other two options require (a run without it is
\* an initial state of the same instance). A closing marker is made of the pid,
\* the clock and the command's number: it never repeats.
ASSUME OrchestratorAssumption ==
    /\ Structural \in BOOLEAN /\ ResultFile \in BOOLEAN /\ Transcripts \in BOOLEAN
    /\ LateFile \in BOOLEAN /\ RemovalFails \in BOOLEAN
    /\ TargetCodes \subseteq 0..255 /\ GraceFloor \in Nat
    /\ Structural \/ ResultFile => Gated
    /\ Gated => MarkerlessGrace = GraceFor
    /\ HardTimeout # None
    /\ \A c, d \in 1..NumCmds : c # d => NeedleOf[c] # NeedleOf[d]

VARIABLES
    extract,    \* this run is given --extract
    stage,      \* "loop" (with --cmd), "capture" (without), "exit" (printed), "done"
    file,       \* whose reply the result file holds
    kept,       \* whose reply the last removal left there, Absent when it worked
    saved,      \* replies the target's transcript files hold
    printed,    \* the source of what reached stdout
    printedFor, \* the command whose reply that is, 0 when it is not known
    exit        \* the exit code, None before the end

orchVars == <<extract, stage, file, kept, saved, printed, printedFor, exit>>
allVars  == <<vars, orchVars>>

Absent   == 0              \* missing, empty or unreadable
PriorRun == NumCmds + 1    \* left by an earlier run on the same path

Fatal   == {"TimedOut", "HardTimeout", "TargetExitedEarly"}
Sources == {"file", "transcript", "fenced", "structural", "plain"}

\* A result file is in use.
Armed == ResultFile /\ extract

OrchInit ==
    /\ Init
    /\ extract \in {Gated, FALSE}
    /\ stage \in {"loop", "capture"}
    /\ file \in IF Armed THEN {Absent, PriorRun} ELSE {Absent}
    /\ kept = Absent /\ saved = {} /\ printed = "none" /\ printedFor = 0 /\ exit = None

-----------------------------------------------------------------------------
\* Mutant of Sentinels: one pair for the whole run.
SentinelsPerRun(c) == NeedleOf[1]

\* The closing marker of command c.
Sentinels(c) == NeedleOf[c]

\* The arm-time freshness guard: the file is removed, but whether that worked is not
\* looked at.
ClearResultFile ==
    /\ file' \in IF Armed /\ RemovalFails THEN {Absent, file} ELSE {Absent}
    /\ kept' = file'

\* One turn of the command loop, up to the call of run_command. A timeout, a
\* hard cap or a mid-reply death has broken out of the loop.
RunNextCommand ==
    /\ stage = "loop"
    /\ cmd < NumCmds
    /\ result \notin Fatal \cup {"error"}
    /\ RunCommand(cmd + 1, IF extract THEN Sentinels(cmd + 1) ELSE NoNeedle)
    /\ ClearResultFile
    /\ UNCHANGED <<extract, stage, saved, printed, printedFor, exit>>

\* Capture mode: no command, a single wait, no gate.
Capture ==
    /\ stage = "capture"
    /\ result = "none"
    /\ WaitUntilIdle
    /\ UNCHANGED orchVars

\* Mutant of Fail: the error is swallowed and the run is left where it is.
FailSwallowed ==
    /\ stage \in {"loop", "capture"}
    /\ phase = "none" /\ result = "error"
    /\ UNCHANGED allVars

\* An error of run_command or of the wait ends the process with a message.
Fail ==
    /\ stage \in {"loop", "capture"}
    /\ phase = "none" /\ result = "error"
    /\ stage' = "done" /\ exit' = 1
    /\ UNCHANGED <<vars, extract, file, kept, saved, printed, printedFor>>

LoopOver ==
    /\ stage \in {"loop", "capture"} /\ phase = "none"
    /\ result \in Outcomes
    /\ stage = "capture" \/ cmd = NumCmds \/ result \in Fatal

-----------------------------------------------------------------------------
(* print_capture.                                                          *)

PrintReply(source, c) == printed' = source /\ printedFor' = c

\* Capture mode is not given the file: nothing told the target about it.
FromFile == Armed /\ cmd > 0 /\ file # Absent

\* Replies fenced by the last command's markers, in the transcript files and on
\* the screen. Capture mode reads no transcript files and has typed no markers.
LastFence(replies) ==
    {c \in replies : cmd > 0 /\ NeedleOf[c] = Sentinels(cmd)}
FencedInFiles  == IF Transcripts /\ extract THEN LastFence(saved) ELSE {}
FencedOnScreen ==
    IF cmd > 0 /\ hits[Sentinels(cmd)] > 0 THEN LastFence(fenced) ELSE {}

PrintFile == FromFile /\ PrintReply("file", file)

PrintTranscript ==
    /\ ~FromFile
    /\ \E c \in FencedInFiles : PrintReply("transcript", c)

\* choose_reply: the fence, then (when allowed) a structural slice, then nothing.
\* The opening marker may have been lost from the screen, and a structural slice
\* may be rejected.
ChooseReply ==
    /\ extract /\ ~FromFile /\ FencedInFiles = {}
    /\ \/ \E c \in FencedOnScreen : PrintReply("fenced", c)
       \/ Structural /\ PrintReply("structural", 0)
       \/ PrintReply("none", 0)

PrintPlain == ~extract /\ PrintReply("plain", 0)

PrintCapture ==
    /\ LoopOver
    /\ PrintFile \/ PrintTranscript \/ ChooseReply \/ PrintPlain
    /\ stage' = "exit"
    /\ UNCHANGED <<vars, extract, file, kept, saved, exit>>

\* Mutant of ExitCodes: any printed reply overrides the outcome.
ExitCodesOverridden(o) ==
    CASE printed # "none" /\ o \in Fatal -> {0}
      [] o = "TimedOut"                  -> {124}
      [] o = "HardTimeout"               -> {69}
      [] o = "TargetExitedEarly"         -> {75}
      [] o = "Idle"                      -> {0}
      [] OTHER                           -> TargetCodes \cup {1}

\* exit_code_for. After Completed the target is waited for: its own status, or 1
\* when it was killed by a signal or is not dead in time.
ExitCodes(o) ==
    CASE o \in Fatal /\ printed = "file"                -> {0}
      [] o = "TimedOut"    /\ printed # "file"          -> {124}
      [] o = "HardTimeout" /\ printed # "file"          -> {69}
      [] o = "TargetExitedEarly" /\ printed = "none"    -> {75}
      [] o = "TargetExitedEarly" /\ printed \notin {"none", "file"} -> {0}
      [] o = "Idle"                                     -> {0}
      [] o = "Completed"                                -> TargetCodes \cup {1}

Exit ==
    /\ stage = "exit"
    /\ exit' \in ExitCodes(result)
    /\ stage' = "done"
    /\ UNCHANGED <<vars, extract, file, kept, saved, printed, printedFor>>

-----------------------------------------------------------------------------
(* The target's files (external).                                          *)

\* The target writes its reply to command c to the result file. Unless LateFile,
\* it does so while that reply is waited for.
TargetWritesFile(c) ==
    /\ Armed /\ stage # "done"
    /\ c \in sent
    /\ LateFile \/ (phase = "reply" /\ cmd = c /\ ~slaveClosed)
    /\ file' = c
    /\ UNCHANGED <<vars, extract, stage, kept, saved, printed, printedFor, exit>>

\* The target records a fenced reply in its transcript files.
TargetSaves(c) ==
    /\ Transcripts /\ stage = "loop"
    /\ c \in fenced
    /\ saved' = saved \cup {c}
    /\ UNCHANGED <<vars, extract, stage, file, kept, printed, printedFor, exit>>

WrapperStep == Step /\ UNCHANGED orchVars

Orchestrate == RunNextCommand \/ Capture \/ Fail \/ PrintCapture \/ Exit

OrchNext ==
    \/ Orchestrate
    \/ WrapperStep
    \/ TargetCloses /\ UNCHANGED orchVars
    \/ \E c \in 1..NumCmds : TargetWritesFile(c) \/ TargetSaves(c)

OrchSpec == OrchInit /\ [][OrchNext]_allVars

\* The process keeps running; the target may do nothing for ever.
OrchFairSpec == OrchSpec /\ WF_allVars(Orchestrate) /\ WF_allVars(WrapperStep)

-----------------------------------------------------------------------------
(* Properties.                                                             *)

\* A reply taken from the file, a transcript or a fence answers the last command
\* the run got to, never an earlier one or an earlier run's; but for one: the reply that
\* was in the file when its removal before that very command failed.
ReplyIsLastCommands ==
    printed \in {"file", "transcript", "fenced"} =>
        \/ printedFor = cmd /\ cmd \in sent
        \/ printed = "file" /\ kept # Absent /\ printedFor = kept

\* What main.rs:670-678 says: what is read from the result file is this turn's write, so
\* that no stale reply turns a failure into exit 0. Nothing keeps the run from reading
\* the file when its removal failed.
StaleFileMasksNothing ==
    result \in Fatal /\ exit = 0 /\ printed = "file" => printedFor = cmd

\* 75 is reserved for a reply that was lost: the last command was typed, the
\* target closed the PTY unprovoked, and neither its file nor a transcript of it
\* nor a fence on the screen holds the reply.
TransientMeansLost ==
    exit = 75 =>
        /\ cmd \in sent /\ slaveClosed /\ ~terminated /\ interruptedAt = None
        /\ ~FromFile /\ FencedInFiles = {} /\ FencedOnScreen = {}

\* A run that had to kill the target, or that saw it die after a Ctrl+C, says so
\* in its exit code unless a reply was read from the result file.
KilledIsReported ==
    stage = "done" /\ (terminated \/ (eof /\ interruptedAt # None)) =>
        exit \in {124, 69} \/ (exit = 0 /\ printed = "file")

\* Every run ends with an exit code, whatever the target does.
RunEnds == <>(stage = "done")
=============================================================================
