------------------------------- MODULE Wrapper -------------------------------
(***************************************************************************)
(* src/src/wrapper.rs: the Wrapper that types commands into a target and   *)
(* waits for it to become idle.                                            *)
(*                                                                         *)
(* Time is a clock of ticks that starts at 0 with every wait; the code     *)
(* takes time only where it sleeps or blocks (read_output, the jittered    *)
(* typing), so the clock moves there. Output comes as PtyStream promises:  *)
(* Data, in order, then Eof for ever. Of the transcript the model keeps    *)
(* what the loop asks of it: how many lines equal a closing marker, the    *)
(* current line, how many lines are committed, and the text that approval  *)
(* menus are looked for in.                                                *)
(***************************************************************************)
EXTENDS Integers, FiniteSets, Detect

CONSTANTS
    \* WrapperConfig
    Tui, AutoConfirm, AutoApprove,
    Burst,            \* burst_input, which refuses a command over BURST_MAX_BYTES
    IdleSilence, ExecTimeout, InterruptGrace, PollInterval,
    HardTimeout,      \* a duration, or None
    Gated,            \* whether the idle gate is configured
    MarkerlessGrace,  \* the gate's marker-less grace, or None
    \* the commands and the target
    NumCmds,          \* commands 1..NumCmds are run in order
    PromptTokens,     \* prompt_tokens, each a sequence of tokens
    MenuWindow,       \* WINDOW of is_approval_menu
    Needles,          \* closing markers
    NeedleOf,         \* the closing marker each command is given
    Lines,            \* what the target may leave on the current line
    Questions,        \* those of them by which it asks for a yes or a no
    Screens,          \* what it may show
    Menus,            \* those of them that show an approval menu
    Redraws,          \* the target may emit output that changes nothing visible
    SameLine,         \* it may ask a new question on the line of an old one
    \* bounds
    MaxTyping,        \* ticks a jittered confirmation reply may take
    Overrun,          \* ticks a poll may overshoot its timeout
    MaxHits, MaxLines, MaxPrompts

None     == -1
NoNeedle == "no needle"

ASSUME WrapperAssumption ==
    /\ Tui \in BOOLEAN /\ AutoConfirm \in BOOLEAN /\ AutoApprove \in BOOLEAN
    /\ Burst \in BOOLEAN /\ Gated \in BOOLEAN /\ Redraws \in BOOLEAN /\ SameLine \in BOOLEAN
    /\ IdleSilence \in Nat \ {0} /\ ExecTimeout \in Nat \ {0}
    /\ InterruptGrace \in Nat /\ PollInterval \in Nat \ {0}
    /\ HardTimeout \in Nat \cup {None} /\ MarkerlessGrace \in Nat \cup {None}
    /\ NumCmds \in Nat /\ NoNeedle \notin Needles
    /\ \A c \in 1..NumCmds : NeedleOf[c] \in Needles
    /\ <<>> \in Lines \ Questions /\ Questions \subseteq Lines
    /\ <<>> \in Screens \ Menus /\ Menus \subseteq Screens /\ MenuWindow \in Nat
    /\ MaxTyping \in Nat /\ Overrun \in Nat
    /\ MaxHits \in Nat /\ MaxLines \in Nat /\ MaxPrompts \in Nat

VARIABLES
    \* where the wrapper is
    phase,       \* of run_command: "none", "ready", "send", "reply"; or "wait"
    pc,          \* of wait_until_idle: "free", "top", "read", "confirm", "approve", "gate"
    cmd,         \* the command being run, 0 before the first
    result,      \* what the last call returned
    \* fields of the Wrapper
    gate, savedGate, baseline, sawOutput, markerlessQuiet, state,
    \* locals of wait_until_idle
    now, lastActivity, interruptedAt, answeredAt, approvalAnswered,
    \* the transcript
    hits,        \* lines equal to each needle
    line,        \* the current line
    committed,   \* committed_lines()
    screen,      \* what menus are looked for in
    \* the session
    slaveClosed, eof, terminated,
    \* the target, and what really happened
    sent,        \* commands typed in full
    fenced,      \* commands whose reply the target has ended with its marker
    changedAt,   \* when the transcript last changed in this wait
    promptNo,    \* the question last asked
    promptLine,  \* the commit index it was asked on
    replied,     \* questions answered in this wait
    stirredAt,   \* when the wait last read anything or answered
    confirmedHere,  \* Enters pressed since the menu on the screen appeared
    confirmedInWait \* those of them pressed in this wait

callVars    == <<phase, pc, cmd, result>>
fieldVars   == <<gate, savedGate, baseline, sawOutput, markerlessQuiet, state>>
localVars   == <<now, lastActivity, interruptedAt, answeredAt, approvalAnswered>>
displayVars == <<hits, line, committed, screen>>
sessionVars == <<slaveClosed, eof, terminated>>
promptVars  == <<promptNo, promptLine>>
confirmVars == <<confirmedHere, confirmedInWait>>
ghostVars   == <<sent, fenced, changedAt, promptVars, replied, stirredAt, confirmVars>>
vars == <<callVars, fieldVars, localVars, displayVars, sessionVars, ghostVars>>

Outcomes == {"Idle", "Completed", "TargetExitedEarly", "TimedOut", "HardTimeout"}

-----------------------------------------------------------------------------
(* The idle gate.                                                          *)

GateHits == IF gate = NoNeedle THEN 0 ELSE hits[gate]

IdleGateOpen == gate # NoNeedle => GateHits > baseline

\* Mutant of ArmIdleGate: the lines of earlier commands are not discounted.
ArmIdleGateAtZero == baseline' = 0

ArmIdleGate == baseline' = GateHits

SetIdleGate(needle) == gate' = needle /\ baseline' = 0

\* Mutant of MarkerlessSettleAllowed: the grace runs from the start of the wait.
MarkerlessSettleFromStart(t) ==
    /\ gate # NoNeedle
    /\ MarkerlessGrace # None
    /\ \/ t >= MarkerlessGrace
       \/ t + IdleSilence >= ExecTimeout

\* Mutant of MarkerlessSettleAllowed: no acceptance on the last of the budget.
MarkerlessSettleNoBudget(t) ==
    /\ gate # NoNeedle
    /\ MarkerlessGrace # None
    /\ t - lastActivity >= MarkerlessGrace

\* Whether a settled screen may do without the marker at time t.
MarkerlessSettleAllowed(t) ==
    /\ gate # NoNeedle
    /\ MarkerlessGrace # None
    /\ \/ t - lastActivity >= MarkerlessGrace
       \/ t + IdleSilence >= ExecTimeout

-----------------------------------------------------------------------------
(* Calls and returns.                                                      *)

Init ==
    /\ phase = "none" /\ pc = "free" /\ cmd = 0 /\ result = "none"
    /\ gate = NoNeedle /\ savedGate = NoNeedle /\ baseline = 0
    /\ sawOutput = FALSE /\ markerlessQuiet = None /\ state = "Running"
    /\ now = 0 /\ lastActivity = 0 /\ interruptedAt = None
    /\ answeredAt = None /\ approvalAnswered = FALSE
    /\ hits = [n \in Needles |-> 0] /\ line = <<>> /\ committed = 0 /\ screen = <<>>
    /\ slaveClosed = FALSE /\ eof = FALSE /\ terminated = FALSE
    /\ sent = {} /\ fenced = {} /\ changedAt = 0
    /\ promptNo = 0 /\ promptLine = None /\ replied = {}
    /\ stirredAt = 0 /\ confirmedHere = 0 /\ confirmedInWait = 0

\* The head of wait_until_idle: its locals start afresh, whatever the screen shows.
EnterWait ==
    /\ pc' = "top"
    /\ now' = 0 /\ lastActivity' = 0 /\ interruptedAt' = None
    /\ answeredAt' = None /\ approvalAnswered' = FALSE
    /\ markerlessQuiet' = None /\ state' = "Running"
    /\ changedAt' = 0 /\ replied' = {} /\ stirredAt' = 0 /\ confirmedInWait' = 0
    /\ UNCHANGED confirmedHere

\* wait_until_idle called directly.
WaitUntilIdle ==
    /\ pc = "free" /\ phase = "none"
    /\ phase' = "wait"
    /\ EnterWait
    /\ UNCHANGED <<cmd, result, gate, savedGate, baseline, sawOutput, displayVars,
                   sessionVars, sent, fenced, promptVars>>

\* run_command(c) under the given gate. In TUI mode the gate is taken away for
\* the readiness wait; otherwise typing comes first.
RunCommand(c, needle) ==
    /\ pc = "free" /\ phase = "none"
    /\ cmd' = c
    /\ baseline' = 0
    /\ IF Tui
         THEN /\ phase' = "ready"
              /\ gate' = NoNeedle /\ savedGate' = needle
              /\ EnterWait
         ELSE /\ phase' = "send"
              /\ gate' = needle /\ savedGate' = NoNeedle
              /\ UNCHANGED <<pc, localVars, markerlessQuiet, state, changedAt,
                             replied, stirredAt, confirmVars>>
    /\ UNCHANGED <<result, sawOutput, displayVars, sessionVars, sent, fenced,
                   promptVars>>

\* run_command arms the gate, types the command and starts the reply wait.
Send ==
    /\ phase = "send"
    /\ ArmIdleGate
    /\ sent' = sent \cup {cmd}
    /\ phase' = "reply"
    /\ EnterWait
    /\ UNCHANGED <<cmd, result, gate, savedGate, sawOutput, displayVars, sessionVars,
                   fenced, promptVars>>

\* A command is several writes: the writer thread can end between them once the
\* target has closed the slave, and the next write is an error. A burst that is too
\* long is refused before anything is written.
SendFails ==
    /\ phase = "send"
    /\ slaveClosed \/ Burst
    /\ ArmIdleGate
    /\ phase' = "none"
    /\ result' = "error"
    /\ UNCHANGED <<pc, cmd, gate, savedGate, sawOutput, markerlessQuiet, state, localVars,
                   displayVars, sessionVars, ghostVars>>

\* wait_until_idle returns o to its caller.
Return(o) ==
    /\ pc' = "free"
    /\ gate' = IF phase = "ready" THEN savedGate ELSE gate
    /\ savedGate' = NoNeedle
    /\ IF phase = "ready" /\ o = "Idle"
         THEN phase' = "send" /\ result' = result
         ELSE phase' = "none" /\ result' = o

-----------------------------------------------------------------------------
(* The top of the loop: hard cap first, then the watchdog.                 *)

\* Whether the graceful watchdog's budget is spent at time t.
ExecExpired(t) == t >= ExecTimeout

\* Mutant of CapReached: activity postpones the hard cap.
CapReachedOnSilence == HardTimeout # None /\ now - lastActivity >= HardTimeout

CapReached == HardTimeout # None /\ now >= HardTimeout

HardCap ==
    /\ pc = "top"
    /\ CapReached
    /\ terminated' = TRUE
    /\ Return("HardTimeout")
    /\ UNCHANGED <<cmd, baseline, sawOutput, markerlessQuiet, state, localVars,
                   displayVars, slaveClosed, eof, ghostVars>>

\* Mutant of GraceSpent: the grace runs from the start of the wait.
GraceSpentFromStart == now >= InterruptGrace

\* Whether the target has had its grace since the Ctrl+C.
GraceSpent == now - interruptedAt >= InterruptGrace

WatchdogKill ==
    /\ pc = "top"
    /\ ~CapReached
    /\ interruptedAt # None
    /\ GraceSpent
    /\ terminated' = TRUE
    /\ Return("TimedOut")
    /\ UNCHANGED <<cmd, baseline, sawOutput, markerlessQuiet, state, localVars,
                   displayVars, slaveClosed, eof, ghostVars>>

WatchdogInterrupt ==
    /\ pc = "top"
    /\ ~CapReached
    /\ interruptedAt = None
    /\ ExecExpired(now)
    /\ interruptedAt' = now
    /\ pc' = "read"
    /\ UNCHANGED <<phase, cmd, result, fieldVars, now, lastActivity, answeredAt,
                   approvalAnswered, displayVars, sessionVars, ghostVars>>

\* Mutant of WatchdogQuiet: no way on between the Ctrl+C and the kill.
WatchdogQuietUninterrupted ==
    /\ pc = "top"
    /\ ~CapReached
    /\ interruptedAt = None
    /\ ~ExecExpired(now)
    /\ pc' = "read"
    /\ UNCHANGED <<phase, cmd, result, fieldVars, localVars, displayVars, sessionVars,
                   ghostVars>>

WatchdogQuiet ==
    /\ pc = "top"
    /\ ~CapReached
    /\ IF interruptedAt = None THEN ~ExecExpired(now) ELSE ~GraceSpent
    /\ pc' = "read"
    /\ UNCHANGED <<phase, cmd, result, fieldVars, localVars, displayVars, sessionVars,
                   ghostVars>>

-----------------------------------------------------------------------------
(* Output::Data.                                                           *)

\* What a chunk that changes the transcript can do to it (external).
\* The log (line mode) only grows, by one marker line for each reply the target
\* ends with a newline. A screen is repainted: it may drop, repeat or restore any
\* marker line that was ever emitted.
MarkersChange ==
    \E ended \in SUBSET (sent \ fenced) :
        /\ fenced' = fenced \cup ended
        /\ IF Tui
             THEN /\ hits' \in [Needles -> 0..MaxHits]
                  /\ \A n \in Needles :
                        (\A c \in fenced' : NeedleOf[c] # n) => hits'[n] = 0
                  /\ \A c \in ended : hits'[NeedleOf[c]] > 0
             ELSE hits' = [n \in Needles |->
                     hits[n] + Cardinality({c \in ended : NeedleOf[c] = n})]

LineChanges ==
    /\ committed' \in committed..MaxLines
    /\ line' \in Lines
    /\ \/ /\ line' \in Questions /\ promptLine = committed'
          /\ UNCHANGED promptVars
       \/ /\ line' \in Questions /\ (promptLine # committed' \/ SameLine)
          /\ promptNo < MaxPrompts
          /\ promptNo' = promptNo + 1 /\ promptLine' = committed'
       \/ line' \notin Questions /\ UNCHANGED promptVars

MenuChanges ==
    /\ screen' \in Screens
    /\ IF screen \in Menus /\ screen' \in Menus
         THEN UNCHANGED confirmVars
         ELSE confirmedHere' = 0 /\ confirmedInWait' = 0

TranscriptChanges ==
    /\ MarkersChange
    /\ IF Tui THEN UNCHANGED <<line, committed, promptVars>> ELSE LineChanges
    /\ IF AutoApprove THEN MenuChanges ELSE UNCHANGED <<screen, confirmVars>>

\* A chunk arrives before the poll times out and is fed to the emulators. Only
\* a visible change counts as activity.
ReadData ==
    /\ pc = "read"
    /\ ~eof
    /\ \E d \in 1..PollInterval : now' = now + d
    /\ sawOutput' = TRUE
    /\ stirredAt' = now'
    /\ \/ /\ TranscriptChanges
          /\ lastActivity' = now' /\ changedAt' = now'
          /\ state' = "Running"
       \/ /\ Redraws
          /\ UNCHANGED <<displayVars, lastActivity, changedAt, state, fenced, promptVars,
                         confirmVars>>
    /\ pc' = "confirm"
    /\ UNCHANGED <<phase, cmd, result, gate, savedGate, baseline, markerlessQuiet,
                   interruptedAt, answeredAt, approvalAnswered, sessionVars,
                   sent, replied>>

\* What the loop makes of the current line and of the screen.
ConfirmationLines == {l \in Lines : IsConfirmationPrompt(<<l>>)}
PromptLines       == {l \in Lines : LineEndsWithAny(<<l>>, PromptTokens)}
MenusSeen         == {s \in Screens : IsApprovalMenu(s, MenuWindow)}

Confirms    == line \in ConfirmationLines
MenuIsShown == screen \in MenusSeen

\* Mutant of ReplyDue: only the first question of a wait is answered.
ReplyDueOnce ==
    ~Tui /\ Confirms /\ AutoConfirm /\ interruptedAt = None /\ answeredAt = None

\* Mutant of ReplyDue: every chunk that leaves a question is answered.
ReplyDueAlways == ~Tui /\ Confirms /\ AutoConfirm /\ interruptedAt = None

\* The confirmation auto-reply is due.
ReplyDue ==
    /\ ~Tui
    /\ Confirms
    /\ AutoConfirm
    /\ interruptedAt = None
    /\ answeredAt # committed

\* Types `y` and Enter, then checks the deadline the typing may have passed.
ConfirmReply ==
    /\ pc = "confirm"
    /\ ReplyDue
    /\ state' = "ConfirmationPrompt"
    /\ \E d \in 0..MaxTyping : now' = now + d
    /\ answeredAt' = committed
    /\ lastActivity' = now' /\ stirredAt' = now'
    /\ interruptedAt' = IF ExecExpired(now') THEN now' ELSE None
    /\ replied' = replied \cup {promptNo}
    /\ pc' = "approve"
    /\ UNCHANGED <<phase, cmd, result, gate, savedGate, baseline, sawOutput,
                   markerlessQuiet, approvalAnswered, displayVars, sessionVars,
                   sent, fenced, changedAt, promptVars, confirmVars>>

\* The reply is two writes; their error is the wait's.
ConfirmReplyFails ==
    /\ pc = "confirm"
    /\ ReplyDue
    /\ slaveClosed
    /\ state' = "ConfirmationPrompt"
    /\ Return("error")
    /\ UNCHANGED <<cmd, baseline, sawOutput, markerlessQuiet, localVars, displayVars,
                   sessionVars, ghostVars>>

NoConfirmReply ==
    /\ pc = "confirm"
    /\ ~ReplyDue
    /\ state' = IF ~Tui /\ Confirms THEN "ConfirmationPrompt" ELSE state
    /\ pc' = "approve"
    /\ UNCHANGED <<phase, cmd, result, gate, savedGate, baseline, sawOutput,
                   markerlessQuiet, localVars, displayVars, sessionVars, ghostVars>>

\* Presses Enter once while a menu is shown; a chunk that shows none re-arms.
Approve ==
    /\ pc = "approve"
    /\ pc' = "gate"
    /\ LET watching == AutoApprove /\ interruptedAt = None
           press    == watching /\ MenuIsShown /\ ~approvalAnswered
       IN /\ state' = IF watching /\ MenuIsShown THEN "ConfirmationPrompt" ELSE state
          /\ approvalAnswered' = IF watching THEN MenuIsShown ELSE approvalAnswered
          /\ lastActivity' = IF press THEN now ELSE lastActivity
          /\ confirmedHere' = IF press THEN confirmedHere + 1 ELSE confirmedHere
          /\ confirmedInWait' = IF press THEN confirmedInWait + 1 ELSE confirmedInWait
    /\ UNCHANGED <<phase, cmd, result, gate, savedGate, baseline, sawOutput,
                   markerlessQuiet, now, interruptedAt, answeredAt, displayVars,
                   sessionVars, sent, fenced, changedAt, promptVars, replied, stirredAt>>

\* The closing marker completes the wait at once, even after a Ctrl+C.
GateCompletes ==
    /\ pc = "gate"
    /\ gate # NoNeedle /\ IdleGateOpen
    /\ state' = "Idle"
    /\ Return("Idle")
    /\ UNCHANGED <<cmd, baseline, sawOutput, markerlessQuiet, localVars, displayVars,
                   sessionVars, ghostVars>>

GateHolds ==
    /\ pc = "gate"
    /\ ~(gate # NoNeedle /\ IdleGateOpen)
    /\ pc' = "top"
    /\ UNCHANGED <<phase, cmd, result, fieldVars, localVars, displayVars, sessionVars,
                   ghostVars>>

-----------------------------------------------------------------------------
(* Output::Idle and Output::Eof.                                           *)

\* The target looks ready: a screen that was painted, or a trailing prompt.
LooksReady == IF Tui THEN sawOutput ELSE line \in PromptLines

\* Judged at time t, the end of a poll that brought nothing.
Settled(t) == interruptedAt = None /\ t - lastActivity >= IdleSilence /\ LooksReady

\* The poll times out: the clock moves by the poll interval, or a little more.
PollElapses == \E d \in PollInterval..(PollInterval + Overrun) : now' = now + d

Accepted(t) == Settled(t) /\ (IdleGateOpen \/ MarkerlessSettleAllowed(t))

QuietWindow(t) == t - lastActivity

ReadIdle ==
    /\ pc = "read"
    /\ ~eof
    /\ PollElapses
    /\ \/ /\ Accepted(now')
          /\ markerlessQuiet' = IF IdleGateOpen THEN markerlessQuiet ELSE QuietWindow(now')
          /\ state' = "Idle"
          /\ Return("Idle")
       \/ /\ ~Accepted(now')
          /\ pc' = "top"
          /\ UNCHANGED <<phase, result, gate, savedGate, markerlessQuiet, state>>
    /\ UNCHANGED <<cmd, baseline, sawOutput, lastActivity, interruptedAt, answeredAt,
                   approvalAnswered, displayVars, sessionVars, ghostVars>>

\* Mutant of EofOutcome: the gate is looked at before the watchdog's Ctrl+C.
EofOutcomeGateFirst ==
    IF gate # NoNeedle /\ ~IdleGateOpen THEN "TargetExitedEarly"
    ELSE IF interruptedAt # None THEN "TimedOut"
    ELSE "Completed"

EofOutcome ==
    IF interruptedAt # None THEN "TimedOut"
    ELSE IF gate # NoNeedle /\ ~IdleGateOpen THEN "TargetExitedEarly"
    ELSE "Completed"

\* End-of-stream, once the slave is closed; it is reported again at every read.
ReadEof ==
    /\ pc = "read"
    /\ slaveClosed
    /\ eof' = TRUE
    /\ Return(EofOutcome)
    /\ UNCHANGED <<cmd, baseline, sawOutput, markerlessQuiet, state, localVars,
                   displayVars, slaveClosed, terminated, ghostVars>>

-----------------------------------------------------------------------------
\* The target closes the slave, at any time (external).
TargetCloses ==
    /\ ~slaveClosed
    /\ slaveClosed' = TRUE
    /\ UNCHANGED <<callVars, fieldVars, localVars, displayVars, eof, terminated, ghostVars>>

WaitStep ==
    \/ HardCap \/ WatchdogKill \/ WatchdogInterrupt \/ WatchdogQuiet
    \/ ReadData \/ ConfirmReply \/ ConfirmReplyFails \/ NoConfirmReply
    \/ Approve \/ GateCompletes \/ GateHolds \/ ReadIdle \/ ReadEof

\* What the wrapper does by itself once it has been called.
Step == Send \/ SendFails \/ WaitStep

\* A library client: it may wait first, and then runs the commands in order
\* until one of them finds the target gone or unresponsive.
Client ==
    \/ cmd = 0 /\ result = "none" /\ WaitUntilIdle
    \/ /\ result \in {"none", "Idle", "Completed"}
       /\ cmd < NumCmds
       /\ RunCommand(cmd + 1, IF Gated THEN NeedleOf[cmd + 1] ELSE NoNeedle)

Next == Client \/ Step \/ TargetCloses

Spec == Init /\ [][Next]_vars

\* The wrapper's own thread keeps running; the target may do nothing for ever.
FairSpec == Spec /\ WF_vars(Step)

-----------------------------------------------------------------------------
(* Properties.                                                             *)

\* The longest the loop goes without looking at its deadlines.
MaxIteration == PollInterval + (IF MaxTyping > Overrun THEN MaxTyping ELSE Overrun)

\* Whatever the target prints, no wait outlives the watchdog's two stages or the
\* hard cap by more than an iteration, and the Ctrl+C is not late by more.
WaitBounded ==
    /\ now < ExecTimeout + InterruptGrace + 2 * MaxIteration
    /\ interruptedAt < ExecTimeout + MaxIteration
    /\ HardTimeout # None => now < HardTimeout + MaxIteration

\* The wrapper kills the target only at the hard cap, or a full grace after a
\* Ctrl+C it sent when the budget of this wait was spent.
KillIsDue ==
    [][~terminated /\ terminated' =>
         \/ HardTimeout # None /\ now >= HardTimeout
         \/ /\ interruptedAt >= ExecTimeout
            /\ now >= interruptedAt + InterruptGrace]_vars

Returned(o) == phase = "none" /\ result = o

\* markerless_quiet reports a gated wait accepted without the marker and no
\* other, and such a wait had seen nothing change for the time it reports:
\* idle_silence at least, and the whole grace unless the budget was running out.
MarkerlessExact ==
    Returned("Idle") =>
        /\ IdleGateOpen <=> markerlessQuiet = None
        /\ markerlessQuiet # None =>
             /\ MarkerlessGrace # None
             /\ interruptedAt = None
             /\ IdleSilence <= markerlessQuiet
             /\ markerlessQuiet <= now - changedAt
             /\ markerlessQuiet < MarkerlessGrace => now + IdleSilence >= ExecTimeout

\* Whether a reply may be accepted without its marker, of a target that looks ready.
MayDoWithoutMarker == gate # NoNeedle /\ MarkerlessGrace # None /\ LooksReady

\* The wait gives up on a target: it sends the Ctrl+C, or kills it at once.
GivesUp == interruptedAt = None /\ (interruptedAt' # None \/ terminated' # terminated)

\* A marker-less reply that has fallen silent is never converted into a timeout: with
\* a grace configured, of any length, neither the Ctrl+C nor a hard cap of no less than
\* the timeout (the CLI's default) strikes a target that looks ready when nothing has
\* been read from it, and no question of its answered, for idle_silence.
SilenceNeverTimesOut ==
    [][HardTimeout = None \/ HardTimeout >= ExecTimeout =>
         ~(GivesUp /\ MayDoWithoutMarker /\ now - stirredAt >= IdleSilence)
      ]_<<interruptedAt, terminated>>

\* A command's wait completes on the closing marker only when the target has
\* ended the reply to that very command.
NoStaleCompletion ==
    Returned("Idle") /\ gate # NoNeedle /\ markerlessQuiet = None => cmd \in fenced

\* Once the loop has looked at a chunk, the question it left on the current line
\* has been answered in this wait, unless the watchdog has struck.
EachPromptAnswered ==
    pc = "approve" /\ ~Tui /\ AutoConfirm /\ line \in Questions =>
        promptNo \in replied \/ interruptedAt # None

\* No question is answered twice in a wait, nor any after the Ctrl+C, and nothing is
\* typed at a line that asks nothing.
AnsweredOnce ==
    [][ConfirmReply =>
         line \in Questions /\ promptNo \notin replied /\ interruptedAt = None]_vars

\* In each wait a menu gets exactly one Enter for as long as it stays on screen; a text
\* that only mentions one, or has one far above, gets none. The latch is a local of the
\* wait: a menu that is still there in the next wait gets another Enter.
ConfirmedOncePerWait ==
    /\ confirmedInWait <= IF screen \in Menus THEN 1 ELSE 0
    /\ pc = "gate" /\ AutoApprove /\ screen \in Menus /\ interruptedAt = None =>
         confirmedInWait = 1

\* What wrapper.rs:745-746 says of the latch, for the whole time that a menu stays on the
\* screen: each is confirmed once. The readiness wait and the reply wait each press Enter.
AppearanceConfirmedOnce == confirmedHere <= 1

\* Every call returns, whatever the target does.
CallReturns == phase # "none" ~> phase = "none"
=============================================================================
