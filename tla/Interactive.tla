----------------------------- MODULE Interactive -----------------------------
(***************************************************************************)
(* src/src/main.rs and src/src/terminal.rs: the process around a session.  *)
(*                                                                         *)
(* `run` hands the session either to a Wrapper, which calls its methods as *)
(* it pleases, or to `interactive`: a guard puts the user's terminal into  *)
(* raw mode, a detached thread forwards the keyboard over an InputHandle,  *)
(* and the main thread mirrors the output until end-of-stream. On the way  *)
(* out the guard goes first and the session second; then the process ends, *)
(* and every thread with it, wherever it is blocked.                       *)
(***************************************************************************)
EXTENDS PtySession

VARIABLES
    frontend,  \* what `run` chose: "wrapper" or "interactive"
    mainPc,    \* of the main thread: "guard", "spawn", "mirror", "unwind",
               \* "dropSession", "dropping", "exited"
    stdinPc,   \* of the stdin thread: "none", "read", "write", "done"
    terminal,  \* mode of the user's terminal: "canonical" or "raw"
    guard,     \* a RawModeGuard is held
    hungUp,    \* the terminal went away
    ending     \* why the main thread leaves: "none", "eof", "error", "panic", "signal"

ownerVars == <<frontend, mainPc, stdinPc, terminal, guard, hungUp, ending>>
allVars   == <<vars, ownerVars>>

\* `run` with no command: interactive only when stdin is a terminal.
RunInit ==
    /\ Init
    /\ frontend \in {"wrapper", "interactive"}
    /\ mainPc = "guard" /\ stdinPc = "none"
    /\ terminal = "canonical" /\ guard = FALSE /\ hungUp = FALSE /\ ending = "none"

Runs == mainPc # "exited"

Goto(from, to) == mainPc = from /\ mainPc' = to

-----------------------------------------------------------------------------
(* RawModeGuard.                                                           *)

\* RawModeGuard::new: no guard for what is no terminal (any more); an error of
\* any of its three calls is returned before or instead of the change.
GuardNew ==
    \/ /\ hungUp
       /\ Goto("guard", "spawn") /\ UNCHANGED <<terminal, guard, ending>>
    \/ /\ ~hungUp
       /\ Goto("guard", "spawn") /\ terminal' = "raw" /\ guard' = TRUE /\ UNCHANGED ending
    \/ /\ Goto("guard", "unwind") /\ ending' = "error" /\ UNCHANGED <<terminal, guard>>

TakeGuard ==
    /\ GuardNew
    /\ UNCHANGED <<vars, frontend, stdinPc, hungUp>>

\* Mutant of DropGuard: an error path that leaves without dropping the guard.
DropGuardUnlessPanic ==
    /\ Goto("unwind", "dropSession")
    /\ guard' = FALSE
    /\ terminal' = IF guard /\ ~hungUp /\ ending # "panic" THEN "canonical" ELSE terminal
    /\ UNCHANGED <<vars, frontend, stdinPc, hungUp, ending>>

\* Scope exit or unwinding: the guard, a local, is dropped before the session, a
\* parameter. Restoring a terminal that is gone fails unnoticed.
DropGuard ==
    /\ Goto("unwind", "dropSession")
    /\ guard' = FALSE
    /\ terminal' = IF guard /\ ~hungUp THEN "canonical" ELSE terminal
    /\ UNCHANGED <<vars, frontend, stdinPc, hungUp, ending>>

-----------------------------------------------------------------------------
(* The main thread of interactive.                                         *)

\* input_handle is Some: nothing but Drop takes the session's sender away.
SpawnStdin ==
    /\ Goto("spawn", "mirror")
    /\ stdinPc' = "read"
    /\ InputHandle
    /\ UNCHANGED <<frontend, terminal, guard, hungUp, ending>>

\* thread::spawn panics when the OS has no thread to give.
SpawnPanics ==
    /\ Goto("spawn", "unwind")
    /\ ending' = "panic"
    /\ UNCHANGED <<vars, frontend, stdinPc, terminal, guard, hungUp>>

\* A chunk is mirrored; an error of stdout is ignored. Idle is a stutter.
Mirror ==
    /\ mainPc = "mirror"
    /\ ReadData
    /\ UNCHANGED ownerVars

MirrorEof ==
    /\ Goto("mirror", "unwind")
    /\ ReadEof
    /\ ending' = "eof"
    /\ UNCHANGED <<frontend, stdinPc, terminal, guard, hungUp>>

DropSession ==
    /\ Goto("dropSession", "dropping")
    /\ DropInput
    /\ UNCHANGED <<frontend, stdinPc, terminal, guard, hungUp, ending>>

OwnerTeardown ==
    /\ Teardown
    /\ UNCHANGED ownerVars

\* The process is gone, and with it its threads, channels and descriptors.
Vanish ==
    /\ mainPc' = "exited" /\ stdinPc' = "done" /\ guard' = FALSE
    /\ hostPc' = "gone" /\ closing' = TRUE /\ input' = FALSE /\ handles' = 0
    /\ readerPc' = "done" /\ chunk' = 0 /\ writerPc' = "done" /\ msg' = 0
    /\ inq' = <<>> /\ outq' = <<>>
    /\ UNCHANGED <<typed, terminated, signals, strangerHit, targetVars, ttyVars,
                   delivered, eof, frontend, terminal, hungUp>>

Exit ==
    /\ mainPc = "dropping" /\ hostPc = "gone"
    /\ Vanish
    /\ UNCHANGED ending

\* A fatal signal skips every destructor (external).
FatalSignal ==
    /\ frontend = "interactive" /\ Runs
    /\ Vanish
    /\ ending' = "signal"

MainStep ==
    /\ frontend = "interactive"
    /\ \/ TakeGuard \/ SpawnStdin \/ SpawnPanics \/ Mirror \/ MirrorEof
       \/ DropGuard \/ DropSession \/ OwnerTeardown \/ Exit

-----------------------------------------------------------------------------
(* The stdin thread. It holds the handle until its loop ends.              *)

\* The user types (external).
StdinRead ==
    /\ stdinPc = "read"
    /\ stdinPc' = "write"
    /\ UNCHANGED <<vars, frontend, mainPc, terminal, guard, hungUp, ending>>

StdinWrite ==
    /\ stdinPc = "write"
    /\ HandleWrite
    /\ stdinPc' = "read"
    /\ UNCHANGED <<frontend, mainPc, terminal, guard, hungUp, ending>>

\* End-of-file or an error of stdin, or the writer thread is gone.
StdinEnds ==
    /\ stdinPc = "read" \/ (stdinPc = "write" /\ writerPc = "done")
    /\ stdinPc' = "done"
    /\ HandleDropped
    /\ UNCHANGED <<frontend, mainPc, terminal, guard, hungUp, ending>>

HangUp ==
    /\ frontend = "interactive" /\ Runs /\ ~hungUp
    /\ hungUp' = TRUE
    /\ UNCHANGED <<vars, frontend, mainPc, stdinPc, terminal, guard, ending>>

StdinStep == StdinRead \/ StdinWrite \/ StdinEnds

-----------------------------------------------------------------------------
\* A Wrapper, or any other owner: the calls of PtySession in any order.
OwnedByWrapper ==
    /\ frontend = "wrapper"
    /\ Host \/ Handles
    /\ UNCHANGED ownerVars

TargetStep == Target /\ UNCHANGED ownerVars
ReaderStep == Reader /\ UNCHANGED ownerVars
WriterStep == Writer /\ UNCHANGED ownerVars

RunNext ==
    \/ TargetStep \/ ReaderStep \/ WriterStep
    \/ OwnedByWrapper
    \/ MainStep \/ StdinStep \/ HangUp \/ FatalSignal

\* As FairSpec of PtySession; besides, the main thread of interactive runs. The
\* stdin thread may be blocked on the keyboard for ever.
RunSpec ==
    /\ RunInit /\ [][RunNext]_allVars
    /\ WF_allVars(ReaderStep) /\ WF_allVars(WriterStep)
    /\ WF_allVars(frontend = "wrapper" /\ OwnerTeardown)
    /\ WF_allVars(frontend = "wrapper" /\ (ReadData \/ ReadEof) /\ UNCHANGED ownerVars)
    /\ WF_allVars(MainStep)

-----------------------------------------------------------------------------
(* Properties.                                                             *)

\* The terminal is raw only while somebody holds the guard that will restore it:
\* once interactive has let go of it, by end-of-stream, an error or a panic, the
\* terminal is canonical again, unless it is gone or a fatal signal struck.
TerminalRestored ==
    /\ terminal = "raw" => guard \/ hungUp \/ ending = "signal"
    /\ mainPc \in {"dropSession", "dropping", "exited"} => ~guard

\* Interactive mode ends once nobody holds the slave, even though the stdin
\* thread is still blocked on the keyboard with a sender of its own.
ExitsAfterTarget ==
    (frontend = "interactive" /\ holders = {}) ~> mainPc = "exited"
=============================================================================
