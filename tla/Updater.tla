------------------------------- MODULE Updater -------------------------------
(***************************************************************************)
(* src/src/update.rs: `flat-cyborg update` replacing the installed binary. *)
(*                                                                         *)
(* Every updater is a process of its own; they share the install           *)
(* directory. One action is one effect on the files, so that a crash, a    *)
(* failure or another updater can come between any two. Staging beside the *)
(* binary is the ordinary way; when that download fails, for whatever      *)
(* reason, the updater stages in a private directory and installs with     *)
(* sudo, where `mv` crosses file systems and copies.                       *)
(***************************************************************************)
EXTENDS Integers, FiniteSets, Sequences

CONSTANTS
    Updaters,      \* the processes, all started from the installed binary
    NoOne,
    Version,       \* VERSION, the version they were built from
    Tags,          \* what the latest release may be called, each asked for anew
    UpdateArgs,    \* what may follow `update` on the command line
    Insecure,      \* FLAT_CYBORG_INSECURE=1
    Crashes,       \* an updater may die between two steps
    RestoreFails   \* putting the original back may fail

ASSUME UpdaterAssumption ==
    /\ NoOne \notin Updaters /\ IsFiniteSet(Updaters)
    /\ Insecure \in BOOLEAN /\ Crashes \in BOOLEAN /\ RestoreFails \in BOOLEAN

VARIABLES
    files,      \* what each path holds
    privateDir, \* the updater's private staging directory exists
    pc,
    target,     \* the updater's current_exe
    privileged, \* staged privately, to be installed with sudo
    verdict,    \* of verify_checksum
    result,     \* what the updater reported
    \* what happened
    movedAside, \* the updaters that took the installed binary away
    cutShort    \* those whose copy into its place broke off

procVars  == <<pc, target, privileged, verdict, result>>
ghostVars == <<movedAside, cutShort>>
updateVars == <<files, privateDir, procVars, ghostVars>>

Exe        == <<"installed", NoOne>>
Deleted    == <<"deleted", NoOne>>    \* the path of an unlinked binary
Backup(u)  == <<"backup", u>>
Beside(u)  == <<"beside", u>>
Private(u) == <<"private", u>>
Paths == {Exe, Deleted} \cup ({"backup", "beside", "private"} \X Updaters)

Nothing    == <<"nothing", NoOne>>
Old        == <<"running", NoOne>>   \* the binary the updaters were started from
Good       == <<"release", NoOne>>
Bad        == <<"other", NoOne>>     \* a download that is not the release
Partial(u) == <<"partial", u>>       \* what u has copied so far
Contents   == {Nothing, Old, Good, Bad} \cup {Partial(u) : u \in Updaters}

Staged(u) == IF privileged[u] THEN Private(u) ELSE Beside(u)

UpdateInit ==
    /\ files = [p \in Paths |-> IF p = Exe THEN Old ELSE Nothing]
    /\ privateDir = [u \in Updaters |-> FALSE]
    /\ pc = [u \in Updaters |-> "start"]
    /\ target = [u \in Updaters |-> Deleted]
    /\ privileged = [u \in Updaters |-> FALSE]
    /\ verdict = [u \in Updaters |-> "none"]
    /\ result = [u \in Updaters |-> "none"]
    /\ movedAside = {} /\ cutShort = {}

Goto(u, from, to) == pc[u] = from /\ pc' = [pc EXCEPT ![u] = to]

\* A rename (or a move), which replaces what the new path held.
Move(from, to) ==
    /\ files[from] # Nothing
    /\ files' = [files EXCEPT ![to] = files[from], ![from] = Nothing]

Report(u, r) == result' = [result EXCEPT ![u] = r]

-----------------------------------------------------------------------------
(* cmd_update and the head of run_update.                                  *)

\* A version is a sequence of parts, a part a number and what follows it.
NoNumber == -1

ParseVersion(v) ==
    [i \in DOMAIN v |-> IF v[i] = <<>> \/ v[i][1] = NoNumber THEN 0 ELSE v[i][1]]

Component(v, i) == IF i \in DOMAIN v THEN v[i] ELSE 0

\* Left to right, a missing component being zero.
IsNewer(latest, current) ==
    LET l == ParseVersion(latest)
        c == ParseVersion(current)
    IN  \E i \in DOMAIN l \cup DOMAIN c :
            /\ Component(l, i) > Component(c, i)
            /\ \A j \in 1 .. i - 1 : Component(l, j) = Component(c, j)

\* Anything but --check is refused.
CmdUpdate(u) ==
    /\ \E args \in UpdateArgs :
          LET known     == \A i \in DOMAIN args : args[i] = "--check"
              checkOnly == args # <<>>
          IN  \/ ~known /\ Goto(u, "start", "done") /\ Report(u, "usage")
              \/ known /\ checkOnly /\ Goto(u, "start", "check") /\ UNCHANGED result
              \/ known /\ ~checkOnly /\ Goto(u, "start", "ask") /\ UNCHANGED result
    /\ UNCHANGED <<files, privateDir, target, privileged, verdict, ghostVars>>

\* The latest release is asked for, and compared with the running version.
AskLatest(u) ==
    /\ \E tag \in Tags :
          \/ /\ ~IsNewer(tag, Version)
             /\ Goto(u, "check", "done") \/ Goto(u, "ask", "done")
             /\ Report(u, "up to date")
          \/ /\ IsNewer(tag, Version)
             /\ \/ Goto(u, "check", "done") /\ Report(u, "available")
                \/ Goto(u, "ask", "locate") /\ UNCHANGED result
    /\ UNCHANGED <<files, privateDir, target, privileged, verdict, ghostVars>>

\* No answer; or no asset for this platform, or no path of the running binary.
AskLatestFails(u) ==
    /\ \E from \in {"check", "ask", "locate"} : Goto(u, from, "done")
    /\ Report(u, "error")
    /\ UNCHANGED <<files, privateDir, target, privileged, verdict, ghostVars>>

-----------------------------------------------------------------------------
(* Staging.                                                                *)

\* current_exe() is where the running binary is by now, wherever another updater
\* has moved it (external).
RunningAt == IF \E p \in Paths : files[p] = Old
               THEN CHOOSE p \in Paths : files[p] = Old
               ELSE Deleted

Locate(u) ==
    /\ Goto(u, "locate", "fetch")
    /\ target' = [target EXCEPT ![u] = RunningAt]
    /\ UNCHANGED <<files, privateDir, privileged, verdict, result, ghostVars>>

FetchBeside(u) ==
    /\ \E download \in {Good, Bad} : files' = [files EXCEPT ![Beside(u)] = download]
    /\ Goto(u, "fetch", "verify")
    /\ UNCHANGED <<privateDir, target, privileged, verdict, result, ghostVars>>

\* The download fails: the directory is read-only, or part of it arrived.
FetchBesideFails(u) ==
    /\ files' \in {files, [files EXCEPT ![Beside(u)] = Bad]}
    /\ Goto(u, "fetch", "private")
    /\ UNCHANGED <<privateDir, target, privileged, verdict, result, ghostVars>>

MakePrivateDir(u) ==
    /\ Goto(u, "private", "fetchPrivately")
    /\ privateDir' = [privateDir EXCEPT ![u] = TRUE]
    /\ UNCHANGED <<files, target, privileged, verdict, result, ghostVars>>

\* It cannot be created, or cannot be secured.
MakePrivateDirFails(u) ==
    /\ Goto(u, "private", "done")
    /\ \E created \in BOOLEAN : privateDir' = [privateDir EXCEPT ![u] = created]
    /\ Report(u, "error")
    /\ UNCHANGED <<files, target, privileged, verdict, ghostVars>>

FetchPrivately(u) ==
    /\ Goto(u, "fetchPrivately", "verify")
    /\ \E download \in {Good, Bad} : files' = [files EXCEPT ![Private(u)] = download]
    /\ privileged' = [privileged EXCEPT ![u] = TRUE]
    /\ UNCHANGED <<privateDir, target, verdict, result, ghostVars>>

\* The directory is removed with what arrived in it, unless that fails as well.
FetchPrivatelyFails(u) ==
    /\ Goto(u, "fetchPrivately", "done")
    /\ \/ privateDir' = [privateDir EXCEPT ![u] = FALSE] /\ UNCHANGED files
       \/ files' \in {files, [files EXCEPT ![Private(u)] = Bad]} /\ UNCHANGED privateDir
    /\ Report(u, "error")
    /\ UNCHANGED <<target, privileged, verdict, ghostVars>>

-----------------------------------------------------------------------------
(* Verification. Without a checksum file or a tool to compute one there is *)
(* nothing to compare; only then does Insecure make a difference.          *)

\* Mutant of Verdicts: Insecure forgives a mismatch.
VerdictsForgiving(content) ==
    (IF content = Good THEN {"match"} ELSE {"mismatch"} \cup
        (IF Insecure THEN {"match"} ELSE {}))
      \cup {IF Insecure THEN "skipped" ELSE "refused"}

Verdicts(content) ==
    {IF content = Good THEN "match" ELSE "mismatch"}
      \cup {IF Insecure THEN "skipped" ELSE "refused"}

\* The staged file is verified and, if that goes well, made executable.
VerifyChecksum(u) ==
    /\ \E v \in Verdicts(files[Staged(u)]) :
          /\ verdict' = [verdict EXCEPT ![u] = v]
          /\ \/ v \in {"match", "skipped"} /\ Goto(u, "verify", "aside") /\ UNCHANGED result
             \/ Goto(u, "verify", "cleanup") /\ Report(u, "error")
    /\ UNCHANGED <<files, privateDir, target, privileged, ghostVars>>

-----------------------------------------------------------------------------
(* replace_executable and sudo_replace.                                    *)

MoveAside(u) ==
    /\ Goto(u, "aside", "install")
    /\ Move(target[u], Backup(u))
    /\ movedAside' = movedAside \cup {u}
    /\ UNCHANGED <<privateDir, target, privileged, verdict, result, cutShort>>

\* Mutant of MoveAsideFails: the new binary is moved over the old one.
MoveAsideFailsUnnoticed(u) ==
    /\ Goto(u, "aside", "install")
    /\ UNCHANGED <<files, privateDir, target, privileged, verdict, result, ghostVars>>

MoveAsideFails(u) ==
    /\ Goto(u, "aside", "cleanup")
    /\ Report(u, "error")
    /\ UNCHANGED <<files, privateDir, target, privileged, verdict, ghostVars>>

\* A rename beside the binary is one step.
Install(u) ==
    /\ ~privileged[u]
    /\ Goto(u, "install", "unlink")
    /\ Move(Staged(u), target[u])
    /\ UNCHANGED <<privateDir, target, privileged, verdict, result, ghostVars>>

\* A move across file systems is a copy that another process can see half done.
InstallCopies(u) ==
    /\ privileged[u]
    /\ Goto(u, "install", "copy")
    /\ files' = [files EXCEPT ![target[u]] = Partial(u)]
    /\ UNCHANGED <<privateDir, target, privileged, verdict, result, ghostVars>>

\* The copy is finished wherever another updater has moved it, if it is not gone.
InstallCopied(u) ==
    /\ Goto(u, "copy", "unlink")
    /\ files' = [p \in Paths |->
                   IF p = Staged(u) THEN Nothing
                   ELSE IF files[p] = Partial(u) THEN files[Staged(u)] ELSE files[p]]
    /\ UNCHANGED <<privateDir, target, privileged, verdict, result, ghostVars>>

\* Mutant of InstallFails: the way on is that of a successful installation.
InstallFailsUnnoticed(u) ==
    /\ Goto(u, "install", "unlink") \/ Goto(u, "copy", "unlink")
    /\ cutShort' = IF pc[u] = "copy" THEN cutShort \cup {u} ELSE cutShort
    /\ UNCHANGED <<files, privateDir, target, privileged, verdict, result, movedAside>>

InstallFails(u) ==
    /\ Goto(u, "install", "restore") \/ Goto(u, "copy", "restore")
    /\ cutShort' = IF pc[u] = "copy" THEN cutShort \cup {u} ELSE cutShort
    /\ UNCHANGED <<files, privateDir, target, privileged, verdict, result, movedAside>>

\* The original is put back; whether that worked is not looked at.
Restore(u) ==
    /\ Goto(u, "restore", "cleanup")
    /\ \/ Move(Backup(u), target[u])
       \/ (RestoreFails \/ files[Backup(u)] = Nothing) /\ UNCHANGED files
    /\ Report(u, "error")
    /\ UNCHANGED <<privateDir, target, privileged, verdict, ghostVars>>

\* The backup may stay: whether its removal worked is not looked at either.
RemoveBackup(u) ==
    /\ Goto(u, "unlink", "cleanup")
    /\ files' \in {files, [files EXCEPT ![Backup(u)] = Nothing]}
    /\ Report(u, "updated")
    /\ UNCHANGED <<privateDir, target, privileged, verdict, ghostVars>>

\* The staged file is removed and, with what it holds, the private directory. Either
\* removal may fail unnoticed.
Cleanup(u) ==
    /\ Goto(u, "cleanup", "done")
    /\ files' \in {files, [files EXCEPT ![Staged(u)] = Nothing]}
    /\ IF privileged[u] /\ files'[Staged(u)] = Nothing
         THEN privateDir' \in {privateDir, [privateDir EXCEPT ![u] = FALSE]}
         ELSE UNCHANGED privateDir
    /\ UNCHANGED <<target, privileged, verdict, result, ghostVars>>

\* The process is killed (external).
Crash(u) ==
    /\ Crashes
    /\ pc[u] \notin {"done", "crashed"}
    /\ pc' = [pc EXCEPT ![u] = "crashed"]
    /\ UNCHANGED <<files, privateDir, target, privileged, verdict, result, ghostVars>>

-----------------------------------------------------------------------------
AskRelease(u) == CmdUpdate(u) \/ AskLatest(u) \/ AskLatestFails(u)

Stage(u) ==
    \/ Locate(u) \/ FetchBeside(u) \/ FetchBesideFails(u)
    \/ MakePrivateDir(u) \/ MakePrivateDirFails(u)
    \/ FetchPrivately(u) \/ FetchPrivatelyFails(u)

Replace(u) ==
    \/ MoveAside(u) \/ MoveAsideFails(u)
    \/ Install(u) \/ InstallCopies(u) \/ InstallCopied(u) \/ InstallFails(u)
    \/ Restore(u) \/ RemoveBackup(u)

RunUpdate(u) == AskRelease(u) \/ Stage(u) \/ VerifyChecksum(u) \/ Replace(u) \/ Cleanup(u)

UpdateNext == \E u \in Updaters : RunUpdate(u) \/ Crash(u)

-----------------------------------------------------------------------------
(* Properties.                                                             *)

Works(p) == files[p] \in {Old, Good, Bad}

\* At every instant, a crash or a failure of any step included, a whole binary is
\* installed or can be put back by hand from a backup. With two updaters at work
\* this stands as long as no copy into the binary's place breaks off.
NeverUnrecoverable ==
    Cardinality(movedAside) <= 1 \/ cutShort = {} =>
        Works(Exe) \/ \E u \in Updaters : Works(Backup(u))

\* A download that is not the published release is installed only when there was
\* no checksum to compare it with and Insecure was asked for.
OnlyVerifiedInstalled ==
    files[Exe] = Bad => Insecure /\ \E u \in Updaters : verdict[u] = "skipped"

\* As long as no other updater has moved the binary, what an updater reports is so: after
\* a success what it downloaded is installed, whole; after anything else the original is
\* installed or, when putting it back failed, still in the backup.
ReportsAreTrue ==
    \A u \in Updaters : movedAside \subseteq {u} =>
        /\ result[u] = "updated" => files[Exe] \in {Good, Bad}
        /\ result[u] \notin {"none", "updated"} => Old \in {files[Exe], files[Backup(u)]}
=============================================================================
