----------------------------- MODULE PtySession -----------------------------
(***************************************************************************)
(* src/src/pty.rs: a target program inside a pseudo-terminal.              *)
(*                                                                         *)
(* Four parties interleave:                                                *)
(*   - the target: the child the session spawned (leader of its own        *)
(*     process group), the group members it forks and the descendants that *)
(*     left the group, any of which may hold the slave side open;          *)
(*   - the reader thread, which moves units from the master to the output  *)
(*     channel;                                                            *)
(*   - the writer thread, which moves units from the input channel to the  *)
(*     master;                                                             *)
(*   - the host, which owns the session and calls its methods, drops it,   *)
(*     and may keep InputHandle clones in other threads.                   *)
(*                                                                         *)
(* Units of output and input are numbered 1, 2, ... in the order they are  *)
(* written; a unit stands for the bytes of one read or one queued write.   *)
(***************************************************************************)
EXTENDS Naturals, Sequences

CONSTANTS
    Child,        \* the spawned process, leader of the target's process group
    Members,      \* descendants that stay in the child's process group
    Escaped,      \* descendants that left it (setsid)
    MaxUnits,     \* bound: units the target writes
    MaxTyped,     \* bound: units queued as input
    MaxHandles,   \* bound: InputHandle clones alive at once
    OutCap,       \* capacity of the kernel's output buffer, in units
    InCap,        \* capacity of the kernel's input buffer, in units
    RawChild      \* whether the host also waits through `child()`

ASSUME PtyAssumption ==
    /\ Child \notin Members \cup Escaped
    /\ Members \cap Escaped = {}
    /\ MaxUnits \in Nat /\ MaxTyped \in Nat /\ MaxHandles \in Nat
    /\ OutCap \in Nat \ {0} /\ InCap \in Nat \ {0}
    /\ RawChild \in BOOLEAN

VARIABLES
    \* the target and the kernel
    born,         \* processes that have been forked
    alive,        \* processes that have not died
    killed,       \* processes with a SIGKILL pending
    holders,      \* processes holding the slave side open
    childStatus,  \* "running", "zombie" (dead, not waited for) or "reaped"
    pidReused,    \* the child's pid now names an unrelated process group
    written,      \* how many units the target has written
    kout,         \* units written and not yet read from the master
    kin,          \* units written to the master and not yet read by the target
    consumed,     \* units of input the target has read
    \* the two threads
    readerPc,     \* "read", "send" or "done"
    chunk,        \* the unit the reader holds, 0 when none
    writerPc,     \* "recv", "write" or "done"
    msg,          \* the unit the writer holds, 0 when none
    \* the channels
    outq,         \* PtySession.output: sent by the reader, not yet received
    inq,          \* the input channel
    input,        \* PtySession.input is Some
    handles,      \* InputHandle clones alive
    typed,        \* how many units of input were queued
    \* the session's owner
    hostPc,       \* "idle", "reap", "terminate", "joinReader", "joinWriter", "gone"
    closing,      \* Drop has started
    delivered,    \* units `read_output` has returned
    eof,          \* PtySession.eof
    terminated,   \* PtySession.terminated
    signals,      \* SIGKILLs sent to the target's process group
    strangerHit   \* a SIGKILL was sent to a recycled process-group id

targetVars == <<born, alive, killed, holders, childStatus, pidReused>>
ttyVars    == <<written, kout, kin, consumed>>
readerVars == <<readerPc, chunk>>
writerVars == <<writerPc, msg>>
inputVars  == <<inq, input, handles, typed>>
hostVars   == <<hostPc, closing, terminated, signals, strangerHit>>
vars == <<targetVars, ttyVars, readerVars, writerVars, inputVars, hostVars,
          outq, delivered, eof>>

Group     == {Child} \cup Members
Processes == Group \cup Escaped

-----------------------------------------------------------------------------
(* spawn_in: the child runs and holds the slave; both threads are started. *)

Init ==
    /\ born = {Child} /\ alive = {Child} /\ killed = {} /\ holders = {Child}
    /\ childStatus = "running" /\ pidReused = FALSE
    /\ written = 0 /\ kout = <<>> /\ kin = <<>> /\ consumed = <<>>
    /\ readerPc = "read" /\ chunk = 0
    /\ writerPc = "recv" /\ msg = 0
    /\ outq = <<>> /\ inq = <<>> /\ input = TRUE /\ handles = 0 /\ typed = 0
    /\ hostPc = "idle" /\ closing = FALSE /\ delivered = <<>> /\ eof = FALSE
    /\ terminated = FALSE /\ signals = 0 /\ strangerHit = FALSE

-----------------------------------------------------------------------------
(* The target and the kernel (external to src/).                           *)

\* A live process forks; the new one inherits the slave, and the group unless
\* it leaves it. A process that left the group has no child inside it.
Fork(p, q) ==
    /\ p \in alive \ killed
    /\ q \in Processes \ born
    /\ p \in Escaped => q \in Escaped
    /\ born' = born \cup {q}
    /\ alive' = alive \cup {q}
    /\ holders' = IF p \in holders THEN holders \cup {q} ELSE holders
    /\ UNCHANGED <<killed, childStatus, pidReused, ttyVars, readerVars, writerVars,
                   inputVars, hostVars, outq, delivered, eof>>

\* A process dies: by itself, by SIGHUP or by a pending SIGKILL.
Die(p) ==
    /\ p \in alive
    /\ alive' = alive \ {p}
    /\ killed' = killed \ {p}
    /\ holders' = holders \ {p}
    /\ childStatus' = IF p = Child THEN "zombie" ELSE childStatus
    /\ UNCHANGED <<born, pidReused, ttyVars, readerVars, writerVars, inputVars,
                   hostVars, outq, delivered, eof>>

\* A process closes the slave and keeps running.
CloseSlave(p) ==
    /\ p \in holders
    /\ holders' = holders \ {p}
    /\ UNCHANGED <<born, alive, killed, childStatus, pidReused, ttyVars, readerVars,
                   writerVars, inputVars, hostVars, outq, delivered, eof>>

\* The kernel reuses the child's pid. It cannot before the child is reaped, nor
\* while a process still belongs to the group that id names.
RecyclePid ==
    /\ childStatus = "reaped"
    /\ alive \cap Members = {}
    /\ ~pidReused
    /\ pidReused' = TRUE
    /\ UNCHANGED <<born, alive, killed, holders, childStatus, ttyVars, readerVars,
                   writerVars, inputVars, hostVars, outq, delivered, eof>>

\* A process writes a unit to the slave.
TargetWrite ==
    /\ holders # {}
    /\ written < MaxUnits
    /\ Len(kout) < OutCap
    /\ written' = written + 1
    /\ kout' = Append(kout, written + 1)
    /\ UNCHANGED <<kin, consumed, targetVars, readerVars, writerVars, inputVars,
                   hostVars, outq, delivered, eof>>

\* A process reads a unit of input from the slave.
TargetRead ==
    /\ holders # {}
    /\ kin # <<>>
    /\ consumed' = Append(consumed, Head(kin))
    /\ kin' = Tail(kin)
    /\ UNCHANGED <<written, kout, targetVars, readerVars, writerVars, inputVars,
                   hostVars, outq, delivered, eof>>

-----------------------------------------------------------------------------
(* The reader thread.                                                      *)

\* The receiver of the output channel lives as long as the session's fields.
ReceiverAlive == hostPc # "gone"

ReaderRead ==
    /\ readerPc = "read"
    /\ kout # <<>>
    /\ chunk' = Head(kout)
    /\ kout' = Tail(kout)
    /\ readerPc' = "send"
    /\ UNCHANGED <<written, kin, consumed, targetVars, writerVars, inputVars,
                   hostVars, outq, delivered, eof>>

\* Mutant of ReaderEof: the empty read that ends the stream is handed on as output.
ReaderEofEmptyChunk ==
    /\ readerPc = "read"
    /\ kout = <<>>
    /\ holders = {}
    /\ outq' = IF ReceiverAlive THEN Append(outq, chunk) ELSE outq
    /\ readerPc' = "done"
    /\ UNCHANGED <<chunk, targetVars, ttyVars, writerVars, inputVars, hostVars,
                   delivered, eof>>

\* Reading the master once the slave is closed and drained ends in EIO.
ReaderEof ==
    /\ readerPc = "read"
    /\ kout = <<>>
    /\ holders = {}
    /\ readerPc' = "done"
    /\ UNCHANGED <<chunk, targetVars, ttyVars, writerVars, inputVars, hostVars,
                   outq, delivered, eof>>

\* The send fails, and the thread ends, once the receiver is dropped.
ReaderSend ==
    /\ readerPc = "send"
    /\ IF ReceiverAlive
         THEN outq' = Append(outq, chunk) /\ readerPc' = "read"
         ELSE outq' = outq /\ readerPc' = "done"
    /\ chunk' = 0
    /\ UNCHANGED <<targetVars, ttyVars, writerVars, inputVars, hostVars, delivered, eof>>

-----------------------------------------------------------------------------
(* The writer thread.                                                      *)

Senders == input \/ handles > 0

WriterRecv ==
    /\ writerPc = "recv"
    /\ inq # <<>>
    /\ msg' = Head(inq)
    /\ inq' = Tail(inq)
    /\ writerPc' = "write"
    /\ UNCHANGED <<input, handles, typed, targetVars, ttyVars, readerVars, hostVars,
                   outq, delivered, eof>>

\* recv is Disconnected: the queue is empty and every sender is gone.
WriterInputDropped ==
    /\ writerPc = "recv"
    /\ inq = <<>>
    /\ ~Senders
    /\ writerPc' = "done"
    /\ UNCHANGED <<msg, targetVars, ttyVars, readerVars, inputVars, hostVars,
                   outq, delivered, eof>>

\* Mutant of WriterWrite: a non-blocking write that loses what does not fit.
WriterWriteLossy ==
    /\ writerPc = "write"
    /\ holders # {}
    /\ kin' = IF Len(kin) < InCap THEN Append(kin, msg) ELSE kin
    /\ msg' = 0
    /\ writerPc' = "recv"
    /\ UNCHANGED <<written, kout, consumed, targetVars, readerVars, inputVars, hostVars,
                   outq, delivered, eof>>

\* write_all blocks while the target does not read and its input buffer is full.
WriterWrite ==
    /\ writerPc = "write"
    /\ holders # {}
    /\ Len(kin) < InCap
    /\ kin' = Append(kin, msg)
    /\ msg' = 0
    /\ writerPc' = "recv"
    /\ UNCHANGED <<written, kout, consumed, targetVars, readerVars, inputVars, hostVars,
                   outq, delivered, eof>>

\* write_all fails once the slave is closed; the channel's receiver goes with
\* the thread, and what was still queued is lost.
WriterFails ==
    /\ writerPc = "write"
    /\ holders = {}
    /\ writerPc' = "done"
    /\ msg' = 0
    /\ inq' = <<>>
    /\ UNCHANGED <<input, handles, typed, targetVars, ttyVars, readerVars, hostVars,
                   outq, delivered, eof>>

-----------------------------------------------------------------------------
(* The host: the methods of PtySession and InputHandle.                    *)

\* Queueing a unit succeeds as long as the writer thread lives.
Queue ==
    /\ writerPc # "done"
    /\ typed < MaxTyped
    /\ typed' = typed + 1
    /\ inq' = Append(inq, typed + 1)
    /\ UNCHANGED <<input, handles, targetVars, ttyVars, readerVars, writerVars,
                   hostVars, outq, delivered, eof>>

WriteInput == hostPc = "idle" /\ input /\ Queue

\* A handle may outlive the session that made it.
HandleWrite == handles > 0 /\ Queue

InputHandle ==
    /\ hostPc = "idle"
    /\ input
    /\ handles < MaxHandles
    /\ handles' = handles + 1
    /\ UNCHANGED <<inq, input, typed, targetVars, ttyVars, readerVars, writerVars,
                   hostVars, outq, delivered, eof>>

HandleDropped ==
    /\ handles > 0
    /\ handles' = handles - 1
    /\ UNCHANGED <<inq, input, typed, targetVars, ttyVars, readerVars, writerVars,
                   hostVars, outq, delivered, eof>>

\* read_output returning Data. Output::Idle changes nothing and is a stutter.
ReadData ==
    /\ hostPc = "idle"
    /\ ~eof
    /\ outq # <<>>
    /\ delivered' = Append(delivered, Head(outq))
    /\ outq' = Tail(outq)
    /\ UNCHANGED <<eof, targetVars, ttyVars, readerVars, writerVars, inputVars, hostVars>>

\* Mutant of ReadEof: end-of-stream as soon as the reader thread has ended,
\* before the channel is drained.
ReadEofUndrained ==
    /\ hostPc = "idle"
    /\ ~eof
    /\ readerPc = "done"
    /\ eof' = TRUE
    /\ UNCHANGED <<delivered, outq, targetVars, ttyVars, readerVars, writerVars,
                   inputVars, hostVars>>

\* read_output returning Eof: the channel is Disconnected only once it is empty
\* and the reader thread, its only sender, has ended.
ReadEof ==
    /\ hostPc = "idle"
    /\ ~eof
    /\ outq = <<>>
    /\ readerPc = "done"
    /\ eof' = TRUE
    /\ UNCHANGED <<delivered, outq, targetVars, ttyVars, readerVars, writerVars,
                   inputVars, hostVars>>

\* Mutant of WaitWithTimeout: the child is reaped but not marked terminated.
WaitWithTimeoutUnmarked ==
    /\ hostPc = "idle"
    /\ childStatus # "running"
    /\ childStatus' = "reaped"
    /\ UNCHANGED <<born, alive, killed, holders, pidReused, hostVars,
                   ttyVars, readerVars, writerVars, inputVars, outq, delivered, eof>>

\* wait_with_timeout finding the child dead, now or at an earlier wait.
WaitWithTimeout ==
    /\ hostPc = "idle"
    /\ childStatus # "running"
    /\ childStatus' = "reaped"
    /\ terminated' = TRUE
    /\ UNCHANGED <<born, alive, killed, holders, pidReused, hostPc, closing, signals,
                   strangerHit, ttyVars, readerVars, writerVars, inputVars,
                   outq, delivered, eof>>

\* `child().try_wait()`: the public accessor reaps without the session knowing.
ChildWait ==
    /\ RawChild
    /\ hostPc = "idle"
    /\ childStatus = "zombie"
    /\ childStatus' = "reaped"
    /\ UNCHANGED <<born, alive, killed, holders, pidReused, ttyVars, readerVars,
                   writerVars, inputVars, hostVars, outq, delivered, eof>>

\* Mutant of KillGroup: only the direct child is signalled.
KillChildOnly ==
    /\ signals' = signals + 1
    /\ killed' = killed \cup (alive \cap {Child})
    /\ strangerHit' = (strangerHit \/ pidReused)
    /\ UNCHANGED <<born, alive, holders, childStatus, pidReused>>

\* kill_process_group(child.id()) and child.kill(): every live process of the
\* group gets SIGKILL, and so does whoever owns that id by now.
KillGroup ==
    /\ signals' = signals + 1
    /\ killed' = killed \cup (alive \cap Group)
    /\ strangerHit' = (strangerHit \/ pidReused)
    /\ UNCHANGED <<born, alive, holders, childStatus, pidReused>>

\* The signalling half of terminate, called by the watchdog or by Drop.
Signal ==
    /\ ~terminated
    /\ terminated' = TRUE
    /\ KillGroup
    /\ hostPc' = "reap"
    /\ UNCHANGED <<closing, ttyVars, readerVars, writerVars, inputVars,
                   outq, delivered, eof>>

\* terminate() called on a live session; when already terminated it returns at
\* once, which is a stutter.
Terminate == hostPc = "idle" /\ Signal

\* Waits of the host on another party are bounded by a deadline. No relation
\* between the deadline and the speed of that party is assumed: it may pass
\* while the party is still running.
BudgetSpent == TRUE

AfterReap == IF closing THEN "joinReader" ELSE "idle"

\* The reap loop of terminate: try_wait finds the child dead.
Reap ==
    /\ hostPc = "reap"
    /\ childStatus # "running"
    /\ childStatus' = "reaped"
    /\ hostPc' = AfterReap
    /\ UNCHANGED <<born, alive, killed, holders, pidReused, closing, terminated, signals,
                   strangerHit, ttyVars, readerVars, writerVars, inputVars,
                   outq, delivered, eof>>

\* The reap loop gives up after TERMINATE_REAP_BUDGET.
ReapGiveUp ==
    /\ hostPc = "reap"
    /\ childStatus = "running"
    /\ BudgetSpent
    /\ hostPc' = AfterReap
    /\ UNCHANGED <<closing, terminated, signals, strangerHit, targetVars, ttyVars,
                   readerVars, writerVars, inputVars, outq, delivered, eof>>

-----------------------------------------------------------------------------
(* Drop.                                                                   *)

\* Mutant of DropInput: the session's own sender is never dropped.
DropInputKept ==
    /\ hostPc = "idle"
    /\ closing' = TRUE
    /\ hostPc' = "terminate"
    /\ UNCHANGED <<inq, input, handles, typed, terminated, signals, strangerHit,
                   targetVars, ttyVars, readerVars, writerVars, outq, delivered, eof>>

\* 1. Drop the input channel.
DropInput ==
    /\ hostPc = "idle"
    /\ closing' = TRUE
    /\ input' = FALSE
    /\ hostPc' = "terminate"
    /\ UNCHANGED <<inq, handles, typed, terminated, signals, strangerHit, targetVars,
                   ttyVars, readerVars, writerVars, outq, delivered, eof>>

\* 2. Kill the whole group, unless that was done or the child was waited for.
DropTerminate ==
    /\ hostPc = "terminate"
    /\ \/ Signal
       \/ /\ terminated
          /\ hostPc' = "joinReader"
          /\ UNCHANGED <<closing, terminated, signals, strangerHit, targetVars, ttyVars,
                         readerVars, writerVars, inputVars, outq, delivered, eof>>

\* Mutant of JoinBounded: an unbounded join.
JoinForever(pc) == pc = "done"

\* 3. join_bounded on each thread: it has finished, or the budget runs out and
\* the thread is detached.
JoinBounded(pc) == pc = "done" \/ BudgetSpent

DropJoinReader ==
    /\ hostPc = "joinReader"
    /\ JoinBounded(readerPc)
    /\ hostPc' = "joinWriter"
    /\ UNCHANGED <<closing, terminated, signals, strangerHit, targetVars, ttyVars,
                   readerVars, writerVars, inputVars, outq, delivered, eof>>

\* The fields go last: the output receiver, with whatever it still holds.
DropJoinWriter ==
    /\ hostPc = "joinWriter"
    /\ JoinBounded(writerPc)
    /\ hostPc' = "gone"
    /\ outq' = <<>>
    /\ UNCHANGED <<closing, terminated, signals, strangerHit, targetVars, ttyVars,
                   readerVars, writerVars, inputVars, delivered, eof>>

-----------------------------------------------------------------------------
Target ==
    \/ \E p \in alive, q \in Processes : Fork(p, q)
    \/ \E p \in alive : Die(p)
    \/ \E p \in holders : CloseSlave(p)
    \/ RecyclePid \/ TargetWrite \/ TargetRead

Reader == ReaderRead \/ ReaderEof \/ ReaderSend
Writer == WriterRecv \/ WriterInputDropped \/ WriterWrite \/ WriterFails

Teardown == Reap \/ ReapGiveUp \/ DropTerminate \/ DropJoinReader \/ DropJoinWriter

Host ==
    \/ WriteInput \/ InputHandle
    \/ ReadData \/ ReadEof \/ WaitWithTimeout \/ ChildWait \/ Terminate
    \/ DropInput \/ Teardown

Handles == HandleWrite \/ HandleDropped

Next == Target \/ Reader \/ Writer \/ Host \/ Handles

Spec == Init /\ [][Next]_vars

\* The threads are scheduled by the OS, and the host runs teardown to its end
\* and polls for output while it is idle. Nothing is assumed of the target, of
\* its descendants or of the owners of the handles: even a signalled process
\* may stay alive (uninterruptible sleep).
FairSpec ==
    /\ Spec
    /\ WF_vars(Reader) /\ WF_vars(Writer) /\ WF_vars(Teardown)
    /\ WF_vars(ReadData \/ ReadEof)

-----------------------------------------------------------------------------
(* Properties.                                                             *)

\* Every variable keeps its type: what the threads hand on, both ways, is units of the
\* stream and never an empty read.
TypeOK ==
    /\ born \subseteq Processes /\ alive \subseteq born
    /\ killed \subseteq alive /\ holders \subseteq alive
    /\ childStatus \in {"running", "zombie", "reaped"} /\ pidReused \in BOOLEAN
    /\ written \in 0..MaxUnits /\ typed \in 0..MaxTyped /\ handles \in 0..MaxHandles
    /\ kout \in Seq(1..MaxUnits) /\ outq \in Seq(1..MaxUnits) /\ chunk \in 0..MaxUnits
    /\ delivered \in Seq(1..MaxUnits)
    /\ inq \in Seq(1..MaxTyped) /\ kin \in Seq(1..MaxTyped) /\ msg \in 0..MaxTyped
    /\ consumed \in Seq(1..MaxTyped)
    /\ readerPc \in {"read", "send", "done"} /\ writerPc \in {"recv", "write", "done"}
    /\ input \in BOOLEAN /\ eof \in BOOLEAN /\ terminated \in BOOLEAN
    /\ closing \in BOOLEAN /\ strangerHit \in BOOLEAN /\ signals \in Nat
    /\ hostPc \in {"idle", "reap", "terminate", "joinReader", "joinWriter", "gone"}

Stream == INSTANCE PtyStream WITH
    produced <- [i \in 1..written |-> i],
    received <- delivered,
    closed   <- (holders = {}),
    ended    <- eof

\* The threads and channels implement the stream `read_output` promises: no
\* unit is lost, duplicated or reordered, and Eof is reported only after the
\* slave was closed and every unit written to it was returned as Data.
ImplementsStream == Stream!Spec

\* Input reaches the target in the order it was queued, and as long as the
\* writer thread lives every queued unit is still on its way.
InputIntact ==
    /\ \A i \in 1..Len(consumed) : consumed[i] = i
    /\ \A i \in 1..Len(kin) : kin[i] = Len(consumed) + i
    /\ writerPc # "done" =>
         typed = Len(consumed) + Len(kin) + (IF msg = 0 THEN 0 ELSE 1) + Len(inq)

\* The process group is signalled at most once, and never after the session
\* reaped its leader: by then the id may name somebody else's group.
SignalOnceBeforeReap ==
    [][signals' > signals => signals = 0 /\ childStatus # "reaped"]_vars

\* No SIGKILL goes to a group the session did not create.
NoStrangerKilled == ~strangerHit

\* Dropping a session returns, whatever the target and its descendants do.
DropReturns == closing ~> hostPc = "gone"

\* Once the session is dropped, its handles are released and nobody holds the
\* slave, both threads end.
ThreadsEnd ==
    (hostPc = "gone" /\ handles = 0 /\ holders = {}) ~>
        (readerPc = "done" /\ writerPc = "done")

\* The kernel delivers SIGKILL, to a process that can die.
KillsDelivered == \A p \in Group : WF_vars(p \in killed /\ Die(p))

\* If it does, a termination leaves no process of the target's group alive,
\* whatever the group forks meanwhile.
GroupDies == KillsDelivered => (signals > 0 ~> alive \cap Group = {})
=============================================================================
