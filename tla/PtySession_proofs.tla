--------------------------- MODULE PtySession_proofs ---------------------------
(***************************************************************************)
(* Theorems about PtySession, for every set of processes, every bound and  *)
(* every buffer size; and about Interactive, which owns a session, may be  *)
(* killed at any time, and restores the user's terminal.                   *)
(***************************************************************************)
EXTENDS Interactive, SequenceTheorems, TLAPS

-----------------------------------------------------------------------------
(* Type correctness.                                                       *)

\* The types, with what the two threads hold while they hold something.
TypeInv ==
    /\ TypeOK
    /\ readerPc = "send" => chunk # 0
    /\ writerPc = "write" <=> msg # 0


\* The initial state is well typed.
LEMMA TypeInit == Init => TypeInv
<1> SUFFICES ASSUME Init PROVE TypeInv
  OBVIOUS
<1>1. <<>> \in Seq(1..MaxUnits) /\ <<>> \in Seq(1..MaxTyped)
  BY EmptySeq
<1>2. pidReused \in BOOLEAN /\ input \in BOOLEAN /\ eof \in BOOLEAN
      /\ terminated \in BOOLEAN /\ closing \in BOOLEAN /\ strangerHit \in BOOLEAN
  BY Zenon DEF Init
<1>3. born \subseteq Processes /\ alive \subseteq born /\ killed \subseteq alive
      /\ holders \subseteq alive
  BY DEF Init, Processes, Group
<1>4. QED BY <1>1, <1>2, <1>3, PtyAssumption DEF Init, TypeInv, TypeOK

\* A step of the target or of the kernel keeps the types.
LEMMA TypeTarget == TypeInv /\ Target => TypeInv'
<1> SUFFICES ASSUME TypeInv, Target PROVE TypeInv'
  OBVIOUS
<1> USE PtyAssumption DEF TypeInv, TypeOK, targetVars, ttyVars, readerVars, writerVars,
        inputVars, hostVars
<1>1. ASSUME NEW p \in alive, NEW q \in Processes, Fork(p, q) PROVE TypeInv'
  BY <1>1 DEF Fork
<1>2. ASSUME NEW p \in alive, Die(p) PROVE TypeInv'
  BY <1>2 DEF Die
<1>3. ASSUME NEW p \in holders, CloseSlave(p) PROVE TypeInv'
  BY <1>3 DEF CloseSlave
<1>4. CASE RecyclePid
  BY <1>4 DEF RecyclePid
<1>5. CASE TargetWrite
  <2>1. kout' \in Seq(1..MaxUnits) /\ written' \in 0..MaxUnits
    BY <1>5, AppendProperties DEF TargetWrite
  <2>2. QED BY <1>5, <2>1 DEF TargetWrite
<1>6. CASE TargetRead
  <2>1. kin' \in Seq(1..MaxTyped) /\ consumed' \in Seq(1..MaxTyped)
    BY <1>6, HeadTailProperties, AppendProperties DEF TargetRead
  <2>2. QED BY <1>6, <2>1 DEF TargetRead
<1>7. QED BY <1>1, <1>2, <1>3, <1>4, <1>5, <1>6 DEF Target

\* A step of one of the two threads keeps the types.
LEMMA TypeThreads == TypeInv /\ (Reader \/ Writer) => TypeInv'
<1> SUFFICES ASSUME TypeInv, Reader \/ Writer PROVE TypeInv'
  OBVIOUS
<1> USE PtyAssumption DEF TypeInv, TypeOK, targetVars, ttyVars, readerVars, writerVars,
        inputVars, hostVars
<1>1. CASE ReaderRead
  <2>1. Head(kout) \in 1..MaxUnits /\ Tail(kout) \in Seq(1..MaxUnits)
    BY <1>1, HeadTailProperties DEF ReaderRead
  <2>2. QED BY <1>1, <2>1 DEF ReaderRead
<1>2. CASE ReaderEof
  BY <1>2 DEF ReaderEof
<1>3. CASE ReaderSend
  <2>1. chunk \in 1..MaxUnits
    BY <1>3 DEF ReaderSend
  <2>2. outq' = Append(outq, chunk) \/ outq' = outq
    BY <1>3 DEF ReaderSend, ReceiverAlive
  <2>3. Append(outq, chunk) \in Seq(1..MaxUnits)
    BY <2>1, AppendProperties
  <2>4. outq' \in Seq(1..MaxUnits)
    BY <2>2, <2>3
  <2>5. QED BY <1>3, <2>4 DEF ReaderSend, ReceiverAlive
<1>4. CASE WriterRecv
  <2>1. Head(inq) \in 1..MaxTyped /\ Tail(inq) \in Seq(1..MaxTyped)
    BY <1>4, HeadTailProperties DEF WriterRecv
  <2>2. QED BY <1>4, <2>1 DEF WriterRecv
<1>5. CASE WriterInputDropped
  BY <1>5 DEF WriterInputDropped
<1>6. CASE WriterWrite
  <2>1. kin' \in Seq(1..MaxTyped)
    BY <1>6, AppendProperties DEF WriterWrite
  <2>2. QED BY <1>6, <2>1 DEF WriterWrite
<1>7. CASE WriterFails
  BY <1>7 DEF WriterFails
<1>8. QED BY <1>1, <1>2, <1>3, <1>4, <1>5, <1>6, <1>7 DEF Reader, Writer

\* Queueing input, from the session or from a handle, keeps the types.
LEMMA TypeQueue == TypeInv /\ Queue => TypeInv'
<1> SUFFICES ASSUME TypeInv, Queue PROVE TypeInv'
  OBVIOUS
<1> USE PtyAssumption DEF TypeInv, TypeOK
<1>1. inq' \in Seq(1..MaxTyped) /\ typed' \in 0..MaxTyped
  BY AppendProperties DEF Queue
<1>2. QED BY <1>1 DEF Queue, targetVars, ttyVars, readerVars, writerVars, hostVars

\* The signalling half of terminate keeps the types, whatever called it.
LEMMA TypeSignal == TypeInv /\ Signal => TypeInv'
<1> SUFFICES ASSUME TypeInv, Signal PROVE TypeInv'
  OBVIOUS
<1>1. strangerHit' \in BOOLEAN /\ killed' \subseteq alive'
  BY Zenon DEF TypeInv, TypeOK, Signal, KillGroup
<1>2. QED
  BY <1>1 DEF TypeInv, TypeOK, Signal, KillGroup, ttyVars, readerVars, writerVars,
              inputVars

\* A step of the host or of a handle's owner keeps the types.
LEMMA TypeHost == TypeInv /\ (Host \/ Handles) => TypeInv'
<1> SUFFICES ASSUME TypeInv, Host \/ Handles PROVE TypeInv'
  OBVIOUS
<1>1. CASE WriteInput \/ HandleWrite
  BY <1>1, TypeQueue DEF WriteInput, HandleWrite
<1>6. CASE Terminate \/ (DropTerminate /\ Signal)
  BY <1>6, TypeSignal DEF Terminate
<1> USE PtyAssumption DEF TypeInv, TypeOK, targetVars, ttyVars, readerVars, writerVars,
        inputVars, hostVars
<1>2. CASE InputHandle \/ HandleDropped
  <2>1. handles' \in 0..MaxHandles
    BY <1>2, SMTT(30) DEF InputHandle, HandleDropped
  <2>2. UNCHANGED <<inq, input, typed, targetVars, ttyVars, readerVars, writerVars,
                    hostVars, outq, delivered, eof>>
    BY <1>2, Zenon DEF InputHandle, HandleDropped
  <2>3. QED BY <2>1, <2>2
<1>3. CASE ReadData
  <2>1. delivered' \in Seq(1..MaxUnits) /\ outq' \in Seq(1..MaxUnits)
    BY <1>3, HeadTailProperties, AppendProperties DEF ReadData
  <2>2. QED BY <1>3, <2>1 DEF ReadData
<1>4. CASE ReadEof
  BY <1>4 DEF ReadEof
<1>5. CASE WaitWithTimeout \/ ChildWait
  <2>1. CASE WaitWithTimeout
    BY <2>1 DEF WaitWithTimeout
  <2>2. CASE ChildWait
    BY <2>2 DEF ChildWait
  <2>3. QED BY <1>5, <2>1, <2>2
<1>7. CASE DropTerminate /\ ~Signal
  BY <1>7, ZenonT(30) DEF DropTerminate
<1>8. CASE DropInput
  BY <1>8 DEF DropInput
<1>9. CASE Reap \/ ReapGiveUp
  <2>1. hostPc' \in {"joinReader", "idle"}
    BY <1>9 DEF Reap, ReapGiveUp, AfterReap
  <2>2. CASE Reap
    BY <2>1, <2>2 DEF Reap
  <2>3. CASE ReapGiveUp
    BY <2>1, <2>3 DEF ReapGiveUp
  <2>4. QED BY <1>9, <2>2, <2>3
<1>10. CASE DropJoinReader
  BY <1>10 DEF DropJoinReader
<1>11. CASE DropJoinWriter
  <2>1. outq' \in Seq(1..MaxUnits)
    BY <1>11, EmptySeq DEF DropJoinWriter
  <2>2. QED BY <1>11, <2>1 DEF DropJoinWriter
<1> HIDE DEF TypeInv
<1>12. QED
  BY <1>1, <1>2, <1>3, <1>4, <1>5, <1>6, <1>7, <1>8, <1>9, <1>10, <1>11, Zenon
     DEF Host, Handles, Teardown

\* Every step keeps the types.
LEMMA TypeNext == TypeInv /\ [Next]_vars => TypeInv'
<1>1. TypeInv /\ UNCHANGED vars => TypeInv'
  BY DEF TypeInv, TypeOK, vars, targetVars, ttyVars, readerVars, writerVars, inputVars,
         hostVars
<1>2. QED BY <1>1, TypeTarget, TypeThreads, TypeHost DEF Next

\* The type invariant TypeInv, and with it TypeOK, hold in every state.
THEOREM TypeCorrect == Spec => []TypeInv
  BY TypeInit, TypeNext, PTL DEF Spec

\* Every variable of the session keeps its type and no counter underflows.
THEOREM TypeOKHolds == Spec => []TypeOK
<1>1. TypeInv => TypeOK
  BY DEF TypeInv
<1>2. QED BY <1>1, TypeCorrect, PTL
-----------------------------------------------------------------------------
(* Signalling.                                                             *)

\* The child is a process that was forked, and it runs until it dies.
ChildInv == Child \in born /\ (Child \in alive <=> childStatus = "running")

\* Initially the child runs.
LEMMA ChildInit == Init => ChildInv
  BY DEF Init, ChildInv

\* Only the child's death stops it running, and nothing starts it again.
LEMMA ChildNext == ChildInv /\ [Next]_vars => ChildInv'
<1> SUFFICES ASSUME ChildInv, [Next]_vars PROVE ChildInv'
  OBVIOUS
<1>1. CASE UNCHANGED <<born, alive, childStatus>>
  BY <1>1 DEF ChildInv
<1>2. CASE Target
  BY <1>2 DEF ChildInv, Target, Fork, Die, CloseSlave, RecyclePid, TargetWrite,
              TargetRead, targetVars
<1>3. CASE Reader \/ Writer \/ Handles
  BY <1>1, <1>3 DEF Reader, Writer, Handles, ReaderRead, ReaderEof, ReaderSend,
              WriterRecv, WriterInputDropped, WriterWrite, WriterFails, HandleWrite,
              Queue, HandleDropped, targetVars
<1>4. CASE Host
  <2>1. CASE WaitWithTimeout \/ ChildWait \/ Reap
    BY <2>1 DEF ChildInv, WaitWithTimeout, ChildWait, Reap
  <2>2. CASE Terminate \/ DropTerminate
    BY <1>1, <2>2 DEF Terminate, DropTerminate, Signal, KillGroup, targetVars
  <2>3. CASE WriteInput \/ InputHandle \/ ReadData \/ ReadEof
    BY <1>1, <2>3 DEF WriteInput, Queue, InputHandle, ReadData, ReadEof, targetVars
  <2>4. CASE DropInput \/ ReapGiveUp \/ DropJoinReader \/ DropJoinWriter
    BY <1>1, <2>4 DEF DropInput, ReapGiveUp, DropJoinReader, DropJoinWriter, targetVars
  <2>5. QED BY <1>4, <2>1, <2>2, <2>3, <2>4 DEF Host, Teardown
<1>5. CASE UNCHANGED vars
  BY <1>1, <1>5 DEF vars, targetVars
<1>6. QED BY <1>2, <1>3, <1>4, <1>5 DEF Next

\* ChildInv holds in every state.
LEMMA ChildInvHolds == Spec => []ChildInv
  BY ChildInit, ChildNext, PTL DEF Spec

\* What the flag `terminated` stands for: it is set by whatever signals the
\* group or reaps the child, so that a later signal finds it set. The child's
\* pid can only be reused once it was reaped.
SignalInv ==
    /\ signals \in Nat /\ strangerHit = FALSE
    /\ signals > 0 => terminated = TRUE
    /\ childStatus = "reaped" => terminated = TRUE
    /\ hostPc = "reap" => terminated = TRUE
    /\ pidReused = TRUE => childStatus = "reaped"

\* What SignalInv reads.
SignalView == <<signals, strangerHit, terminated, childStatus, hostPc, pidReused>>

\* No signal has been sent initially.
LEMMA SignalInit == Init => SignalInv
  BY DEF Init, SignalInv

\* The steps of the target, the threads, the channels and the handles that do not
\* touch what SignalInv reads.
LEMMA SignalUnseen ==
  ASSUME \/ \E p \in alive, q \in Processes : Fork(p, q)
         \/ \E p \in holders : CloseSlave(p)
         \/ TargetWrite \/ TargetRead
         \/ Reader \/ Writer \/ Handles
         \/ WriteInput \/ InputHandle \/ ReadData \/ ReadEof
  PROVE  UNCHANGED SignalView
  BY DEF SignalView, Fork, CloseSlave, TargetWrite, TargetRead, Reader, Writer, Handles,
     ReaderRead, ReaderEof, ReaderSend, WriterRecv, WriterInputDropped, WriterWrite,
     WriterFails, WriteInput, HandleWrite, Queue, InputHandle, HandleDropped, ReadData,
     ReadEof, targetVars, hostVars

\* A signal is sent only while `terminated` is unset, hence before any other
\* signal and before the child was reaped, and it sets the flag.
LEMMA SignalStep ==
  ASSUME TypeOK, SignalInv, Signal
  PROVE  SignalInv' /\ signals = 0 /\ childStatus # "reaped"
<1>1. terminated = FALSE /\ terminated' = TRUE
  BY DEF TypeOK, Signal
<1>2. signals = 0 /\ childStatus # "reaped"
  BY <1>1 DEF SignalInv
<1>3. pidReused = FALSE
  BY <1>2 DEF SignalInv, TypeOK
<1>4. strangerHit' = FALSE
  BY <1>3 DEF Signal, KillGroup, SignalInv
<1>5. QED
  BY <1>1, <1>2, <1>3, <1>4 DEF Signal, KillGroup, SignalInv

\* Any other step sends no signal and keeps the invariant, provided the child is
\* waited for through the session only.
LEMMA SignalOther ==
  ASSUME RawChild = FALSE, TypeOK, ChildInv, SignalInv, [Next]_vars, ~Signal
  PROVE  SignalInv' /\ signals' = signals
<1>1. CASE UNCHANGED SignalView
  BY <1>1 DEF SignalInv, SignalView
<1>2. ASSUME NEW p \in alive, Die(p) PROVE SignalInv' /\ signals' = signals
  BY <1>2 DEF SignalInv, ChildInv, Die, hostVars
<1>3. CASE RecyclePid
  BY <1>3 DEF SignalInv, RecyclePid, hostVars
<1>4. CASE WaitWithTimeout
  <2>1. childStatus' = "reaped" /\ terminated' = TRUE
        /\ UNCHANGED <<signals, strangerHit, hostPc, pidReused>>
    BY <1>4 DEF WaitWithTimeout
  <2>2. QED BY <2>1 DEF SignalInv
<1>5. CASE ChildWait
  BY <1>5 DEF ChildWait
<1>6. CASE DropInput \/ DropTerminate \/ DropJoinReader \/ DropJoinWriter
  <2>1. hostPc' # "reap" /\ UNCHANGED <<signals, strangerHit, terminated, targetVars>>
    BY <1>6 DEF DropInput, DropTerminate, DropJoinReader, DropJoinWriter
  <2>2. QED BY <2>1 DEF SignalInv, targetVars
<1>7. CASE Reap \/ ReapGiveUp
  <2>1. terminated = TRUE
    BY <1>7 DEF SignalInv, Reap, ReapGiveUp
  <2>2. QED BY <1>7, <2>1 DEF SignalInv, Reap, ReapGiveUp, AfterReap, targetVars
<1>8. CASE UNCHANGED vars
  BY <1>1, <1>8 DEF vars, SignalView, targetVars, hostVars
<1>9. QED
  <2>1. CASE Target
    BY <2>1, <1>1, <1>2, <1>3, SignalUnseen DEF Target
  <2>2. CASE Reader \/ Writer \/ Handles
    BY <2>2, <1>1, SignalUnseen
  <2>3. CASE Host
    BY <2>3, <1>1, <1>4, <1>5, <1>6, <1>7, SignalUnseen DEF Host, Teardown, Terminate
  <2>4. QED BY <2>1, <2>2, <2>3, <1>8 DEF Next

\* SignalInv holds in every state of a host that leaves `child()` alone.
THEOREM SignalInvHolds == ASSUME RawChild = FALSE PROVE Spec => []SignalInv
<1>1. TypeOK /\ ChildInv /\ SignalInv /\ [Next]_vars => SignalInv'
  BY SignalStep, SignalOther
<1>2. QED BY <1>1, SignalInit, TypeOKHolds, ChildInvHolds, PTL DEF Spec

\* The process group is signalled at most once, and never after the session
\* reaped its leader (the guard `terminated` of PtySession, pty.rs).
THEOREM SignalledOnceBeforeReap ==
  ASSUME RawChild = FALSE PROVE Spec => SignalOnceBeforeReap
<1>1. TypeOK /\ ChildInv /\ SignalInv /\ [Next]_vars =>
        [signals' > signals => signals = 0 /\ childStatus # "reaped"]_vars
  <2>1. ASSUME TypeOK, ChildInv, SignalInv, [Next]_vars, ~Signal
        PROVE  ~(signals' > signals)
    <3>1. signals' = signals
      BY <2>1, SignalOther
    <3>2. signals \in Nat
      BY <2>1 DEF SignalInv
    <3>3. QED BY <3>1, <3>2
  <2>2. QED BY <2>1, SignalStep
<1>2. QED
  BY <1>1, TypeOKHolds, ChildInvHolds, SignalInvHolds, PTL DEF Spec, SignalOnceBeforeReap

\* No SIGKILL goes to a process group the session did not create.
THEOREM NoStrangerIsKilled == ASSUME RawChild = FALSE PROVE Spec => []NoStrangerKilled
<1>1. SignalInv => NoStrangerKilled
  BY DEF SignalInv, NoStrangerKilled
<1>2. QED BY <1>1, SignalInvHolds, PTL
-----------------------------------------------------------------------------
(* Runs of consecutive units.                                              *)

\* s holds the units n+1, n+2, ... in this order.
Consecutive(s, n) == \A i \in 1..Len(s) : s[i] = n + i

\* The empty sequence is a run from anywhere.
LEMMA ConsecutiveEmpty == ASSUME NEW n PROVE Consecutive(<<>>, n)
  BY EmptySeq DEF Consecutive

\* Appending the next unit extends a run.
LEMMA ConsecutiveAppend ==
  ASSUME NEW N \in Nat, NEW n \in Nat, NEW s \in Seq(1..N), Consecutive(s, n),
         NEW e \in 1..N, e = n + Len(s) + 1
  PROVE  Consecutive(Append(s, e), n) /\ Len(Append(s, e)) = Len(s) + 1
<1>1. /\ Len(Append(s, e)) = Len(s) + 1
      /\ \A i \in 1..Len(s) : Append(s, e)[i] = s[i]
      /\ Append(s, e)[Len(s) + 1] = e
      /\ Len(s) \in Nat
  BY AppendProperties, LenProperties
<1>2. QED BY <1>1 DEF Consecutive

\* The head of a run is its first unit, and its tail is the run from there.
LEMMA ConsecutiveTail ==
  ASSUME NEW N \in Nat, NEW n \in Nat, NEW s \in Seq(1..N), Consecutive(s, n), s # <<>>
  PROVE  /\ Head(s) = n + 1
         /\ Consecutive(Tail(s), n + 1)
         /\ Len(s) = Len(Tail(s)) + 1 /\ Len(Tail(s)) \in Nat
<1>1. /\ Len(s) \in Nat \ {0}
      /\ Tail(s) \in Seq(1..N)
      /\ Len(Tail(s)) = Len(s) - 1
      /\ \A i \in 1..Len(Tail(s)) : Tail(s)[i] = s[i + 1]
  BY HeadTailProperties, EmptySeq
<1>2. Head(s) = s[1]
  BY <1>1
<1>3. QED BY <1>1, <1>2 DEF Consecutive

-----------------------------------------------------------------------------
(* The output stream.                                                      *)

\* How many units the reader thread holds.
Held == IF readerPc = "send" THEN 1 ELSE 0

\* The units from 1 to `written` lie, in order, in what the host received, the
\* channel, the reader's hands and the kernel's buffer, until the last act of
\* Drop throws the channel away. A reader that ended while there was a receiver
\* ended because nothing was left.
StreamInv ==
    /\ Consecutive(delivered, 0)
    /\ hostPc # "gone" =>
         /\ Consecutive(outq, Len(delivered))
         /\ readerPc = "send" => chunk = Len(delivered) + Len(outq) + 1
         /\ Consecutive(kout, Len(delivered) + Len(outq) + Held)
         /\ written = Len(delivered) + Len(outq) + Held + Len(kout)
         /\ readerPc = "done" => kout = <<>> /\ holders = {}

\* Nothing has been written initially.
LEMMA StreamInit == Init => StreamInv
  BY ConsecutiveEmpty, EmptySeq DEF Init, StreamInv, Held

\* A step after which the stream is where it was.
StreamUnseen ==
    /\ UNCHANGED <<delivered, outq, readerPc, chunk, kout, written, eof>>
    /\ holders = {} => holders' = {}
    /\ hostPc' # "gone" => hostPc # "gone"

\* Such a step keeps the invariant.
LEMMA StreamUnseenInv == StreamInv /\ StreamUnseen => StreamInv'
  BY DEF StreamInv, StreamUnseen, Held

\* Every step but these seven leaves the stream where it was.
LEMMA StreamOther ==
  ASSUME [Next]_vars
  PROVE  \/ StreamUnseen
         \/ TargetWrite \/ ReaderRead \/ ReaderEof \/ ReaderSend
         \/ ReadData \/ ReadEof \/ DropJoinWriter
<1> USE DEF StreamUnseen, targetVars, ttyVars, readerVars, writerVars, inputVars, hostVars
<1>1. CASE Target
  BY <1>1 DEF Target, Fork, Die, CloseSlave, RecyclePid, TargetRead
<1>2. CASE Reader \/ Writer \/ Handles
  BY <1>2 DEF Reader, Writer, Handles, WriterRecv, WriterInputDropped, WriterWrite,
              WriterFails, HandleWrite, Queue, HandleDropped
<1>3. CASE Host
  <2>1. CASE WaitWithTimeout \/ ChildWait \/ WriteInput \/ InputHandle
    BY <2>1 DEF WaitWithTimeout, ChildWait, WriteInput, Queue, InputHandle
  <2>2. CASE Terminate \/ DropTerminate
    BY <2>2 DEF Terminate, DropTerminate, Signal, KillGroup
  <2>3. CASE DropInput \/ Reap \/ ReapGiveUp \/ DropJoinReader
    BY <2>3 DEF DropInput, Reap, ReapGiveUp, DropJoinReader
  <2>4. QED BY <1>3, <2>1, <2>2, <2>3 DEF Host, Teardown
<1>4. CASE UNCHANGED vars
  BY <1>4 DEF vars
<1>5. QED BY <1>1, <1>2, <1>3, <1>4 DEF Next

\* The lengths are numbers.
LEMMA Lengths ==
  ASSUME TypeOK
  PROVE  /\ Len(delivered) \in Nat /\ Len(outq) \in Nat /\ Len(kout) \in Nat
         /\ written \in Nat /\ MaxUnits \in Nat
  BY LenProperties, PtyAssumption DEF TypeOK

\* Every step keeps the invariant.
LEMMA StreamNext ==
  ASSUME TypeInv, StreamInv, [Next]_vars
  PROVE  StreamInv'
<1> DEFINE d == Len(delivered)
           o == Len(outq)
<1>0. /\ TypeOK /\ (readerPc = "send" => chunk \in 1..MaxUnits)
      /\ d \in Nat /\ o \in Nat /\ Len(kout) \in Nat /\ written \in Nat
      /\ MaxUnits \in Nat
  BY Lengths DEF TypeInv, TypeOK
<1>1. CASE StreamUnseen
  BY <1>1, StreamUnseenInv
<1>2. CASE TargetWrite
  <2>1. UNCHANGED <<delivered, outq, readerPc, chunk, hostPc, holders, Held>>
        /\ holders # {} /\ written' = written + 1 /\ written' \in 1..MaxUnits
        /\ kout' = Append(kout, written')
    BY <1>0, <1>2 DEF TargetWrite, targetVars, readerVars, hostVars, Held
  <2>2. CASE hostPc # "gone"
    <3>1. d + o + Held \in Nat /\ written' = d + o + Held + Len(kout) + 1
      BY <1>0, <2>1, <2>2 DEF StreamInv, Held
    <3>2. kout \in Seq(1..MaxUnits) /\ Consecutive(kout, d + o + Held)
      BY <1>0, <2>2 DEF StreamInv, TypeOK
    <3>3. Consecutive(kout', d + o + Held) /\ Len(kout') = Len(kout) + 1
      BY <1>0, <2>1, <3>1, <3>2, ConsecutiveAppend
    <3>4. readerPc # "done" /\ Consecutive(delivered, 0) /\ Consecutive(outq, d)
          /\ (readerPc = "send" => chunk = d + o + 1)
      BY <2>1, <2>2 DEF StreamInv
    <3>5. written' = d + o + Held + Len(kout') /\ hostPc' # "gone"
      BY <1>0, <2>1, <2>2, <3>1, <3>3
    <3>6. QED BY <2>1, <3>3, <3>4, <3>5 DEF StreamInv
  <2>3. QED BY <2>1, <2>2 DEF StreamInv
<1>3. CASE ReaderRead
  <2>1. UNCHANGED <<delivered, outq, written, hostPc, holders>>
        /\ kout # <<>> /\ chunk' = Head(kout) /\ kout' = Tail(kout)
        /\ readerPc' = "send" /\ Held = 0 /\ Held' = 1
    BY <1>3 DEF ReaderRead, targetVars, hostVars, Held
  <2>2. CASE hostPc # "gone"
    <3>1. kout \in Seq(1..MaxUnits) /\ Consecutive(kout, d + o) /\ d + o \in Nat
          /\ written = d + o + Len(kout)
      BY <1>0, <2>1, <2>2 DEF StreamInv, TypeOK
    <3>2. /\ chunk' = d + o + 1
          /\ Consecutive(kout', d + o + 1)
          /\ Len(kout) = Len(kout') + 1 /\ Len(kout') \in Nat
      BY <1>0, <2>1, <3>1, ConsecutiveTail
    <3>3. QED BY <1>0, <2>1, <2>2, <3>1, <3>2 DEF StreamInv
  <2>3. QED BY <2>1, <2>2 DEF StreamInv
<1>4. CASE ReaderEof
  <2>1. UNCHANGED <<delivered, outq, written, hostPc, holders, kout, Held>>
        /\ kout = <<>> /\ holders = {} /\ readerPc' = "done"
    BY <1>4 DEF ReaderEof, targetVars, ttyVars, hostVars, Held
  <2>2. QED BY <2>1 DEF StreamInv
<1>5. CASE ReaderSend
  <2>1. UNCHANGED <<delivered, written, hostPc, holders, kout>>
        /\ readerPc = "send" /\ Held = 1 /\ Held' = 0
    BY <1>5 DEF ReaderSend, ReceiverAlive, targetVars, ttyVars, hostVars, Held
  <2>2. CASE hostPc # "gone"
    <3>1. outq' = Append(outq, chunk) /\ readerPc' = "read"
      BY <1>5, <2>2 DEF ReaderSend, ReceiverAlive
    <3>2. /\ outq \in Seq(1..MaxUnits) /\ Consecutive(outq, d)
          /\ chunk \in 1..MaxUnits /\ chunk = d + o + 1
          /\ Consecutive(kout, d + o + 1) /\ written = d + o + 1 + Len(kout)
      BY <1>0, <2>1, <2>2 DEF StreamInv, TypeOK
    <3>3. Consecutive(outq', d) /\ Len(outq') = o + 1
      BY <1>0, <3>1, <3>2, ConsecutiveAppend
    <3>4. d + Len(outq') + Held' = d + o + 1
      BY <1>0, <2>1, <3>3
    <3>5. QED BY <1>0, <2>1, <2>2, <3>1, <3>2, <3>3, <3>4 DEF StreamInv
  <2>3. QED BY <2>1, <2>2 DEF StreamInv
<1>6. CASE ReadData
  <2>1. UNCHANGED <<written, hostPc, holders, kout, readerPc, chunk, Held>>
        /\ hostPc = "idle" /\ outq # <<>>
        /\ delivered' = Append(delivered, Head(outq)) /\ outq' = Tail(outq)
    BY <1>6 DEF ReadData, targetVars, ttyVars, hostVars, readerVars, Held
  <2>2. /\ outq \in Seq(1..MaxUnits) /\ Consecutive(outq, d)
        /\ delivered \in Seq(1..MaxUnits) /\ Consecutive(delivered, 0)
    BY <1>0, <2>1 DEF StreamInv, TypeOK
  <2>3. /\ Head(outq) = d + 1 /\ Consecutive(outq', d + 1)
        /\ o = Len(outq') + 1 /\ Len(outq') \in Nat
    BY <1>0, <2>1, <2>2, ConsecutiveTail
  <2>4. Head(outq) \in 1..MaxUnits
    BY <2>1, <2>2, HeadTailProperties
  <2>5. Consecutive(delivered', 0) /\ Len(delivered') = d + 1
    BY <1>0, <2>1, <2>2, <2>3, <2>4, ConsecutiveAppend
  <2>6. Len(delivered') + Len(outq') = d + o
    BY <1>0, <2>3, <2>5
  <2>7. QED BY <2>1, <2>3, <2>5, <2>6 DEF StreamInv
<1>7. CASE ReadEof
  BY <1>7 DEF ReadEof, StreamInv, Held, targetVars, ttyVars, hostVars, readerVars
<1>8. CASE DropJoinWriter
  <2>1. hostPc' = "gone" /\ delivered' = delivered
    BY <1>8 DEF DropJoinWriter
  <2>2. QED BY <2>1 DEF StreamInv
<1>9. QED
  BY <1>1, <1>2, <1>3, <1>4, <1>5, <1>6, <1>7, <1>8, StreamOther

\* StreamInv holds in every state.
THEOREM StreamInvHolds == Spec => []StreamInv
<1>1. TypeInv /\ StreamInv /\ [Next]_vars => StreamInv'
  BY StreamNext
<1>2. QED BY <1>1, StreamInit, TypeCorrect, PTL DEF Spec

-----------------------------------------------------------------------------
(* Refinement of PtyStream.                                                *)

\* The units the target has written.
Numbers(n) == [i \in 1..n |-> i]

\* They form a sequence that writing extends.
LEMMA NumbersAppend ==
  ASSUME NEW n \in Nat
  PROVE  /\ Numbers(n) \in Seq(Nat) /\ Len(Numbers(n)) = n
         /\ \A i \in 1..n : Numbers(n)[i] = i
         /\ Numbers(n + 1) = Append(Numbers(n), n + 1)
<1>1. \A m \in Nat : /\ Numbers(m) \in Seq(Nat) /\ Len(Numbers(m)) = m
                     /\ \A i \in 1..m : Numbers(m)[i] = i
  BY DEF Numbers
<1>2. /\ Append(Numbers(n), n + 1) \in Seq(Nat)
      /\ Len(Append(Numbers(n), n + 1)) = n + 1
      /\ \A i \in 1..n : Append(Numbers(n), n + 1)[i] = i
      /\ Append(Numbers(n), n + 1)[n + 1] = n + 1
  BY <1>1, AppendProperties
<1>3. \A i \in 1..(n + 1) : Append(Numbers(n), n + 1)[i] = Numbers(n + 1)[i]
  BY <1>1, <1>2
<1>4. Numbers(n + 1) = Append(Numbers(n), n + 1)
  BY <1>1, <1>2, <1>3, SeqEqual
<1>5. QED BY <1>1, <1>4

\* Initially nothing is written, delivered, closed or ended.
LEMMA RefinementInit == Init => Stream!Init
<1>1. Numbers(0) = <<>>
  BY NumbersAppend, EmptySeq, SeqEqual
<1>2. QED BY <1>1 DEF Init, Stream!Init, Numbers

\* A step that leaves the stream alone is a stutter of PtyStream, or its Close.
LEMMA RefinementUnseen ==
  ASSUME StreamUnseen PROVE [Stream!Next]_(Stream!vars)
<1>1. CASE holders # {} /\ holders' = {}
  BY <1>1 DEF StreamUnseen, Stream!Next, Stream!Close
<1>2. CASE (holders = {}) = (holders' = {})
  BY <1>2 DEF StreamUnseen, Stream!vars
<1>3. QED BY <1>1, <1>2 DEF StreamUnseen

\* Every step of the session is a step of PtyStream or a stutter.
LEMMA RefinementNext ==
  ASSUME TypeInv, StreamInv, [Next]_vars
  PROVE  [Stream!Next]_(Stream!vars)
<1>0. /\ TypeOK /\ MaxUnits \in Nat /\ Len(delivered) \in Nat /\ Len(outq) \in Nat
      /\ Len(kout) \in Nat /\ written \in Nat
  BY Lengths DEF TypeInv
<1>1. CASE StreamUnseen
  BY <1>1, RefinementUnseen
<1>2. CASE TargetWrite
  <2>1. /\ holders # {} /\ UNCHANGED <<delivered, holders, eof>>
        /\ written' = written + 1
    BY <1>2 DEF TargetWrite, targetVars
  <2>2. Numbers(written') = Append(Numbers(written), Len(Numbers(written)) + 1)
    BY <1>0, <2>1, NumbersAppend
  <2>3. Stream!Produce
    BY <2>1, <2>2 DEF Stream!Produce, Numbers
  <2>4. QED BY <2>3 DEF Stream!Next
<1>3. CASE ReaderRead \/ ReaderEof \/ ReaderSend \/ DropJoinWriter
  <2>1. UNCHANGED <<written, delivered, holders, eof>>
    BY <1>3 DEF ReaderRead, ReaderEof, ReaderSend, DropJoinWriter, targetVars, ttyVars
  <2>2. QED BY <2>1 DEF Stream!vars
<1>4. CASE ReadData
  <2>1. /\ hostPc = "idle" /\ ~eof /\ outq # <<>>
        /\ delivered' = Append(delivered, Head(outq))
        /\ UNCHANGED <<written, holders, eof>>
    BY <1>4 DEF ReadData, targetVars, ttyVars
  <2>2. /\ Consecutive(outq, Len(delivered)) /\ outq \in Seq(1..MaxUnits)
        /\ written = Len(delivered) + Len(outq) + Held + Len(kout)
    BY <1>0, <2>1 DEF StreamInv, TypeOK
  <2>3. Head(outq) = Len(delivered) + 1 /\ Len(outq) > 0
    BY <1>0, <2>1, <2>2, ConsecutiveTail
  <2>4. Held \in {0, 1}
    BY DEF Held
  <2>5. Len(delivered) < written
    BY <1>0, <2>2, <2>3, <2>4
  <2>6. Len(Numbers(written)) = written
        /\ Numbers(written)[Len(delivered) + 1] = Len(delivered) + 1
    <3>1. Len(Numbers(written)) = written /\ \A i \in 1..written : Numbers(written)[i] = i
      BY <1>0, NumbersAppend
    <3>2. Len(delivered) + 1 \in 1..written
      BY <1>0, <2>5
    <3>3. QED BY <3>1, <3>2
  <2>7. Stream!Receive
    BY <2>1, <2>3, <2>5, <2>6 DEF Stream!Receive, Numbers
  <2>8. QED BY <2>7 DEF Stream!Next
<1>5. CASE ReadEof
  <2>1. /\ hostPc = "idle" /\ outq = <<>> /\ readerPc = "done" /\ eof' = TRUE
        /\ UNCHANGED <<written, delivered, holders>>
    BY <1>5 DEF ReadEof, targetVars, ttyVars
  <2>2. /\ kout = <<>> /\ holders = {} /\ Consecutive(delivered, 0)
        /\ written = Len(delivered) + Len(outq) + Held + Len(kout) /\ Held = 0
    BY <2>1 DEF StreamInv, Held
  <2>3. written = Len(delivered)
    BY <1>0, <2>1, <2>2, EmptySeq
  <2>4. delivered \in Seq(Nat)
    BY <1>0, SeqMonotonic DEF TypeOK
  <2>5. delivered = Numbers(written)
    <3>1. /\ Numbers(written) \in Seq(Nat) /\ Len(Numbers(written)) = written
          /\ \A i \in 1..written : Numbers(written)[i] = i
      BY <1>0, NumbersAppend
    <3>2. \A i \in 1..Len(delivered) : delivered[i] = Numbers(written)[i]
      BY <1>0, <2>2, <2>3, <3>1 DEF Consecutive
    <3>3. QED BY <2>3, <2>4, <3>1, <3>2, SeqEqual
  <2>6. Stream!End
    BY <2>1, <2>2, <2>5 DEF Stream!End, Numbers
  <2>7. QED BY <2>6 DEF Stream!Next
<1>6. QED BY <1>1, <1>2, <1>3, <1>4, <1>5, StreamOther

\* The two threads, the channel and the kernel's buffer implement PtyStream:
\* what read_output promises holds however the parties interleave.
THEOREM SessionImplementsStream == Spec => ImplementsStream
<1>1. TypeInv /\ StreamInv /\ [Next]_vars => [Stream!Next]_(Stream!vars)
  BY RefinementNext
<1>2. QED
  BY <1>1, RefinementInit, TypeCorrect, StreamInvHolds, PTL DEF Spec, Stream!Spec, ImplementsStream

-----------------------------------------------------------------------------
(* The input.                                                              *)

\* How many units the writer thread holds.
Carried == IF msg = 0 THEN 0 ELSE 1

\* The units from 1 to `typed` lie, in order, in what the target has read, the
\* kernel's buffer, the writer's hands and the input channel, as long as the
\* writer thread lives.
InputInv ==
    /\ Consecutive(consumed, 0)
    /\ Consecutive(kin, Len(consumed))
    /\ writerPc # "done" =>
         /\ msg # 0 => msg = Len(consumed) + Len(kin) + 1
         /\ Consecutive(inq, Len(consumed) + Len(kin) + Carried)
         /\ typed = Len(consumed) + Len(kin) + Carried + Len(inq)

\* Nothing has been typed initially.
LEMMA InputInit == Init => InputInv
  BY ConsecutiveEmpty, EmptySeq DEF Init, InputInv, Carried

\* A step after which the input is where it was.
InputUnseen == UNCHANGED <<consumed, kin, writerPc, msg, inq, typed>>

\* Such a step keeps the invariant.
LEMMA InputUnseenInv == InputInv /\ InputUnseen => InputInv'
  BY DEF InputInv, InputUnseen, Carried

\* Every step but these six leaves the input where it was.
LEMMA InputOther ==
  ASSUME [Next]_vars
  PROVE  \/ InputUnseen
         \/ TargetRead \/ WriterRecv \/ WriterInputDropped \/ WriterWrite
         \/ WriterFails \/ Queue
<1> USE DEF InputUnseen, targetVars, ttyVars, readerVars, writerVars, inputVars, hostVars
<1>1. CASE Target
  BY <1>1 DEF Target, Fork, Die, CloseSlave, RecyclePid, TargetWrite
<1>2. CASE Reader \/ Writer \/ Handles
  BY <1>2 DEF Reader, Writer, Handles, ReaderRead, ReaderEof, ReaderSend, HandleWrite,
              HandleDropped
<1>3. CASE Host
  <2>1. CASE WaitWithTimeout \/ ChildWait \/ WriteInput \/ InputHandle
    BY <2>1 DEF WaitWithTimeout, ChildWait, WriteInput, InputHandle
  <2>2. CASE Terminate \/ DropTerminate
    BY <2>2 DEF Terminate, DropTerminate, Signal, KillGroup
  <2>3. CASE DropInput \/ Reap \/ ReapGiveUp \/ DropJoinReader \/ DropJoinWriter
    BY <2>3 DEF DropInput, Reap, ReapGiveUp, DropJoinReader, DropJoinWriter
  <2>4. CASE ReadData \/ ReadEof
    BY <2>4 DEF ReadData, ReadEof
  <2>5. QED BY <1>3, <2>1, <2>2, <2>3, <2>4 DEF Host, Teardown
<1>4. CASE UNCHANGED vars
  BY <1>4 DEF vars
<1>5. QED BY <1>1, <1>2, <1>3, <1>4 DEF Next

\* Every step keeps the invariant.
LEMMA InputNext ==
  ASSUME TypeInv, InputInv, [Next]_vars
  PROVE  InputInv'
<1> DEFINE c == Len(consumed)
           k == Len(kin)
<1>0. /\ consumed \in Seq(1..MaxTyped) /\ kin \in Seq(1..MaxTyped)
      /\ inq \in Seq(1..MaxTyped) /\ (writerPc = "write" <=> msg # 0)
      /\ msg \in 0..MaxTyped /\ typed \in 0..MaxTyped
      /\ c \in Nat /\ k \in Nat /\ Len(inq) \in Nat /\ MaxTyped \in Nat
      /\ Carried \in {0, 1}
  BY LenProperties, PtyAssumption DEF TypeInv, TypeOK, Carried
<1>1. CASE InputUnseen
  BY <1>1, InputUnseenInv
<1>2. CASE TargetRead
  <2>1. /\ kin # <<>> /\ consumed' = Append(consumed, Head(kin)) /\ kin' = Tail(kin)
        /\ UNCHANGED <<writerPc, msg, inq, typed, Carried>>
    BY <1>2 DEF TargetRead, writerVars, inputVars, Carried
  <2>2. Consecutive(consumed, 0) /\ Consecutive(kin, c)
    BY DEF InputInv
  <2>3. /\ Head(kin) = c + 1 /\ Consecutive(kin', c + 1)
        /\ k = Len(kin') + 1 /\ Len(kin') \in Nat
    BY <1>0, <2>1, <2>2, ConsecutiveTail
  <2>4. Head(kin) \in 1..MaxTyped
    BY <1>0, <2>1, HeadTailProperties
  <2>5. Consecutive(consumed', 0) /\ Len(consumed') = c + 1
    BY <1>0, <2>1, <2>2, <2>3, <2>4, ConsecutiveAppend
  <2>6. Len(consumed') + Len(kin') = c + k
    BY <1>0, <2>3, <2>5
  <2>7. QED BY <2>1, <2>3, <2>5, <2>6 DEF InputInv
<1>3. CASE WriterRecv
  <2>1. /\ writerPc = "recv" /\ inq # <<>> /\ msg' = Head(inq) /\ inq' = Tail(inq)
        /\ writerPc' = "write" /\ UNCHANGED <<consumed, kin, typed>>
    BY <1>3 DEF WriterRecv, ttyVars
  <2>2. Carried = 0 /\ msg = 0
    BY <1>0, <2>1 DEF Carried
  <2>3. /\ Consecutive(inq, c + k) /\ typed = c + k + Len(inq) /\ c + k \in Nat
        /\ Consecutive(consumed, 0) /\ Consecutive(kin, c)
    BY <1>0, <2>1, <2>2 DEF InputInv
  <2>4. /\ msg' = c + k + 1 /\ Consecutive(inq', c + k + 1)
        /\ Len(inq) = Len(inq') + 1 /\ Len(inq') \in Nat
    BY <1>0, <2>1, <2>3, ConsecutiveTail
  <2>5. Carried' = 1
    BY <1>0, <2>4 DEF Carried
  <2>6. typed' = c + k + 1 + Len(inq')
    BY <1>0, <2>1, <2>3, <2>4
  <2>7. QED BY <2>1, <2>3, <2>4, <2>5, <2>6 DEF InputInv
<1>4. CASE WriterInputDropped \/ WriterFails
  <2>1. writerPc' = "done" /\ UNCHANGED <<consumed, kin>>
    BY <1>4 DEF WriterInputDropped, WriterFails, ttyVars
  <2>2. QED BY <2>1 DEF InputInv
<1>5. CASE WriterWrite
  <2>1. /\ writerPc = "write" /\ kin' = Append(kin, msg) /\ msg' = 0
        /\ writerPc' = "recv" /\ UNCHANGED <<consumed, inq, typed>>
    BY <1>5 DEF WriterWrite, inputVars
  <2>2. Carried = 1 /\ Carried' = 0 /\ msg \in 1..MaxTyped
    BY <1>0, <2>1 DEF Carried
  <2>3. /\ msg = c + k + 1 /\ Consecutive(inq, c + k + 1)
        /\ typed = c + k + 1 + Len(inq)
        /\ Consecutive(consumed, 0) /\ Consecutive(kin, c)
    BY <1>0, <2>1, <2>2 DEF InputInv
  <2>4. Consecutive(kin', c) /\ Len(kin') = k + 1
    BY <1>0, <2>1, <2>2, <2>3, ConsecutiveAppend
  <2>5. c + Len(kin') + Carried' = c + k + 1
    BY <1>0, <2>2, <2>4
  <2>6. QED BY <2>1, <2>3, <2>4, <2>5 DEF InputInv
<1>6. CASE Queue
  <2>1. /\ writerPc # "done" /\ typed < MaxTyped /\ typed' = typed + 1
        /\ inq' = Append(inq, typed + 1)
        /\ UNCHANGED <<consumed, kin, writerPc, msg, Carried>>
    BY <1>6 DEF Queue, ttyVars, writerVars, Carried
  <2>2. /\ Consecutive(inq, c + k + Carried) /\ typed = c + k + Carried + Len(inq)
        /\ c + k + Carried \in Nat
        /\ Consecutive(consumed, 0) /\ Consecutive(kin, c)
        /\ (msg # 0 => msg = c + k + 1)
    BY <1>0, <2>1 DEF InputInv
  <2>3. typed + 1 \in 1..MaxTyped
    BY <1>0, <2>1
  <2>4. Consecutive(inq', c + k + Carried) /\ Len(inq') = Len(inq) + 1
    BY <1>0, <2>1, <2>2, <2>3, ConsecutiveAppend
  <2>5. typed' = c + k + Carried + Len(inq')
    BY <1>0, <2>1, <2>2, <2>4
  <2>6. QED BY <2>1, <2>2, <2>4, <2>5 DEF InputInv
<1>7. QED BY <1>1, <1>2, <1>3, <1>4, <1>5, <1>6, InputOther

\* The invariant says where each unit is.
LEMMA InputInvImplies == ASSUME TypeOK, InputInv PROVE InputIntact
<1>1. Len(consumed) \in Nat /\ Len(kin) \in Nat
  BY LenProperties DEF TypeOK
<1>2. Consecutive(consumed, 0) /\ Consecutive(kin, Len(consumed))
  BY DEF InputInv
<1>3. \A i \in 1..Len(consumed) : consumed[i] = i
  BY <1>1, <1>2 DEF Consecutive
<1>4. \A i \in 1..Len(kin) : kin[i] = Len(consumed) + i
  BY <1>1, <1>2 DEF Consecutive
<1>5. writerPc # "done" =>
        typed = Len(consumed) + Len(kin) + (IF msg = 0 THEN 0 ELSE 1) + Len(inq)
  BY DEF InputInv, Carried
<1>6. QED BY <1>3, <1>4, <1>5 DEF InputIntact

\* Input reaches the target in the order it was queued, and none of it is lost
\* while the writer thread lives.
THEOREM InputIsIntact == Spec => []InputIntact
<1>1. TypeInv /\ InputInv /\ [Next]_vars => InputInv'
  BY InputNext
<1>2. TypeOK /\ InputInv => InputIntact
  BY InputInvImplies
<1>3. QED BY <1>1, <1>2, InputInit, TypeCorrect, TypeOKHolds, PTL DEF Spec

-----------------------------------------------------------------------------
(* What the owner does to the session.                                     *)

\* Every step is one of the session's own, leaves it alone, or ends the process.
LEMMA RunStep ==
  ASSUME [RunNext]_allVars
  PROVE  [Next]_vars \/ Vanish
<1>1. CASE TargetStep \/ ReaderStep \/ WriterStep \/ OwnedByWrapper
  BY <1>1 DEF TargetStep, ReaderStep, WriterStep, OwnedByWrapper, Next
<1>2. CASE MainStep
  <2>1. CASE TakeGuard \/ SpawnPanics \/ DropGuard
    BY <2>1 DEF TakeGuard, SpawnPanics, DropGuard
  <2>2. CASE SpawnStdin \/ Mirror \/ MirrorEof \/ DropSession \/ OwnerTeardown
    BY <2>2 DEF SpawnStdin, Mirror, MirrorEof, DropSession, OwnerTeardown, Next, Host
  <2>3. CASE Exit
    BY <2>3 DEF Exit
  <2>4. QED BY <1>2, <2>1, <2>2, <2>3 DEF MainStep
<1>3. CASE StdinStep
  BY <1>3 DEF StdinStep, StdinRead, StdinWrite, StdinEnds, Next, Handles
<1>4. CASE HangUp \/ FatalSignal
  BY <1>4 DEF HangUp, FatalSignal
<1>5. CASE UNCHANGED allVars
  BY <1>5 DEF allVars
<1>6. QED BY <1>1, <1>2, <1>3, <1>4, <1>5 DEF RunNext

\* The end of the process empties the channels and ends the threads, nothing else.
LEMMA VanishInvs ==
  /\ TypeInv /\ Vanish => TypeInv'
  /\ InputInv /\ Vanish => InputInv'
  /\ SignalInv /\ Vanish => SignalInv'
<1>1. ASSUME TypeInv, Vanish PROVE TypeInv'
  <2>1. <<>> \in Seq(1..MaxUnits) /\ <<>> \in Seq(1..MaxTyped)
    BY EmptySeq
  <2>2. closing' \in BOOLEAN /\ input' \in BOOLEAN
    BY <1>1, Zenon DEF Vanish
  <2>3. /\ UNCHANGED <<born, alive, killed, holders, childStatus, pidReused>>
        /\ UNCHANGED <<written, kout, kin, consumed, typed, delivered>>
        /\ UNCHANGED <<eof, terminated, strangerHit, signals>>
    BY <1>1 DEF Vanish, targetVars, ttyVars
  <2>4. /\ hostPc' = "gone" /\ handles' = 0 /\ msg' = 0 /\ chunk' = 0
        /\ readerPc' = "done" /\ writerPc' = "done" /\ inq' = <<>> /\ outq' = <<>>
    BY <1>1 DEF Vanish
  <2>5. QED BY <1>1, <2>1, <2>2, <2>3, <2>4, PtyAssumption DEF TypeInv, TypeOK
<1>2. ASSUME InputInv, Vanish PROVE InputInv'
  BY <1>2 DEF Vanish, InputInv, ttyVars
<1>3. ASSUME SignalInv, Vanish PROVE SignalInv'
  BY <1>3 DEF Vanish, SignalInv, targetVars
<1>4. QED BY <1>1, <1>2, <1>3

\* Every variable of the session keeps its type, with interactive mode as its
\* owner or a Wrapper.
THEOREM SessionTypesHold == RunSpec => []TypeInv
<1>1. RunInit => TypeInv
  BY TypeInit DEF RunInit
<1>2. TypeInv /\ [RunNext]_allVars => TypeInv'
  BY RunStep, TypeNext, VanishInvs
<1>3. QED BY <1>1, <1>2, PTL DEF RunSpec

\* Input reaches the target in the order it was typed, and none of it is lost
\* while the writer thread lives, from the keyboard's thread too.
THEOREM TypedInputIsIntact == RunSpec => []InputIntact
<1>1. RunInit => InputInv
  BY InputInit DEF RunInit
<1>2. TypeInv /\ InputInv /\ [RunNext]_allVars => InputInv'
  BY RunStep, InputNext, VanishInvs
<1>3. TypeOK /\ InputInv => InputIntact
  BY InputInvImplies
<1>4. TypeInv => TypeOK
  BY DEF TypeInv
<1>5. QED BY <1>1, <1>2, <1>3, <1>4, SessionTypesHold, PTL DEF RunSpec

\* No SIGKILL goes to a process group the session did not create, whether Drop
\* tears the session down or the process dies in the middle of it.
THEOREM OwnerKillsNoStranger ==
  ASSUME RawChild = FALSE PROVE RunSpec => []NoStrangerKilled
<1>1. RunInit => ChildInv /\ SignalInv
  BY ChildInit, SignalInit DEF RunInit
<1>2. ChildInv /\ Vanish => ChildInv'
  BY DEF ChildInv, Vanish, targetVars
<1>3. TypeOK /\ ChildInv /\ SignalInv /\ [Next]_vars => SignalInv'
  BY SignalStep, SignalOther
<1>4. TypeInv /\ (ChildInv /\ SignalInv) /\ [RunNext]_allVars => (ChildInv /\ SignalInv)'
  BY <1>2, <1>3, RunStep, ChildNext, VanishInvs DEF TypeInv
<1>5. ChildInv /\ SignalInv => NoStrangerKilled
  BY DEF SignalInv, NoStrangerKilled
<1>6. QED BY <1>1, <1>4, <1>5, SessionTypesHold, PTL DEF RunSpec

-----------------------------------------------------------------------------
(* The user's terminal.                                                    *)

\* After a fatal signal nothing else ends the process.
TerminalInv ==
    /\ TerminalRestored
    /\ ending = "signal" => mainPc = "exited"

\* The steps of everybody but the main thread.
LEMMA TerminalOthers ==
  ASSUME TerminalInv,
         TargetStep \/ ReaderStep \/ WriterStep \/ OwnedByWrapper
           \/ StdinStep \/ HangUp \/ UNCHANGED allVars
  PROVE  TerminalInv'
<1>1. /\ UNCHANGED <<mainPc, terminal, guard, ending>>
      /\ hungUp => hungUp'
  BY DEF TargetStep, ReaderStep, WriterStep, OwnedByWrapper, StdinStep, StdinRead,
         StdinWrite, StdinEnds, HangUp, allVars, ownerVars
<1>2. QED BY <1>1 DEF TerminalInv, TerminalRestored

\* The steps of the main thread.
LEMMA TerminalMain == ASSUME TerminalInv, MainStep PROVE TerminalInv'
<1> USE DEF TerminalInv, TerminalRestored, Goto
<1>1. CASE TakeGuard
  BY <1>1 DEF TakeGuard, GuardNew
<1>2. CASE SpawnStdin \/ SpawnPanics \/ MirrorEof
  BY <1>2 DEF SpawnStdin, SpawnPanics, MirrorEof
<1>3. CASE Mirror \/ OwnerTeardown
  BY <1>3 DEF Mirror, OwnerTeardown, ownerVars
<1>4. CASE DropGuard
  BY <1>4 DEF DropGuard
<1>5. CASE DropSession
  BY <1>5 DEF DropSession
<1>6. CASE Exit
  BY <1>6 DEF Exit, Vanish
<1>7. QED BY <1>1, <1>2, <1>3, <1>4, <1>5, <1>6 DEF MainStep

\* The terminal is raw only as long as the guard is held, whichever of the ways
\* out of interactive the main thread takes (RawModeGuard, terminal.rs).
THEOREM TerminalIsRestored == RunSpec => []TerminalRestored
<1>1. RunInit => TerminalInv
  BY DEF RunInit, TerminalInv, TerminalRestored
<1>2. TerminalInv /\ FatalSignal => TerminalInv'
  BY DEF TerminalInv, TerminalRestored, FatalSignal, Vanish
<1>3. TerminalInv /\ [RunNext]_allVars => TerminalInv'
  BY <1>2, TerminalOthers, TerminalMain DEF RunNext
<1>4. TerminalInv => TerminalRestored
  BY DEF TerminalInv
<1>5. QED BY <1>1, <1>3, <1>4, PTL DEF RunSpec
=============================================================================
