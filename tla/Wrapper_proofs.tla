----------------------------- MODULE Wrapper_proofs -----------------------------
(***************************************************************************)
(* Theorems about Wrapper and about Orchestrator, the run of the CLI that  *)
(* calls it, for every configuration: any timeouts, any number of          *)
(* commands, and any target.                                               *)
(***************************************************************************)
EXTENDS Orchestrator, FiniteSetTheorems, TLAPS

\* The parameters that are numbers.
LEMMA Durations ==
  /\ IdleSilence \in Nat /\ IdleSilence > 0 /\ ExecTimeout \in Nat /\ ExecTimeout > 0
  /\ InterruptGrace \in Nat /\ PollInterval \in Nat /\ PollInterval > 0
  /\ HardTimeout \in Nat \cup {None} /\ MarkerlessGrace \in Nat \cup {None} /\ None = -1
  /\ MaxTyping \in Nat /\ Overrun \in Nat
  /\ MaxIteration \in Nat
  /\ MaxIteration >= PollInterval + MaxTyping /\ MaxIteration >= PollInterval + Overrun
  BY WrapperAssumption DEF None, MaxIteration

-----------------------------------------------------------------------------
(* The steps, whoever calls the wrapper: the commands are run in order, each under the  *)
(* gate of its own marker or under none. What the library client and the CLI share is   *)
(* proved for these.                                                                    *)

OpenNext ==
    \/ WaitUntilIdle
    \/ /\ cmd < NumCmds
       /\ \E n \in {NoNeedle, NeedleOf[cmd + 1]} : RunCommand(cmd + 1, n)
    \/ Step
    \/ TargetCloses

LEMMA NextIsOpen == Next => OpenNext
  BY DEF Next, Client, OpenNext

-----------------------------------------------------------------------------
(* Time.                                                                   *)

\* At most `slack` has passed since the loop last found its deadlines unspent.
Budget(slack) ==
    /\ HardTimeout # None => now < HardTimeout + slack
    /\ interruptedAt = None => now < ExecTimeout + slack
    /\ interruptedAt # None => now <= interruptedAt + InterruptGrace + slack

\* The clock, and how far it may be at each place of the loop.
TimeInv ==
    /\ now \in Nat /\ lastActivity \in Nat /\ changedAt \in Nat
    /\ interruptedAt \in Nat \cup {None}
    /\ changedAt <= lastActivity /\ lastActivity <= now
    /\ interruptedAt # None =>
         /\ ExecTimeout <= interruptedAt /\ interruptedAt <= now
         /\ interruptedAt < ExecTimeout + MaxIteration
    /\ pc = "read" => Budget(0)
    /\ pc = "confirm" => Budget(PollInterval)
    /\ Budget(MaxIteration)

clockVars == <<now, lastActivity, interruptedAt, changedAt>>

\* A step that leaves the clock alone and goes nowhere that a deadline is due.
LEMMA TimeStands ==
  ASSUME TimeInv, UNCHANGED clockVars, pc' \in {pc, "free", "top", "approve", "gate"}
  PROVE  TimeInv'
  BY DEF TimeInv, clockVars, Budget

LEMMA TimeStarts == ASSUME EnterWait PROVE TimeInv'
  BY Durations DEF EnterWait, TimeInv, Budget

\* The steps that look at the deadlines.
LEMMA TimeTop ==
  ASSUME TimeInv, WatchdogInterrupt \/ WatchdogQuiet
  PROVE  TimeInv'
<1>1. CASE WatchdogInterrupt
  BY <1>1, Durations DEF WatchdogInterrupt, TimeInv, Budget, CapReached, ExecExpired, ghostVars
<1>2. CASE WatchdogQuiet
  BY <1>2, Durations DEF WatchdogQuiet, TimeInv, Budget, CapReached, ExecExpired, GraceSpent,
                         ghostVars, localVars
<1>3. QED BY <1>1, <1>2

\* The steps that take time.
LEMMA TimeMoves ==
  ASSUME TimeInv, ReadData \/ ConfirmReply \/ ReadIdle
  PROVE  TimeInv'
<1>1. CASE ReadData
  BY <1>1, Durations DEF ReadData, TimeInv, Budget
<1>2. CASE ConfirmReply
  BY <1>2, Durations DEF ConfirmReply, ReplyDue, ExecExpired, TimeInv, Budget
<1>3. CASE ReadIdle
  <2>1. pc' \in {"top", "free"} /\ UNCHANGED <<lastActivity, interruptedAt, changedAt>>
    BY <1>3 DEF ReadIdle, Return, ghostVars
  <2>2. PICK d \in PollInterval..(PollInterval + Overrun) : now' = now + d
    BY <1>3 DEF ReadIdle, PollElapses
  <2>3. pc = "read"
    BY <1>3 DEF ReadIdle
  <2>4. QED BY <2>1, <2>2, <2>3, Durations DEF TimeInv, Budget
<1>4. QED BY <1>1, <1>2, <1>3

LEMMA TimeNext == ASSUME TimeInv, [OpenNext]_vars PROVE TimeInv'
<1>1. CASE WaitUntilIdle \/ \E c, n : RunCommand(c, n)
  <2>1. CASE WaitUntilIdle
    BY <2>1, TimeStarts DEF WaitUntilIdle
  <2>2. CASE \E c, n : RunCommand(c, n)
    <3>1. CASE Tui
      BY <2>2, <3>1, TimeStarts DEF RunCommand
    <3>2. CASE ~Tui
      BY <2>2, <3>2, TimeStands DEF RunCommand, clockVars, localVars
    <3>3. QED BY <3>1, <3>2
  <2>3. QED BY <1>1, <2>1, <2>2
<1>2. CASE Send
  BY <1>2, TimeStarts DEF Send
<1>3. CASE SendFails \/ TargetCloses \/ UNCHANGED vars
  <2>1. UNCHANGED clockVars /\ pc' = pc
    BY <1>3 DEF SendFails, TargetCloses, vars, clockVars, localVars, ghostVars, callVars
  <2>2. QED BY <2>1, TimeStands
<1>4. CASE HardCap \/ WatchdogKill \/ ConfirmReplyFails \/ NoConfirmReply \/ Approve
  <2>1. pc' \in {"free", "approve", "gate"}
    BY <1>4 DEF HardCap, WatchdogKill, ConfirmReplyFails, NoConfirmReply, Approve, Return
  <2>2. CASE Approve
    <3>1. UNCHANGED <<now, interruptedAt, changedAt>> /\ lastActivity' \in {now, lastActivity}
      BY <2>2 DEF Approve
    <3>2. QED BY <2>1, <3>1 DEF TimeInv, Budget
  <2>3. CASE ~Approve
    <3>1. UNCHANGED clockVars
      BY <1>4, <2>3 DEF HardCap, WatchdogKill, ConfirmReplyFails, NoConfirmReply,
                        clockVars, localVars, ghostVars
    <3>2. QED BY <2>1, <3>1, TimeStands
  <2>4. QED BY <2>2, <2>3
<1>5. CASE GateCompletes \/ GateHolds \/ ReadEof
  <2>1. pc' \in {"free", "top"} /\ UNCHANGED clockVars
    BY <1>5 DEF GateCompletes, GateHolds, ReadEof, Return, clockVars, localVars, ghostVars
  <2>2. QED BY <2>1, TimeStands
<1>6. QED BY <1>1, <1>2, <1>3, <1>4, <1>5, TimeTop, TimeMoves DEF OpenNext, Step, WaitStep

LEMMA TimeInvHolds == Spec => []TimeInv
<1>1. Init => TimeInv
  BY Durations DEF Init, TimeInv, Budget
<1>2. TimeInv /\ [Next]_vars => TimeInv'
  BY TimeNext, NextIsOpen
<1>3. QED BY <1>1, <1>2, PTL DEF Spec

\* No wait outlives the watchdog's two stages or the hard cap by more than an iteration.
THEOREM WaitsAreBounded == Spec => []WaitBounded
<1>1. TimeInv => WaitBounded
  BY Durations DEF TimeInv, Budget, WaitBounded
<1>2. QED BY <1>1, TimeInvHolds, PTL

\* The wrapper kills the target only at the hard cap, or a full grace after a Ctrl+C that
\* it sent when the budget of the same wait was spent.
THEOREM KillsAreDue == Spec => KillIsDue
<1> DEFINE Due == ~terminated /\ terminated' =>
                     \/ HardTimeout # None /\ now >= HardTimeout
                     \/ interruptedAt >= ExecTimeout /\ now >= interruptedAt + InterruptGrace
<1>1. TimeInv /\ [Next]_vars => [Due]_vars
  <2> SUFFICES ASSUME TimeInv, Next, ~terminated, terminated' PROVE Due
    OBVIOUS
  <2>1. HardCap \/ WatchdogKill
    BY DEF Next, Client, Step, WaitStep, WaitUntilIdle, RunCommand, Send, SendFails,
           WatchdogInterrupt, WatchdogQuiet, ReadData, ConfirmReply, ConfirmReplyFails,
           NoConfirmReply, Approve, GateCompletes, GateHolds, ReadIdle, ReadEof,
           TargetCloses, sessionVars
  <2>2. CASE HardCap
    BY <2>2 DEF HardCap, CapReached
  <2>3. CASE WatchdogKill
    BY <2>3, Durations DEF WatchdogKill, GraceSpent, TimeInv
  <2>4. QED BY <2>1, <2>2, <2>3
<1>2. QED BY <1>1, TimeInvHolds, PTL DEF Spec, KillIsDue

-----------------------------------------------------------------------------
(* The acceptance without the marker.                                      *)

\* The wait state machine runs exactly while a call waits, and has then not yet
\* accepted anything.
CallInv ==
    /\ pc = "free" => phase \in {"none", "send"}
    /\ pc # "free" => phase \in {"ready", "reply", "wait"} /\ markerlessQuiet = None
    /\ MarkerlessExact

\* A step within a wait: nothing is returned.
LEMMA CallGoesOn ==
  ASSUME CallInv, phase' = phase, phase # "none", markerlessQuiet' = markerlessQuiet,
         pc # "free", pc' # "free"
  PROVE  CallInv'
  BY DEF CallInv, MarkerlessExact, Returned

\* A return that is not an acceptance.
LEMMA CallFails ==
  ASSUME CallInv, pc # "free", NEW o, Return(o), o # "Idle"
  PROVE  CallInv'
  BY DEF CallInv, MarkerlessExact, Returned, Return

\* An acceptance on the closing marker, or without a gate.
LEMMA CallAccepts ==
  ASSUME CallInv, pc # "free", Return("Idle"), IdleGateOpen,
         UNCHANGED <<markerlessQuiet, baseline, hits>>
  PROVE  CallInv'
<1>1. CASE phase = "ready"
  BY <1>1 DEF CallInv, MarkerlessExact, Returned, Return
<1>2. CASE phase # "ready"
  BY <1>2 DEF CallInv, MarkerlessExact, Returned, Return, IdleGateOpen, GateHits
<1>3. QED BY <1>1, <1>2

LEMMA CallReadIdle == ASSUME TimeInv, CallInv, ReadIdle PROVE CallInv'
<1>1. pc # "free" /\ UNCHANGED <<hits, baseline, interruptedAt, changedAt>>
  BY DEF ReadIdle, displayVars, ghostVars
<1>2. CASE ~Accepted(now')
  <2>1. pc' = "top" /\ UNCHANGED <<phase, markerlessQuiet>>
    BY <1>2 DEF ReadIdle
  <2>2. QED BY <1>1, <2>1, CallGoesOn DEF CallInv
<1>3. CASE Accepted(now') /\ IdleGateOpen
  BY <1>1, <1>3, CallAccepts DEF ReadIdle
<1>4. CASE Accepted(now') /\ ~IdleGateOpen
  <2>1. /\ Return("Idle")
        /\ markerlessQuiet' = now' - lastActivity
        /\ Settled(now') /\ MarkerlessSettleAllowed(now')
    BY <1>4 DEF ReadIdle, QuietWindow, Accepted
  <2>2. now' \in Nat
    <3>1. PICK d \in PollInterval..(PollInterval + Overrun) : now' = now + d
      BY DEF ReadIdle, PollElapses
    <3>2. QED BY <3>1, Durations DEF TimeInv
  <2>3. CASE phase = "ready"
    BY <2>1, <2>3 DEF Return, CallInv, MarkerlessExact, Returned
  <2>4. CASE phase # "ready"
    <3>1. gate' = gate /\ pc' = "free" /\ phase' = "none"
      BY <2>1, <2>4 DEF Return
    <3>2. ~IdleGateOpen'
      BY <1>1, <1>4, <3>1 DEF IdleGateOpen, GateHits
    <3>3. /\ MarkerlessGrace # None /\ interruptedAt' = None
          /\ IdleSilence <= markerlessQuiet' /\ markerlessQuiet' <= now' - changedAt'
          /\ markerlessQuiet' < MarkerlessGrace => now' + IdleSilence >= ExecTimeout
          /\ markerlessQuiet' # None
      <4>1. /\ interruptedAt = None /\ now' - lastActivity >= IdleSilence
            /\ MarkerlessGrace # None
            /\ \/ now' - lastActivity >= MarkerlessGrace
               \/ now' + IdleSilence >= ExecTimeout
        BY <2>1 DEF Settled, MarkerlessSettleAllowed
      <4>2. lastActivity \in Nat /\ changedAt \in Nat /\ changedAt <= lastActivity
        BY DEF TimeInv
      <4>3. markerlessQuiet' = now' - lastActivity /\ changedAt' = changedAt
        BY <1>1, <2>1
      <4>4. MarkerlessGrace \in Nat
        BY <4>1, Durations
      <4>5. PICK t \in Nat : t = now'
        BY <2>2
      <4>6. /\ IdleSilence <= t - lastActivity /\ t - lastActivity <= t - changedAt
            /\ t - lastActivity < MarkerlessGrace => t + IdleSilence >= ExecTimeout
            /\ t - lastActivity # None
        <5>1. /\ t - lastActivity >= IdleSilence
              /\ t - lastActivity >= MarkerlessGrace \/ t + IdleSilence >= ExecTimeout
          BY <4>1, <4>5
        <5>2. QED BY <4>2, <4>4, <5>1, Durations
      <4>7. QED BY <1>1, <4>1, <4>3, <4>5, <4>6
    <3>4. QED BY <3>1, <3>2, <3>3 DEF CallInv, MarkerlessExact, None
  <2>5. QED BY <2>3, <2>4
<1>5. QED BY <1>2, <1>3, <1>4

LEMMA CallNext == ASSUME TimeInv, CallInv, [OpenNext]_vars PROVE CallInv'
<1>1. CASE WaitUntilIdle \/ Send \/ SendFails \/ (\E c, n : RunCommand(c, n))
  BY <1>1 DEF WaitUntilIdle, Send, SendFails, RunCommand, EnterWait, CallInv,
              MarkerlessExact, Returned
<1>2. CASE HardCap \/ WatchdogKill
  BY <1>2, CallFails DEF HardCap, WatchdogKill
<1>3. CASE ConfirmReplyFails \/ ReadEof
  <2>1. CASE ConfirmReplyFails
    BY <2>1, CallFails DEF ConfirmReplyFails
  <2>2. CASE ReadEof
    <3>1. pc # "free" /\ Return(EofOutcome)
      BY <2>2 DEF ReadEof
    <3>2. EofOutcome # "Idle"
      BY DEF EofOutcome
    <3>3. QED BY <3>1, <3>2, CallFails
  <2>3. QED BY <1>3, <2>1, <2>2
<1>4. CASE WatchdogInterrupt \/ WatchdogQuiet \/ GateHolds
  BY <1>4, CallGoesOn DEF WatchdogInterrupt, WatchdogQuiet, GateHolds, fieldVars, CallInv
<1>5. CASE ReadData \/ ConfirmReply \/ NoConfirmReply \/ Approve
  BY <1>5, CallGoesOn DEF ReadData, ConfirmReply, NoConfirmReply, Approve, CallInv
<1>6. CASE GateCompletes
  BY <1>6, CallAccepts DEF GateCompletes, displayVars
<1>7. CASE ReadIdle
  BY <1>7, CallReadIdle
<1>8. CASE TargetCloses \/ UNCHANGED vars
  BY <1>8 DEF TargetCloses, vars, callVars, fieldVars, localVars, displayVars, ghostVars,
              CallInv, MarkerlessExact, Returned, IdleGateOpen, GateHits
<1>9. QED BY <1>1, <1>2, <1>3, <1>4, <1>5, <1>6, <1>7, <1>8 DEF OpenNext, Step, WaitStep

LEMMA CallInvHolds == Spec => []CallInv
<1>1. Init => CallInv
  BY DEF Init, CallInv, MarkerlessExact, Returned
<1>2. TimeInv /\ CallInv /\ [Next]_vars => CallInv'
  BY CallNext, NextIsOpen
<1>3. QED BY <1>1, <1>2, TimeInvHolds, PTL DEF Spec

\* markerless_quiet reports a gated wait accepted without the marker and no other, and
\* only after the quiet that it reports.
THEOREM MarkerlessIsExact == Spec => []MarkerlessExact
<1>1. CallInv => MarkerlessExact
  BY DEF CallInv
<1>2. QED BY <1>1, CallInvHolds, PTL

-----------------------------------------------------------------------------
(* The closing marker.                                                     *)

\* Each command has a marker of its own, as --extract gives it.
UniqueNeedles == \A c, d \in 1..NumCmds : NeedleOf[c] = NeedleOf[d] => c = d

\* Every marker in the transcript ended a reply, and the gate waits for the marker of
\* the command being run.
MarkerInv ==
    /\ cmd \in 0..NumCmds
    /\ phase \in {"ready", "send", "reply"} => cmd \in 1..NumCmds
    /\ sent \subseteq 1..NumCmds /\ fenced \subseteq sent
    /\ hits \in [Needles -> Nat] /\ baseline \in Nat
    /\ \A n \in Needles : hits[n] > 0 => \E c \in fenced : NeedleOf[c] = n
    /\ gate # NoNeedle => cmd \in 1..NumCmds /\ gate = NeedleOf[cmd]
    /\ savedGate # NoNeedle => cmd \in 1..NumCmds /\ savedGate = NeedleOf[cmd]

LEMMA MarkersOfReplies ==
  ASSUME MarkerInv, MarkersChange, UNCHANGED <<cmd, phase, sent, baseline, gate, savedGate>>
  PROVE  MarkerInv'
<1>1. PICK ended \in SUBSET (sent \ fenced) :
         /\ fenced' = fenced \cup ended
         /\ IF Tui
              THEN /\ hits' \in [Needles -> 0..MaxHits]
                   /\ \A n \in Needles :
                         (\A c \in fenced' : NeedleOf[c] # n) => hits'[n] = 0
                   /\ \A c \in ended : hits'[NeedleOf[c]] > 0
              ELSE hits' = [n \in Needles |->
                      hits[n] + Cardinality({c \in ended : NeedleOf[c] = n})]
  BY DEF MarkersChange
<1>2. fenced' \subseteq sent /\ fenced \subseteq fenced'
  BY <1>1 DEF MarkerInv
<1>3. hits' \in [Needles -> Nat] /\ \A n \in Needles : hits'[n] > 0 => \E c \in fenced' : NeedleOf[c] = n
  <2>1. CASE Tui
    <3>1. hits' \in [Needles -> 0..MaxHits] /\ MaxHits \in Nat
      BY <1>1, <2>1, WrapperAssumption
    <3>2. ASSUME NEW n \in Needles, hits'[n] > 0 PROVE \E c \in fenced' : NeedleOf[c] = n
      BY <1>1, <2>1, <3>2
    <3>3. QED BY <3>1, <3>2
  <2>2. CASE ~Tui
    <3> DEFINE Of(n) == {c \in ended : NeedleOf[c] = n}
    <3>1. hits' = [n \in Needles |-> hits[n] + Cardinality(Of(n))]
      BY <1>1, <2>2
    <3>2. ASSUME NEW n \in Needles
          PROVE  /\ Cardinality(Of(n)) \in Nat
                 /\ Of(n) = {} => Cardinality(Of(n)) = 0
      <4>1. IsFiniteSet(1..NumCmds)
        BY FS_Interval, WrapperAssumption
      <4>2. Of(n) \subseteq 1..NumCmds
        BY DEF MarkerInv
      <4>3. IsFiniteSet(Of(n))
        BY <4>1, <4>2, FS_Subset
      <4>4. QED BY <4>3, FS_CardinalityType, FS_EmptySet
    <3> HIDE DEF Of
    <3>3. ASSUME NEW n \in Needles
          PROVE  /\ hits'[n] \in Nat
                 /\ hits'[n] > 0 => \E c \in fenced' : NeedleOf[c] = n
      <4>1. hits[n] \in Nat /\ hits'[n] = hits[n] + Cardinality(Of(n))
        BY <3>1 DEF MarkerInv
      <4>2. hits'[n] > 0 => hits[n] > 0 \/ Of(n) # {}
        BY <3>2, <4>1
      <4>3. Of(n) # {} => \E c \in fenced' : NeedleOf[c] = n
        BY <1>1 DEF Of
      <4>4. hits[n] > 0 => \E c \in fenced' : NeedleOf[c] = n
        BY <1>2 DEF MarkerInv
      <4>5. QED BY <3>2, <4>1, <4>2, <4>3, <4>4
    <3>4. hits' \in [Needles -> Nat]
      BY <3>1, <3>3
    <3>5. QED BY <3>3, <3>4
  <2>3. QED BY <2>1, <2>2
<1>4. QED BY <1>2, <1>3 DEF MarkerInv

\* The steps that leave commands and markers alone, and at most give the gate back.
MarkersAlone ==
    /\ UNCHANGED <<cmd, sent, fenced, hits, baseline>>
    /\ \/ phase' \in {phase, "none", "wait"}
       \/ phase = "ready" /\ phase' = "send"
    /\ gate' \in {gate, savedGate} /\ savedGate' \in {savedGate, NoNeedle}

LEMMA MarkersStand == ASSUME MarkerInv, MarkersAlone PROVE MarkerInv'
<1>1. cmd' = cmd /\ sent' = sent /\ fenced' = fenced /\ hits' = hits /\ baseline' = baseline
  BY DEF MarkersAlone
<1>2. phase' \in {"ready", "send", "reply"} => phase \in {"ready", "send", "reply"}
  BY DEF MarkersAlone
<1>3. gate' # NoNeedle => cmd \in 1..NumCmds /\ gate' = NeedleOf[cmd]
  BY DEF MarkerInv, MarkersAlone
<1>4. savedGate' # NoNeedle => cmd \in 1..NumCmds /\ savedGate' = NeedleOf[cmd]
  BY DEF MarkerInv, MarkersAlone
<1>5. QED BY <1>1, <1>2, <1>3, <1>4 DEF MarkerInv

LEMMA MarkersNext == ASSUME MarkerInv, [OpenNext]_vars PROVE MarkerInv'
<1> DEFINE Runs == /\ cmd < NumCmds
                   /\ \E n \in {NoNeedle, NeedleOf[cmd + 1]} : RunCommand(cmd + 1, n)
<1>1. CASE WaitUntilIdle \/ Runs
  <2>1. CASE WaitUntilIdle
    <3>1. MarkersAlone
      BY <2>1 DEF WaitUntilIdle, displayVars, MarkersAlone
    <3>2. QED BY <3>1, MarkersStand
  <2>2. CASE Runs
    <3>1. /\ cmd' = cmd + 1 /\ baseline' = 0 /\ UNCHANGED <<sent, fenced, hits>>
          /\ gate' \in {NoNeedle, NeedleOf[cmd + 1]}
          /\ savedGate' \in {NoNeedle, NeedleOf[cmd + 1]}
      BY <2>2 DEF RunCommand, displayVars
    <3>2. cmd + 1 \in 1..NumCmds
      BY <2>2, WrapperAssumption DEF MarkerInv
    <3>3. QED BY <3>1, <3>2 DEF MarkerInv
  <2>3. QED BY <1>1, <2>1, <2>2
<1>2. CASE Send \/ SendFails
  <2>1. GateHits \in Nat
    BY WrapperAssumption DEF GateHits, MarkerInv
  <2>2. /\ baseline' \in Nat /\ UNCHANGED <<cmd, fenced, hits, gate, savedGate>>
        /\ phase = "send" /\ phase' \in {"reply", "none"}
        /\ sent' \in {sent, sent \cup {cmd}}
    BY <1>2, <2>1 DEF Send, SendFails, ArmIdleGate, displayVars, ghostVars
  <2>3. QED BY <2>2 DEF MarkerInv
<1>3. CASE ReadData
  <2>1. CASE TranscriptChanges
    BY <1>3, <2>1, MarkersOfReplies DEF ReadData, TranscriptChanges
  <2>2. CASE ~TranscriptChanges
    <3>1. MarkersAlone
      BY <1>3, <2>2 DEF ReadData, displayVars, MarkersAlone
    <3>2. QED BY <3>1, MarkersStand
  <2>3. QED BY <2>1, <2>2
<1>4. CASE HardCap \/ WatchdogKill \/ ConfirmReplyFails \/ GateCompletes \/ ReadEof
  <2>1. UNCHANGED <<cmd, sent, fenced, hits, baseline>>
    BY <1>4 DEF HardCap, WatchdogKill, ConfirmReplyFails, GateCompletes, ReadEof,
                displayVars, ghostVars
  <2>2. \E o : Return(o)
    BY <1>4 DEF HardCap, WatchdogKill, ConfirmReplyFails, GateCompletes, ReadEof
  <2>3. MarkersAlone
    BY <2>1, <2>2 DEF MarkersAlone, Return
  <2>4. QED BY <2>3, MarkersStand
<1>5. CASE ReadIdle
  <2>1. UNCHANGED <<cmd, sent, fenced, hits, baseline>>
    BY <1>5 DEF ReadIdle, displayVars, ghostVars
  <2>2. Return("Idle") \/ UNCHANGED <<phase, gate, savedGate>>
    BY <1>5 DEF ReadIdle
  <2>3. MarkersAlone
    BY <2>1, <2>2 DEF MarkersAlone, Return
  <2>4. QED BY <2>3, MarkersStand
<1>6. CASE \/ WatchdogInterrupt \/ WatchdogQuiet \/ ConfirmReply \/ NoConfirmReply
           \/ Approve \/ GateHolds \/ TargetCloses \/ UNCHANGED vars
  <2>1. UNCHANGED <<cmd, phase, gate, savedGate, baseline, hits, sent, fenced>>
    BY <1>6 DEF WatchdogInterrupt, WatchdogQuiet, ConfirmReply, NoConfirmReply, Approve,
                GateHolds, TargetCloses, vars, callVars, fieldVars, displayVars, ghostVars
  <2>2. MarkersAlone
    BY <2>1 DEF MarkersAlone
  <2>3. QED BY <2>2, MarkersStand
<1>7. QED BY <1>1, <1>2, <1>3, <1>4, <1>5, <1>6 DEF OpenNext, Step, WaitStep

LEMMA MarkerInvHolds == Spec => []MarkerInv
<1>1. Init => MarkerInv
  BY WrapperAssumption DEF Init, MarkerInv
<1>2. MarkerInv /\ [Next]_vars => MarkerInv'
  BY MarkersNext, NextIsOpen
<1>3. QED BY <1>1, <1>2, PTL DEF Spec

\* When every command has a marker of its own, its wait completes on the marker only
\* when the target has ended the reply to that very command, in either mode and however
\* the screen is repainted.
THEOREM CompletionIsNotStale ==
  ASSUME UniqueNeedles
  PROVE  Spec => []NoStaleCompletion
<1>1. MarkerInv /\ CallInv => NoStaleCompletion
  <2> SUFFICES ASSUME MarkerInv, CallInv, Returned("Idle"), gate # NoNeedle,
                      markerlessQuiet = None
               PROVE  cmd \in fenced
    BY DEF NoStaleCompletion
  <2>1. hits[gate] > baseline
    BY DEF CallInv, MarkerlessExact, IdleGateOpen, GateHits
  <2>2. gate = NeedleOf[cmd] /\ cmd \in 1..NumCmds /\ gate \in Needles
    BY WrapperAssumption DEF MarkerInv
  <2>3. hits[gate] > 0
    BY <2>1, <2>2 DEF MarkerInv
  <2>4. QED BY <2>2, <2>3 DEF MarkerInv, UniqueNeedles
<1>2. QED BY <1>1, MarkerInvHolds, CallInvHolds, PTL

\* A log keeps the markers of earlier replies, and no reply does without its own.
LoggedAndClosed == ~Tui /\ Gated /\ MarkerlessGrace = None

Good == {"none", "Idle", "Completed"}

\* The client goes on only when every reply has been ended, so that only the marker of
\* the command being run can still be missing from the log.
LogInv ==
    /\ phase # "ready"
    /\ cmd = 0 => sent = {}
    /\ phase = "wait" => cmd = 0
    /\ phase = "none" /\ result \in Good => sent \subseteq fenced
    /\ phase \in {"send", "reply"} => gate = NeedleOf[cmd]
    /\ phase = "send" => sent \subseteq fenced
    /\ phase = "reply" => sent \ fenced \subseteq {cmd}
    /\ phase = "reply" /\ cmd \notin fenced => hits[gate] = baseline
    /\ NoStaleCompletion

\* A gate that is open for the command being run has seen its marker.
LEMMA OpenIsFenced ==
  ASSUME LogInv, MarkerInv, phase = "reply", gate # NoNeedle => IdleGateOpen
  PROVE  cmd \in fenced
<1>1. gate = NeedleOf[cmd] /\ cmd \in 1..NumCmds /\ gate \in Needles
  BY WrapperAssumption DEF LogInv, MarkerInv
<1>2. hits[gate] > baseline /\ hits[gate] \in Nat /\ baseline \in Nat
  BY <1>1, WrapperAssumption DEF IdleGateOpen, GateHits, MarkerInv
<1>3. hits[gate] # baseline
  BY <1>2
<1>4. QED BY <1>3 DEF LogInv

\* A wait returns, and reports success only when the gate is open.
LEMMA LogReturns ==
  ASSUME LogInv, MarkerInv, phase \in {"reply", "wait"}, NEW o, Return(o),
         o \in Good => (gate # NoNeedle => IdleGateOpen),
         UNCHANGED <<cmd, sent, fenced, markerlessQuiet>>
  PROVE  LogInv'
<1>1. /\ phase' = "none" /\ result' = o /\ gate' = gate
  BY DEF Return
<1>2. CASE o \notin Good
  BY <1>1, <1>2 DEF LogInv, NoStaleCompletion, Returned, Good
<1>3. CASE o \in Good /\ phase = "reply"
  <2>1. cmd \in fenced
    BY <1>3, OpenIsFenced
  <2>2. sent \subseteq fenced
    BY <1>3, <2>1 DEF LogInv
  <2>3. QED BY <1>1, <2>1, <2>2 DEF LogInv, NoStaleCompletion, Returned
<1>4. CASE phase = "wait"
  <2>1. cmd = 0 /\ sent = {} /\ gate = NoNeedle
    BY <1>4 DEF LogInv, MarkerInv
  <2>2. QED BY <1>1, <2>1 DEF LogInv, NoStaleCompletion, Returned
<1>5. QED BY <1>2, <1>3, <1>4

\* A chunk adds to the log the marker of the reply it ends, and no other.
LEMMA LogGrows ==
  ASSUME LogInv, MarkerInv, ~Tui, MarkersChange, phase \in {"reply", "wait"},
         UNCHANGED <<cmd, phase, result, sent, baseline, gate, markerlessQuiet>>
  PROVE  LogInv'
<1>1. PICK ended \in SUBSET (sent \ fenced) :
         /\ fenced' = fenced \cup ended
         /\ hits' = [n \in Needles |->
                hits[n] + Cardinality({c \in ended : NeedleOf[c] = n})]
  BY DEF MarkersChange
<1>2. ASSUME phase = "reply", cmd \notin fenced' PROVE hits'[gate] = baseline
  <2>1. ended = {} /\ cmd \notin fenced
    BY <1>1, <1>2 DEF LogInv
  <2>2. gate \in Needles
    BY <1>2, WrapperAssumption DEF LogInv, MarkerInv
  <2>3. {c \in ended : NeedleOf[c] = gate} = {}
    BY <2>1
  <2>4. hits'[gate] = hits[gate] + Cardinality({}) /\ hits[gate] \in Nat
    BY <1>1, <2>2, <2>3 DEF MarkerInv
  <2>5. hits'[gate] = hits[gate]
    BY <2>4, FS_EmptySet
  <2>6. QED BY <1>2, <2>1, <2>5 DEF LogInv
<1>3. fenced \subseteq fenced' /\ phase' = phase /\ phase' # "none"
  BY <1>1
<1>4. hits'[gate'] = hits'[gate]
  OBVIOUS
<1>5. QED BY <1>2, <1>3, <1>4 DEF LogInv, NoStaleCompletion, Returned

LEMMA LogNext ==
  ASSUME LoggedAndClosed, LogInv, MarkerInv, CallInv, [Next]_vars
  PROVE  LogInv'
<1> USE DEF LoggedAndClosed
<1>1. CASE WaitUntilIdle /\ cmd = 0
  BY <1>1 DEF WaitUntilIdle, LogInv, NoStaleCompletion, Returned
<1>2. CASE /\ result \in Good
           /\ RunCommand(cmd + 1, IF Gated THEN NeedleOf[cmd + 1] ELSE NoNeedle)
  <2>1. /\ phase = "none" /\ phase' = "send" /\ cmd' = cmd + 1 /\ gate' = NeedleOf[cmd + 1]
        /\ UNCHANGED <<sent, fenced>>
    BY <1>2 DEF RunCommand
  <2>2. cmd' # 0
    BY <2>1 DEF MarkerInv
  <2>3. QED BY <1>2, <2>1, <2>2 DEF LogInv, NoStaleCompletion, Returned
<1>3. CASE Send
  <2>1. /\ phase = "send" /\ phase' = "reply" /\ cmd \in 1..NumCmds
        /\ sent' = sent \cup {cmd} /\ baseline' = GateHits
        /\ UNCHANGED <<cmd, gate, fenced, hits>>
    BY <1>3 DEF Send, ArmIdleGate, displayVars, MarkerInv
  <2>2. gate # NoNeedle
    BY <2>1, WrapperAssumption DEF LogInv
  <2>3. baseline' = hits'[gate']
    BY <2>1, <2>2 DEF GateHits
  <2>4. QED BY <2>1, <2>3 DEF LogInv, NoStaleCompletion, Returned
<1>4. CASE SendFails
  <2>1. phase' = "none" /\ result' = "error" /\ UNCHANGED <<cmd, sent>>
    BY <1>4 DEF SendFails, ghostVars
  <2>2. QED BY <2>1 DEF LogInv, NoStaleCompletion, Returned, Good
<1>5. CASE WaitStep
  <2>1. phase \in {"reply", "wait"}
    BY <1>5 DEF WaitStep, HardCap, WatchdogKill, WatchdogInterrupt, WatchdogQuiet, ReadData,
                ConfirmReply, ConfirmReplyFails, NoConfirmReply, Approve, GateCompletes,
                GateHolds, ReadIdle, ReadEof, CallInv, LogInv
  <2>2. CASE HardCap \/ WatchdogKill \/ ConfirmReplyFails
    <3>1. /\ \E o \in {"HardTimeout", "TimedOut", "error"} : Return(o)
          /\ UNCHANGED <<cmd, sent, fenced, markerlessQuiet>>
      BY <2>2 DEF HardCap, WatchdogKill, ConfirmReplyFails, ghostVars
    <3>2. QED BY <2>1, <3>1, LogReturns DEF Good
  <2>3. CASE GateCompletes
    BY <2>1, <2>3, LogReturns DEF GateCompletes, ghostVars
  <2>4. CASE ReadEof
    <3>1. Return(EofOutcome) /\ UNCHANGED <<cmd, sent, fenced, markerlessQuiet>>
      BY <2>4 DEF ReadEof, ghostVars
    <3>2. EofOutcome \in Good => (gate # NoNeedle => IdleGateOpen)
      BY DEF EofOutcome, Good
    <3>3. QED BY <2>1, <3>1, <3>2, LogReturns
  <2>5. CASE ReadIdle /\ Accepted(now')
    <3>1. IdleGateOpen
      BY <2>5 DEF Accepted, MarkerlessSettleAllowed
    <3>2. Return("Idle") /\ UNCHANGED <<cmd, sent, fenced, markerlessQuiet>>
      BY <2>5, <3>1 DEF ReadIdle, ghostVars
    <3>3. QED BY <2>1, <3>1, <3>2, LogReturns
  <2>6. CASE ReadData /\ TranscriptChanges
    BY <2>1, <2>6, LogGrows DEF ReadData, TranscriptChanges
  <2>7. CASE \/ WatchdogInterrupt \/ WatchdogQuiet \/ ConfirmReply \/ NoConfirmReply
             \/ Approve \/ GateHolds
             \/ ReadData /\ ~TranscriptChanges
             \/ ReadIdle /\ ~Accepted(now')
    <3>1. UNCHANGED <<cmd, phase, gate, baseline, hits, sent, fenced>>
      BY <2>7 DEF WatchdogInterrupt, WatchdogQuiet, ConfirmReply, NoConfirmReply, Approve,
                  GateHolds, ReadData, ReadIdle, fieldVars, displayVars, ghostVars
    <3>2. QED BY <2>1, <3>1 DEF LogInv, NoStaleCompletion, Returned
  <2>8. CASE ReadData
    BY <2>6, <2>7, <2>8
  <2>9. CASE ReadIdle
    BY <2>5, <2>7, <2>9
  <2>10. QED BY <1>5, <2>2, <2>3, <2>4, <2>7, <2>8, <2>9 DEF WaitStep
<1>6. CASE TargetCloses \/ UNCHANGED vars
  <2>1. UNCHANGED <<callVars, gate, baseline, markerlessQuiet, hits, sent, fenced>>
    BY <1>6 DEF TargetCloses, vars, fieldVars, displayVars, ghostVars
  <2>2. QED BY <2>1 DEF callVars, LogInv, NoStaleCompletion, Returned
<1>7. QED BY <1>1, <1>2, <1>3, <1>4, <1>5, <1>6 DEF Next, Client, Step, Good

\* In a log, a marker may be used again and again: earlier replies are discounted, and the
\* client goes on only when none of them can come late.
THEOREM ReusedMarkerIsNotStale ==
  ASSUME LoggedAndClosed
  PROVE  Spec => []NoStaleCompletion
<1>1. Init => LogInv
  BY DEF Init, LogInv, NoStaleCompletion, Returned
<1>2. LogInv /\ MarkerInv /\ CallInv /\ [Next]_vars => LogInv'
  BY LogNext
<1>3. LogInv => NoStaleCompletion
  BY DEF LogInv
<1>4. QED BY <1>1, <1>2, <1>3, MarkerInvHolds, CallInvHolds, PTL DEF Spec

-----------------------------------------------------------------------------
(* The confirmation reply.                                                 *)

\* The code takes for a question exactly what is one, and the target asks at most one
\* on each line.
PlainQuestions == ConfirmationLines = Questions /\ ~SameLine

\* The line last replied on, against the question asked last.
PromptInv ==
    /\ committed \in Nat /\ promptNo \in Nat
    /\ promptLine \in Nat \cup {None} /\ answeredAt \in Nat \cup {None}
    /\ line \in Questions => promptLine = committed
    /\ answeredAt <= promptLine /\ promptLine <= committed
    /\ \A r \in replied : r \in Nat /\ r <= promptNo
    /\ promptNo \in replied <=> answeredAt # None /\ answeredAt = promptLine
    /\ EachPromptAnswered

promptInvVars == <<committed, promptNo, promptLine, answeredAt, line, replied>>

\* The steps that neither ask nor answer.
LEMMA PromptStands ==
  ASSUME PromptInv, UNCHANGED promptInvVars,
         pc' = "approve" => pc = "approve" /\ interruptedAt' = interruptedAt
  PROVE  PromptInv'
  BY DEF PromptInv, promptInvVars, EachPromptAnswered

LEMMA PromptStarts ==
  ASSUME PromptInv, EnterWait, UNCHANGED <<committed, promptNo, promptLine, line>>
  PROVE  PromptInv'
  BY DEF PromptInv, EnterWait, EachPromptAnswered, None

LEMMA PromptAsked ==
  ASSUME PlainQuestions, PromptInv, LineChanges, UNCHANGED <<answeredAt, replied>>,
         pc' = "confirm"
  PROVE  PromptInv'
<1>1. committed' \in Nat /\ committed <= committed'
  BY WrapperAssumption DEF LineChanges, PromptInv
<1>2. CASE UNCHANGED promptVars /\ (line' \in Questions => promptLine = committed')
  BY <1>1, <1>2 DEF promptVars, PromptInv, EachPromptAnswered, None
<1>3. CASE promptLine # committed' /\ promptNo' = promptNo + 1 /\ promptLine' = committed'
  <2>1. promptLine < committed'
    BY <1>1, <1>3 DEF PromptInv, None
  <2>2. answeredAt # promptLine' /\ answeredAt <= promptLine'
    BY <1>1, <1>3, <2>1 DEF PromptInv, None
  <2>3. promptNo' \in Nat /\ promptNo' \notin replied
    BY <1>3 DEF PromptInv
  <2>4. \A r \in replied : r <= promptNo'
    BY <1>3 DEF PromptInv
  <2>5. QED BY <1>1, <1>3, <2>2, <2>3, <2>4 DEF PromptInv, EachPromptAnswered
<1>4. QED BY <1>2, <1>3 DEF LineChanges, PlainQuestions

LEMMA PromptReplied ==
  ASSUME PlainQuestions, PromptInv, ConfirmReply
  PROVE  /\ line \in Questions /\ promptNo \notin replied /\ interruptedAt = None
         /\ PromptInv'
<1>1. /\ line \in Questions /\ answeredAt # committed /\ interruptedAt = None
      /\ answeredAt' = committed /\ replied' = replied \cup {promptNo}
      /\ UNCHANGED <<committed, promptNo, promptLine, line>>
  BY DEF ConfirmReply, ReplyDue, Confirms, PlainQuestions, displayVars, promptVars
<1>2. promptLine = committed /\ promptNo \notin replied
  BY <1>1 DEF PromptInv
<1>3. QED BY <1>1, <1>2 DEF PromptInv, EachPromptAnswered, None

LEMMA PromptNext ==
  ASSUME PlainQuestions, PromptInv, [Next]_vars
  PROVE  PromptInv'
<1>1. CASE WaitUntilIdle \/ Send \/ \E c, n : RunCommand(c, n)
  <2>1. UNCHANGED <<committed, promptNo, promptLine, line>>
    BY <1>1 DEF WaitUntilIdle, Send, RunCommand, displayVars, promptVars
  <2>2. EnterWait \/ UNCHANGED <<pc, answeredAt, interruptedAt, replied>>
    BY <1>1 DEF WaitUntilIdle, Send, RunCommand, localVars
  <2>3. CASE EnterWait
    BY <2>1, <2>3, PromptStarts
  <2>4. CASE UNCHANGED <<pc, answeredAt, interruptedAt, replied>>
    BY <2>1, <2>4, PromptStands DEF promptInvVars
  <2>5. QED BY <2>2, <2>3, <2>4
<1>2. CASE ReadData
  <2>1. CASE LineChanges
    BY <1>2, <2>1, PromptAsked DEF ReadData
  <2>2. CASE ~LineChanges
    BY <1>2, <2>2, PromptStands DEF ReadData, TranscriptChanges, displayVars, promptVars,
                                    promptInvVars
  <2>3. QED BY <2>1, <2>2
<1>3. CASE ConfirmReply
  BY <1>3, PromptReplied
<1>4. CASE NoConfirmReply
  <2>1. UNCHANGED promptInvVars /\ interruptedAt' = interruptedAt /\ pc' = "approve"
    BY <1>4 DEF NoConfirmReply, localVars, displayVars, ghostVars, promptVars, promptInvVars
  <2>2. ASSUME ~Tui, AutoConfirm, line \in Questions
        PROVE  promptNo \in replied \/ interruptedAt # None
    <3>1. interruptedAt # None \/ answeredAt = committed
      BY <1>4, <2>2 DEF NoConfirmReply, ReplyDue, Confirms, PlainQuestions
    <3>2. QED BY <2>2, <3>1 DEF PromptInv, None
  <2>3. QED BY <2>1, <2>2 DEF PromptInv, promptInvVars, EachPromptAnswered
<1>5. CASE \/ SendFails \/ HardCap \/ WatchdogKill \/ WatchdogInterrupt \/ WatchdogQuiet
           \/ ConfirmReplyFails \/ Approve \/ GateCompletes \/ GateHolds \/ ReadIdle \/ ReadEof
           \/ TargetCloses \/ UNCHANGED vars
  <2>1. UNCHANGED promptInvVars
    BY <1>5 DEF SendFails, HardCap, WatchdogKill, WatchdogInterrupt, WatchdogQuiet,
                ConfirmReplyFails, Approve, GateCompletes, GateHolds, ReadIdle, ReadEof,
                TargetCloses, vars, localVars, displayVars, ghostVars, promptVars,
                promptInvVars
  <2>2. pc' = "approve" => pc = "approve" /\ interruptedAt' = interruptedAt
    BY <1>5 DEF SendFails, HardCap, WatchdogKill, WatchdogInterrupt, WatchdogQuiet,
                ConfirmReplyFails, Approve, GateCompletes, GateHolds, ReadIdle, ReadEof,
                TargetCloses, Return, vars, callVars, localVars
  <2>3. QED BY <2>1, <2>2, PromptStands
<1>6. QED BY <1>1, <1>2, <1>3, <1>4, <1>5 DEF Next, Client, Step, WaitStep

LEMMA PromptInvHolds == ASSUME PlainQuestions PROVE Spec => []PromptInv
<1>1. Init => PromptInv
  BY WrapperAssumption DEF Init, PromptInv, EachPromptAnswered, None
<1>2. PromptInv /\ [Next]_vars => PromptInv'
  BY PromptNext
<1>3. QED BY <1>1, <1>2, PTL DEF Spec

\* Whatever the target prints, a question left on the current line has been answered by
\* the time the loop goes on.
THEOREM EachPromptIsAnswered == ASSUME PlainQuestions PROVE Spec => []EachPromptAnswered
<1>1. PromptInv => EachPromptAnswered
  BY DEF PromptInv
<1>2. QED BY <1>1, PromptInvHolds, PTL

\* No question is answered twice in a wait, nor any after the Ctrl+C, and nothing is typed
\* at a line that asks nothing.
THEOREM PromptsAreAnsweredOnce == ASSUME PlainQuestions PROVE Spec => AnsweredOnce
<1>1. PromptInv /\ [Next]_vars =>
        [ConfirmReply =>
           line \in Questions /\ promptNo \notin replied /\ interruptedAt = None]_vars
  BY PromptReplied
<1>2. QED BY <1>1, PromptInvHolds, PTL DEF Spec, AnsweredOnce

-----------------------------------------------------------------------------
(* The approval menus.                                                     *)

\* The code takes for a menu exactly what is one.
PlainMenus == MenusSeen = Menus

Agrees == approvalAnswered <=> confirmedInWait = 1

\* The flag of the loop against the Enters pressed in this wait: out of step only between a
\* chunk that takes the menu away and the look the loop takes at it.
MenuInv ==
    /\ confirmedInWait \in {0, 1}
    /\ confirmedInWait = 1 => screen \in Menus /\ AutoApprove
    /\ AutoApprove /\ interruptedAt = None =>
         /\ pc \in {"top", "read"} => Agrees
         /\ pc \in {"confirm", "approve"} /\ screen \in Menus => Agrees
         /\ pc = "gate" => Agrees /\ (screen \in Menus => confirmedInWait = 1)
    /\ approvalAnswered \in BOOLEAN

\* The steps that neither look at the screen nor change it.
LEMMA MenuStands ==
  ASSUME MenuInv, UNCHANGED <<confirmedInWait, screen, approvalAnswered>>,
         interruptedAt' = None => interruptedAt = None,
         \/ pc' \in {pc, "free"}
         \/ pc \in {"top", "read", "gate"} /\ pc' \in {"top", "read"}
         \/ pc \in {"top", "read", "confirm"} /\ pc' \in {"confirm", "approve"}
  PROVE  MenuInv'
  BY DEF MenuInv, Agrees

LEMMA MenuStarts == ASSUME EnterWait PROVE MenuInv'
<1>1. pc' = "top" /\ confirmedInWait' = 0 /\ approvalAnswered' = FALSE
  BY DEF EnterWait
<1>2. confirmedInWait' # 1 /\ confirmedInWait' \in {0, 1}
  BY <1>1
<1>3. Agrees' /\ approvalAnswered' \in BOOLEAN
  BY <1>1, <1>2 DEF Agrees
<1>4. QED BY <1>1, <1>2, <1>3 DEF MenuInv

LEMMA MenuPainted ==
  ASSUME MenuInv, AutoApprove, MenuChanges, pc = "read", pc' = "confirm",
         UNCHANGED <<approvalAnswered, interruptedAt>>
  PROVE  MenuInv'
  BY DEF MenuInv, Agrees, MenuChanges, confirmVars

LEMMA MenuAnswered == ASSUME PlainMenus, MenuInv, Approve PROVE MenuInv'
<1> DEFINE watching == AutoApprove /\ interruptedAt = None
           press    == watching /\ MenuIsShown /\ ~approvalAnswered
<1>1. /\ pc = "approve" /\ pc' = "gate" /\ UNCHANGED <<screen, interruptedAt>>
      /\ approvalAnswered' = IF watching THEN MenuIsShown ELSE approvalAnswered
      /\ confirmedInWait' = IF press THEN confirmedInWait + 1 ELSE confirmedInWait
  BY DEF Approve, displayVars
<1>2. MenuIsShown <=> screen \in Menus
  BY DEF MenuIsShown, PlainMenus
<1>3. CASE watching /\ screen \in Menus
  <2>1. Agrees /\ confirmedInWait \in {0, 1} /\ approvalAnswered' = TRUE
    BY <1>1, <1>2, <1>3 DEF MenuInv
  <2>2. confirmedInWait' = 1
    BY <1>1, <1>2, <1>3, <2>1 DEF Agrees
  <2>3. QED BY <1>1, <1>3, <2>1, <2>2 DEF MenuInv, Agrees
<1>4. CASE watching /\ screen \notin Menus
  <2>1. confirmedInWait' = 0 /\ approvalAnswered' = FALSE
    BY <1>1, <1>2, <1>4 DEF MenuInv
  <2>2. QED BY <1>1, <1>4, <2>1 DEF MenuInv, Agrees
<1>5. CASE ~watching
  <2>1. UNCHANGED <<confirmedInWait, approvalAnswered>>
    BY <1>1, <1>5
  <2>2. QED BY <1>1, <1>5, <2>1 DEF MenuInv
<1>6. QED BY <1>3, <1>4, <1>5

LEMMA MenuNext == ASSUME PlainMenus, MenuInv, [Next]_vars PROVE MenuInv'
<1>1. CASE WaitUntilIdle \/ Send \/ \E c, n : RunCommand(c, n)
  <2>1. EnterWait \/ UNCHANGED <<pc, confirmedInWait, screen, approvalAnswered, interruptedAt>>
    BY <1>1 DEF WaitUntilIdle, Send, RunCommand, localVars, displayVars, confirmVars
  <2>2. QED BY <2>1, MenuStarts, MenuStands
<1>2. CASE ReadData
  <2>1. pc = "read" /\ pc' = "confirm" /\ UNCHANGED <<approvalAnswered, interruptedAt>>
    BY <1>2 DEF ReadData
  <2>2. \/ AutoApprove /\ MenuChanges
        \/ UNCHANGED <<confirmedInWait, screen>>
    BY <1>2 DEF ReadData, TranscriptChanges, displayVars, confirmVars
  <2>3. QED BY <2>1, <2>2, MenuPainted, MenuStands
<1>3. CASE Approve
  BY <1>3, MenuAnswered
<1>4. CASE ConfirmReply \/ NoConfirmReply \/ WatchdogInterrupt \/ WatchdogQuiet \/ GateHolds
  <2>1. /\ UNCHANGED <<confirmedInWait, screen, approvalAnswered>>
        /\ interruptedAt' = None => interruptedAt = None
    BY <1>4 DEF ConfirmReply, ReplyDue, NoConfirmReply, WatchdogInterrupt, WatchdogQuiet,
                GateHolds, localVars, displayVars, ghostVars, confirmVars
  <2>2. \/ pc = "confirm" /\ pc' = "approve"
        \/ pc = "top" /\ pc' = "read"
        \/ pc = "gate" /\ pc' = "top"
    BY <1>4 DEF ConfirmReply, NoConfirmReply, WatchdogInterrupt, WatchdogQuiet, GateHolds
  <2>3. QED BY <2>1, <2>2, MenuStands
<1>5. CASE \/ SendFails \/ HardCap \/ WatchdogKill \/ ConfirmReplyFails \/ GateCompletes
           \/ ReadIdle \/ ReadEof \/ TargetCloses \/ UNCHANGED vars
  <2>1. UNCHANGED <<confirmedInWait, screen, approvalAnswered, interruptedAt>>
    <3>1. CASE ReadIdle
      BY <3>1 DEF ReadIdle, displayVars, ghostVars, confirmVars
    <3>2. CASE ~ReadIdle
      BY <1>5, <3>2 DEF SendFails, HardCap, WatchdogKill, ConfirmReplyFails, GateCompletes,
                        ReadEof, TargetCloses, vars, localVars, displayVars, ghostVars,
                        confirmVars
    <3>3. QED BY <3>1, <3>2
  <2>2. \/ pc' \in {pc, "free"}
        \/ pc = "read" /\ pc' = "top"
    <3>1. CASE ReadIdle
      BY <3>1 DEF ReadIdle, Return
    <3>2. CASE SendFails \/ TargetCloses \/ UNCHANGED vars
      BY <3>2 DEF SendFails, TargetCloses, vars, callVars
    <3>3. CASE HardCap \/ WatchdogKill \/ ConfirmReplyFails \/ GateCompletes \/ ReadEof
      BY <3>3 DEF HardCap, WatchdogKill, ConfirmReplyFails, GateCompletes, ReadEof, Return
    <3>4. QED BY <1>5, <3>1, <3>2, <3>3
  <2>3. QED BY <2>1, <2>2, MenuStands
<1>6. QED BY <1>1, <1>2, <1>3, <1>4, <1>5 DEF Next, Client, Step, WaitStep

\* In each wait a menu gets exactly one Enter for as long as it stays on screen, however
\* often it is repainted, and nothing else gets any.
THEOREM MenusAreConfirmedOnce == ASSUME PlainMenus PROVE Spec => []ConfirmedOncePerWait
<1>1. Init => MenuInv
  <2> SUFFICES ASSUME Init PROVE MenuInv
    OBVIOUS
  <2>1. pc = "free" /\ confirmedInWait = 0 /\ approvalAnswered = FALSE
    BY DEF Init
  <2>2. confirmedInWait # 1 /\ confirmedInWait \in {0, 1}
    BY <2>1
  <2>3. QED BY <2>1, <2>2 DEF MenuInv
<1>2. MenuInv /\ [Next]_vars => MenuInv'
  BY MenuNext
<1>3. MenuInv => ConfirmedOncePerWait
  BY DEF MenuInv, ConfirmedOncePerWait
<1>4. QED BY <1>1, <1>2, <1>3, PTL DEF Spec

-----------------------------------------------------------------------------
(* The silent reply.                                                       *)

\* A target that looks ready, may do without its marker, and has not been heard of for
\* idle_silence.
Silent == MayDoWithoutMarker /\ now - stirredAt >= IdleSilence

\* Nothing counts as activity but what was read or answered, and a silent target reaches
\* the deadlines only when the budget still holds another idle_silence.
SilentInv ==
    /\ stirredAt \in Nat /\ lastActivity <= stirredAt /\ stirredAt <= now
    /\ pc \in {"confirm", "approve", "gate"} => now = stirredAt
    /\ pc = "top" /\ interruptedAt = None /\ Silent => now + IdleSilence < ExecTimeout

LEMMA SilentStands ==
  ASSUME SilentInv, UNCHANGED <<now, stirredAt>>, lastActivity' \in {now, lastActivity},
         lastActivity' = now => now = stirredAt \/ lastActivity = now,
         \/ pc' \in {"free", "read"}
         \/ pc \in {"confirm", "approve", "gate"} /\ pc' \in {"approve", "gate", "top"}
  PROVE  SilentInv'
<1>1. /\ stirredAt' \in Nat /\ lastActivity' <= stirredAt' /\ stirredAt' <= now'
      /\ pc' \in {"confirm", "approve", "gate"} => now' = stirredAt'
  BY DEF SilentInv
<1>2. pc' = "top" => ~Silent'
  <2>1. ASSUME pc' = "top" PROVE now' - stirredAt' = 0
    BY <2>1 DEF SilentInv
  <2>2. QED BY <2>1, Durations DEF Silent
<1>3. QED BY <1>1, <1>2 DEF SilentInv

LEMMA SilentReadIdle ==
  ASSUME TimeInv, SilentInv, ReadIdle, ~Accepted(now')
  PROVE  SilentInv'
<1>1. /\ pc' = "top"
      /\ UNCHANGED <<gate, sawOutput, line, lastActivity, stirredAt, interruptedAt>>
  BY DEF ReadIdle, displayVars, ghostVars
<1>2. PICK t \in Nat : t = now' /\ now <= t
  <2>1. PICK d \in PollInterval..(PollInterval + Overrun) : now' = now + d
    BY DEF ReadIdle, PollElapses
  <2>2. QED BY <2>1, Durations DEF TimeInv
<1>3. ASSUME interruptedAt = None, Silent' PROVE now' + IdleSilence < ExecTimeout
  <2>1. gate # NoNeedle /\ MarkerlessGrace # None /\ LooksReady
    BY <1>1, <1>3 DEF Silent, MayDoWithoutMarker, LooksReady
  <2>2. t - lastActivity >= IdleSilence
    <3>1. t - stirredAt >= IdleSilence
      BY <1>1, <1>2, <1>3 DEF Silent
    <3>2. stirredAt \in Nat /\ lastActivity \in Nat /\ lastActivity <= stirredAt
      BY DEF SilentInv, TimeInv
    <3>3. QED BY <3>1, <3>2, Durations
  <2>3. Settled(t)
    BY <1>3, <2>1, <2>2 DEF Settled
  <2>4. ~MarkerlessSettleAllowed(t)
    BY <1>2, <2>3 DEF Accepted
  <2>5. ~(t + IdleSilence >= ExecTimeout)
    BY <2>1, <2>4 DEF MarkerlessSettleAllowed
  <2>6. t + IdleSilence < ExecTimeout
    BY <2>5, Durations
  <2>7. QED BY <1>2, <2>6
<1>4. stirredAt' \in Nat /\ lastActivity' <= stirredAt' /\ stirredAt' <= now'
  <2>1. stirredAt \in Nat /\ lastActivity \in Nat /\ now \in Nat
    BY DEF SilentInv, TimeInv
  <2>2. stirredAt <= now /\ lastActivity <= stirredAt
    BY DEF SilentInv
  <2>3. stirredAt <= t
    BY <1>2, <2>1, <2>2
  <2>4. QED BY <1>1, <1>2, <2>1, <2>2, <2>3
<1>5. QED BY <1>1, <1>3, <1>4 DEF SilentInv

LEMMA SilentNext == ASSUME TimeInv, SilentInv, [Next]_vars PROVE SilentInv'
<1>1. CASE WaitUntilIdle \/ Send \/ \E c, n : RunCommand(c, n)
  <2>1. EnterWait \/ (pc' = "free" /\ UNCHANGED <<now, lastActivity, stirredAt>>)
    BY <1>1 DEF WaitUntilIdle, Send, RunCommand, localVars
  <2>2. CASE EnterWait
    BY <2>2, Durations DEF EnterWait, SilentInv, Silent
  <2>3. CASE pc' = "free" /\ UNCHANGED <<now, lastActivity, stirredAt>>
    BY <2>3 DEF SilentInv
  <2>4. QED BY <2>1, <2>2, <2>3
<1>2. CASE ReadData
  <2>1. PICK d \in 1..PollInterval : now' = now + d
    BY <1>2 DEF ReadData
  <2>2. /\ pc' = "confirm" /\ stirredAt' = now' /\ lastActivity' \in {now', lastActivity}
    BY <1>2 DEF ReadData
  <2>3. now \in Nat /\ lastActivity \in Nat /\ lastActivity <= now
    BY DEF TimeInv
  <2>4. now' \in Nat /\ lastActivity <= now'
    BY <2>1, <2>3, Durations
  <2>5. QED BY <2>2, <2>3, <2>4 DEF SilentInv
<1>3. CASE ConfirmReply
  <2>1. PICK d \in 0..MaxTyping : now' = now + d
    BY <1>3 DEF ConfirmReply
  <2>2. pc' = "approve" /\ stirredAt' = now' /\ lastActivity' = now'
    BY <1>3 DEF ConfirmReply
  <2>3. now' \in Nat
    BY <2>1, Durations DEF TimeInv
  <2>4. QED BY <2>2, <2>3 DEF SilentInv
<1>4. CASE ReadIdle
  <2>1. CASE Accepted(now')
    <3>1. PICK d \in PollInterval..(PollInterval + Overrun) : now' = now + d
      BY <1>4 DEF ReadIdle, PollElapses
    <3>2. pc' = "free" /\ UNCHANGED <<stirredAt, lastActivity>>
      BY <1>4, <2>1 DEF ReadIdle, Return, ghostVars
    <3>3. now <= now'
      BY <3>1, Durations DEF TimeInv
    <3>4. now \in Nat /\ now' \in Nat /\ stirredAt \in Nat /\ stirredAt <= now
      BY <3>1, Durations DEF TimeInv, SilentInv
    <3>5. stirredAt <= now'
      BY <3>3, <3>4
    <3>6. QED BY <3>2, <3>5 DEF SilentInv
  <2>2. CASE ~Accepted(now')
    BY <1>4, <2>2, SilentReadIdle
  <2>3. QED BY <2>1, <2>2
<1>5. CASE Approve
  <2>1. /\ pc = "approve" /\ pc' = "gate" /\ UNCHANGED <<now, stirredAt>>
        /\ lastActivity' \in {now, lastActivity}
    BY <1>5 DEF Approve
  <2>2. now = stirredAt
    BY <2>1 DEF SilentInv
  <2>3. QED BY <2>1, <2>2, SilentStands
<1>6. CASE \/ HardCap \/ WatchdogKill \/ WatchdogInterrupt \/ WatchdogQuiet
           \/ ConfirmReplyFails \/ NoConfirmReply \/ GateCompletes \/ GateHolds \/ ReadEof
  <2>1. UNCHANGED <<now, lastActivity, stirredAt>>
    BY <1>6 DEF HardCap, WatchdogKill, WatchdogInterrupt, WatchdogQuiet, ConfirmReplyFails,
                NoConfirmReply, GateCompletes, GateHolds, ReadEof, localVars, ghostVars
  <2>2. \/ pc' \in {"free", "read"}
        \/ pc \in {"confirm", "gate"} /\ pc' \in {"approve", "top"}
    BY <1>6 DEF HardCap, WatchdogKill, WatchdogInterrupt, WatchdogQuiet, ConfirmReplyFails,
                NoConfirmReply, GateCompletes, GateHolds, ReadEof, Return
  <2>3. QED BY <2>1, <2>2, SilentStands
<1>7. CASE SendFails \/ TargetCloses \/ UNCHANGED vars
  <2>1. pc' = pc /\ UNCHANGED <<line, sawOutput, gate, now, lastActivity, stirredAt, interruptedAt>>
    BY <1>7 DEF SendFails, TargetCloses, vars, callVars, fieldVars, localVars, displayVars,
                ghostVars
  <2>2. Silent' <=> Silent
    BY <2>1 DEF Silent, MayDoWithoutMarker, LooksReady
  <2>3. QED BY <2>1, <2>2 DEF SilentInv
<1>8. QED BY <1>1, <1>2, <1>3, <1>4, <1>5, <1>6, <1>7 DEF Next, Client, Step, WaitStep

\* A reply that has fallen silent without its marker is accepted, whatever the timeouts, in
\* either mode and whatever came before: neither the Ctrl+C nor a hard cap that is not below
\* the timeout strikes a target that looks ready and has been silent for idle_silence.
THEOREM SilentRepliesAreAccepted == Spec => SilenceNeverTimesOut
<1>1. Init => SilentInv
  BY Durations DEF Init, SilentInv, Silent
<1>2. SilentInv /\ TimeInv /\ [Next]_vars => SilentInv'
  BY SilentNext
<1>3. SilentInv /\ TimeInv /\ [Next]_vars =>
        [HardTimeout = None \/ HardTimeout >= ExecTimeout =>
           ~(GivesUp /\ MayDoWithoutMarker /\ now - stirredAt >= IdleSilence)
        ]_<<interruptedAt, terminated>>
  <2> SUFFICES ASSUME SilentInv, TimeInv, [Next]_vars, GivesUp,
                      HardTimeout = None \/ HardTimeout >= ExecTimeout
               PROVE  ~Silent
    BY DEF Silent
  <2>1. interruptedAt = None /\ (interruptedAt' # None \/ terminated' # terminated)
    BY DEF GivesUp
  <2>2. WatchdogInterrupt \/ HardCap \/ ConfirmReply
    <3>1. CASE Client \/ Send \/ SendFails \/ TargetCloses \/ UNCHANGED vars
      BY <2>1, <3>1 DEF Client, WaitUntilIdle, RunCommand, EnterWait, Send, SendFails,
                        TargetCloses, vars, localVars, sessionVars
    <3>2. CASE WatchdogKill
      BY <2>1, <3>2 DEF WatchdogKill
    <3>3. CASE \/ WatchdogQuiet \/ ReadData \/ ConfirmReplyFails \/ NoConfirmReply \/ Approve
               \/ GateCompletes \/ GateHolds \/ ReadIdle \/ ReadEof
      BY <2>1, <3>3 DEF WatchdogQuiet, ReadData, ConfirmReplyFails, NoConfirmReply, Approve,
                        GateCompletes, GateHolds, ReadIdle, ReadEof, localVars, sessionVars
    <3>4. QED BY <3>1, <3>2, <3>3 DEF Next, Step, WaitStep
  <2>3. CASE ConfirmReply
    <3>1. now = stirredAt /\ now \in Nat
      BY <2>3 DEF ConfirmReply, SilentInv, TimeInv
    <3>2. QED BY <3>1, Durations DEF Silent
  <2>4. CASE WatchdogInterrupt \/ HardCap
    <3>1. pc = "top" /\ now >= ExecTimeout
      <4>1. CASE WatchdogInterrupt
        BY <4>1 DEF WatchdogInterrupt, ExecExpired
      <4>2. CASE HardCap
        BY <4>2, Durations DEF HardCap, CapReached, TimeInv
      <4>3. QED BY <2>4, <4>1, <4>2
    <3>2. QED BY <2>1, <3>1, Durations DEF SilentInv, TimeInv
  <2>5. QED BY <2>2, <2>3, <2>4
<1>4. QED BY <1>1, <1>2, <1>3, TimeInvHolds, PTL DEF Spec, SilenceNeverTimesOut

-----------------------------------------------------------------------------
(* A run of the CLI.                                                       *)

\* The target writes a result file only while its reply is waited for, and has no exit
\* status that is one of the CLI's own.
TimelyTarget == ~LateFile /\ 75 \notin TargetCodes

Killed == terminated \/ (eof /\ interruptedAt # None)

\* What is known of a command whose reply the target did not live to end.
ReplyLost ==
    /\ cmd \in sent /\ slaveClosed /\ interruptedAt = None
    /\ gate # NoNeedle /\ ~IdleGateOpen

\* The calls of the run: a kill ends the last of them, the end of the stream is met at
\* once by any call that follows it, and nothing is counted before a command is typed.
RunInv ==
    /\ result \in {"none", "error"} \cup Outcomes
    /\ Killed => Returned("HardTimeout") \/ Returned("TimedOut")
    /\ eof /\ pc # "free" => pc \in {"top", "read"} /\ now = 0
    /\ phase = "ready" => gate = NoNeedle
    /\ phase = "wait" => cmd = 0
    /\ phase = "reply" => cmd \in sent
    /\ sent \subseteq 1..cmd
    /\ phase \in {"ready", "send"} => cmd \notin sent
    /\ baseline = 0
    /\ Returned("TargetExitedEarly") => ReplyLost

LEMMA DistinctNeedles == UniqueNeedles
  BY OrchestratorAssumption DEF UniqueNeedles

LEMMA RunCalls ==
  ASSUME MarkerInv, RunInv, cmd < NumCmds, result \notin Fatal \cup {"error"},
         NEW n, RunCommand(cmd + 1, n)
  PROVE  RunInv'
<1>1. /\ phase = "none" /\ phase' = (IF Tui THEN "ready" ELSE "send") /\ cmd' = cmd + 1
      /\ result' = result /\ baseline' = 0 /\ sent' = sent
      /\ UNCHANGED <<terminated, eof>>
  BY DEF RunCommand, sessionVars
<1>2. ~Killed
  BY DEF RunInv, Returned, Fatal
<1>3. ~Killed'
  BY <1>1, <1>2 DEF RunCommand, EnterWait, localVars, Killed
<1>4. eof' /\ pc' # "free" => pc' \in {"top", "read"} /\ now' = 0
  BY DEF RunCommand, EnterWait
<1>5. phase' = "ready" => gate' = NoNeedle
  BY DEF RunCommand
<1>6. sent' \subseteq 1..cmd' /\ cmd' \notin sent'
  BY <1>1 DEF RunInv, MarkerInv
<1>7. QED BY <1>1, <1>3, <1>4, <1>5, <1>6 DEF RunInv, Returned

LEMMA RunCaptures ==
  ASSUME RunInv, cmd = 0, result = "none", WaitUntilIdle
  PROVE  RunInv'
<1>1. /\ phase' = "wait" /\ UNCHANGED <<cmd, result, baseline, sent, terminated, eof>>
      /\ pc' = "top" /\ now' = 0 /\ interruptedAt' = None
  BY DEF WaitUntilIdle, EnterWait, sessionVars
<1>2. ~Killed'
  BY <1>1 DEF RunInv, Returned, Killed
<1>3. QED BY <1>1, <1>2 DEF RunInv, Returned

LEMMA RunSends ==
  ASSUME MarkerInv, RunInv, Send \/ SendFails
  PROVE  RunInv'
<1>1. phase = "send" /\ cmd \in 1..NumCmds
  BY DEF Send, SendFails, MarkerInv
<1>2. GateHits = 0
  <2>1. CASE gate = NoNeedle
    BY <2>1 DEF GateHits
  <2>2. CASE gate # NoNeedle
    <3>1. gate = NeedleOf[cmd] /\ gate \in Needles /\ hits[gate] \in Nat
      BY <1>1, <2>2, WrapperAssumption DEF MarkerInv
    <3>2. ~(hits[gate] > 0)
      BY <1>1, <3>1, DistinctNeedles DEF MarkerInv, RunInv, UniqueNeedles
    <3>3. QED BY <2>2, <3>1, <3>2 DEF GateHits
  <2>3. QED BY <2>1, <2>2
<1>3. ~Killed
  BY <1>1 DEF RunInv, Returned
<1>4. baseline' = 0 /\ UNCHANGED <<cmd, gate, terminated, eof>>
  BY <1>2 DEF Send, SendFails, ArmIdleGate, sessionVars
<1>5. CASE Send
  <2>1. /\ phase' = "reply" /\ result' = result /\ sent' = sent \cup {cmd}
        /\ pc' = "top" /\ now' = 0 /\ interruptedAt' = None
    BY <1>5 DEF Send, EnterWait
  <2>2. ~Killed'
    BY <1>3, <1>4, <2>1 DEF Killed
  <2>3. sent' \subseteq 1..cmd'
    BY <1>1, <1>4, <2>1 DEF RunInv
  <2>4. QED BY <1>4, <2>1, <2>2, <2>3 DEF RunInv, Returned
<1>6. CASE SendFails
  <2>1. phase' = "none" /\ result' = "error" /\ UNCHANGED <<sent, pc, now, interruptedAt>>
    BY <1>6 DEF SendFails, ghostVars, localVars
  <2>2. ~Killed'
    BY <1>3, <1>4, <2>1 DEF Killed
  <2>3. QED BY <1>4, <2>1, <2>2 DEF RunInv, Returned
<1>7. QED BY <1>5, <1>6

\* A wait that returns without a kill leaves nothing but its result.
LEMMA RunReturns ==
  ASSUME CallInv, RunInv, pc # "free", NEW o, Return(o),
         o \in {"error"} \cup Outcomes,
         UNCHANGED <<cmd, sent, baseline>>,
         Killed' => o \in {"HardTimeout", "TimedOut"},
         o = "TargetExitedEarly" => ReplyLost'
  PROVE  RunInv'
<1>1. pc' = "free" /\ phase \in {"ready", "reply", "wait"}
  BY DEF Return, CallInv
<1>2. CASE phase = "ready" /\ o = "Idle"
  BY <1>1, <1>2 DEF RunInv, Returned, Return
<1>3. CASE ~(phase = "ready" /\ o = "Idle")
  <2>1. phase' = "none" /\ result' = o
    BY <1>3 DEF Return
  <2>2. Returned("TargetExitedEarly")' => ReplyLost'
    BY <2>1 DEF Returned
  <2>3. QED BY <1>1, <2>1, <2>2 DEF RunInv, Returned
<1>4. QED BY <1>2, <1>3

LEMMA RunReadsEof ==
  ASSUME TimeInv, MarkerInv, CallInv, RunInv, ReadEof
  PROVE  RunInv'
<1>1. /\ pc = "read" /\ slaveClosed /\ Return(EofOutcome)
      /\ UNCHANGED <<cmd, sent, baseline, hits, slaveClosed, interruptedAt, terminated>>
  BY DEF ReadEof, localVars, displayVars, ghostVars
<1>2. EofOutcome \in {"TimedOut", "TargetExitedEarly", "Completed"}
  BY DEF EofOutcome
<1>3. phase \in {"ready", "reply", "wait"}
  BY <1>1 DEF CallInv
<1>4. ~terminated
  BY <1>3 DEF RunInv, Killed, Returned
<1>5. interruptedAt # None => EofOutcome = "TimedOut"
  BY DEF EofOutcome
<1>6. ASSUME EofOutcome = "TargetExitedEarly" PROVE ReplyLost'
  <2>1. interruptedAt = None /\ gate # NoNeedle /\ ~IdleGateOpen
    BY <1>6 DEF EofOutcome
  <2>2. phase = "reply"
    BY <1>3, <2>1 DEF RunInv, MarkerInv
  <2>3. gate' = gate /\ cmd \in sent
    BY <1>1, <2>2 DEF Return, RunInv
  <2>4. ~IdleGateOpen'
    BY <1>1, <2>1, <2>3 DEF IdleGateOpen, GateHits
  <2>5. QED BY <1>1, <2>1, <2>3, <2>4 DEF ReplyLost
<1>7. Killed' => EofOutcome = "TimedOut"
  BY <1>1, <1>4, <1>5 DEF Killed
<1>8. QED BY <1>1, <1>2, <1>6, <1>7, RunReturns DEF Outcomes

\* A step of the wait that returns nothing.
LEMMA RunGoesOn ==
  ASSUME CallInv, RunInv, pc # "free",
         UNCHANGED <<phase, cmd, result, gate, baseline, sent, terminated, eof>>,
         eof => UNCHANGED <<interruptedAt, now>> /\ pc' \in {"top", "read"}
  PROVE  RunInv'
<1>1. phase \in {"ready", "reply", "wait"} /\ ~Killed
  BY DEF CallInv, RunInv, Returned
<1>2. ~Killed'
  BY <1>1 DEF Killed
<1>3. eof' /\ pc' # "free" => pc' \in {"top", "read"} /\ now' = 0
  BY DEF RunInv
<1>4. QED BY <1>1, <1>2, <1>3 DEF RunInv, Returned

LEMMA RunWaits ==
  ASSUME TimeInv, MarkerInv, CallInv, RunInv, WaitStep
  PROVE  RunInv'
<1>1. pc # "free" /\ phase \in {"ready", "reply", "wait"} /\ ~Killed
  BY DEF WaitStep, HardCap, WatchdogKill, WatchdogInterrupt, WatchdogQuiet, ReadData,
         ConfirmReply, ConfirmReplyFails, NoConfirmReply, Approve, GateCompletes, GateHolds,
         ReadIdle, ReadEof, CallInv, RunInv, Returned
<1>2. CASE HardCap \/ WatchdogKill
  <2>1. /\ UNCHANGED <<cmd, sent, baseline>>
        /\ \E o \in {"HardTimeout", "TimedOut"} : Return(o)
    BY <1>2 DEF HardCap, WatchdogKill, ghostVars
  <2>2. QED BY <1>1, <2>1, RunReturns DEF Outcomes
<1>3. CASE ConfirmReplyFails \/ GateCompletes \/ (ReadIdle /\ Accepted(now'))
  <2>1. UNCHANGED <<cmd, sent, baseline, terminated, eof, interruptedAt>>
    BY <1>3 DEF ConfirmReplyFails, GateCompletes, ReadIdle, localVars, sessionVars, ghostVars
  <2>2. \E o \in {"error", "Idle"} : Return(o)
    BY <1>3 DEF ConfirmReplyFails, GateCompletes, ReadIdle
  <2>3. ~Killed'
    BY <1>1, <2>1 DEF Killed
  <2>4. QED BY <1>1, <2>1, <2>2, <2>3, RunReturns DEF Outcomes
<1>4. CASE ReadEof
  BY <1>4, RunReadsEof
<1>5. CASE WatchdogInterrupt
  <2>1. ~eof
    BY <1>5, Durations DEF WatchdogInterrupt, ExecExpired, RunInv
  <2>2. QED BY <1>1, <1>5, <2>1, RunGoesOn DEF WatchdogInterrupt, fieldVars, sessionVars, ghostVars
<1>6. CASE WatchdogQuiet
  BY <1>1, <1>6, RunGoesOn DEF WatchdogQuiet, fieldVars, localVars, sessionVars, ghostVars
<1>7. CASE ReadData \/ (ReadIdle /\ ~Accepted(now'))
  <2>1. ~eof
    BY <1>7 DEF ReadData, ReadIdle
  <2>2. UNCHANGED <<phase, cmd, result, gate, baseline, sent, terminated, eof>>
    BY <1>7 DEF ReadData, ReadIdle, sessionVars, ghostVars
  <2>3. QED BY <1>1, <2>1, <2>2, RunGoesOn
<1>8. CASE ConfirmReply \/ NoConfirmReply \/ Approve \/ GateHolds
  <2>1. ~eof
    BY <1>8 DEF ConfirmReply, NoConfirmReply, Approve, GateHolds, RunInv
  <2>2. UNCHANGED <<phase, cmd, result, gate, baseline, sent, terminated, eof>>
    BY <1>8 DEF ConfirmReply, NoConfirmReply, Approve, GateHolds, fieldVars, sessionVars, ghostVars
  <2>3. QED BY <1>1, <2>1, <2>2, RunGoesOn
<1>9. CASE ReadIdle
  BY <1>3, <1>7, <1>9
<1>10. QED BY <1>2, <1>3, <1>4, <1>5, <1>6, <1>7, <1>8, <1>9 DEF WaitStep

\* Without a step of its own the run stays as it is, but that the target may close.
LEMMA RunStands ==
  ASSUME RunInv, TargetCloses \/ UNCHANGED vars
  PROVE  RunInv'
<1>1. /\ UNCHANGED <<phase, pc, cmd, result, gate, baseline, now, interruptedAt, hits, eof,
                     terminated, sent>>
      /\ slaveClosed => slaveClosed'
  BY DEF TargetCloses, vars, callVars, fieldVars, localVars, displayVars, sessionVars, ghostVars
<1>2. IdleGateOpen' <=> IdleGateOpen
  BY <1>1 DEF IdleGateOpen, GateHits
<1>3. (ReplyLost => ReplyLost') /\ (Killed' <=> Killed)
  BY <1>1, <1>2 DEF ReplyLost, Killed
<1>4. QED BY <1>1, <1>3 DEF RunInv, Returned

-----------------------------------------------------------------------------
(* The stages of the run.                                                  *)

\* The wrapper rests once the run has left its loop.
StageInv ==
    /\ stage \in {"loop", "capture", "exit", "done"}
    /\ stage \in {"exit", "done"} => phase = "none"
    /\ stage = "exit" => result \in Outcomes
    /\ stage = "capture" => cmd = 0
    /\ stage # "done" => exit = None
    /\ KilledIsReported

OrchInv == TimeInv /\ CallInv /\ MarkerInv /\ RunInv /\ StageInv

\* The target's files, and what the run does without its wrapper.
Aside ==
    \/ Fail \/ PrintCapture \/ Exit
    \/ \E c \in 1..NumCmds : TargetWritesFile(c) \/ TargetSaves(c)

\* Every step of a run is one of the wrapper's, or none.
LEMMA OrchIsOpen == ASSUME [OrchNext]_allVars PROVE [OpenNext]_vars
<1>1. CASE RunNextCommand
  BY <1>1 DEF RunNextCommand, Sentinels, OpenNext
<1>2. CASE Aside \/ UNCHANGED allVars
  BY <1>2 DEF Aside, Fail, PrintCapture, Exit, TargetWritesFile, TargetSaves, allVars
<1>3. CASE Capture \/ WrapperStep \/ (TargetCloses /\ UNCHANGED orchVars)
  BY <1>3 DEF Capture, WrapperStep, OpenNext
<1>4. QED BY <1>1, <1>2, <1>3 DEF OrchNext, Orchestrate, Aside

LEMMA RunNext == ASSUME OrchInv, [OrchNext]_allVars PROVE RunInv'
<1> USE DEF OrchInv
<1>1. CASE RunNextCommand
  BY <1>1, RunCalls DEF RunNextCommand
<1>2. CASE Capture
  BY <1>2, RunCaptures DEF Capture, StageInv
<1>3. CASE WrapperStep
  BY <1>3, RunSends, RunWaits DEF WrapperStep, Step
<1>4. CASE Aside \/ (TargetCloses /\ UNCHANGED orchVars) \/ UNCHANGED allVars
  <2>1. TargetCloses \/ UNCHANGED vars
    BY <1>4 DEF Aside, Fail, PrintCapture, Exit, TargetWritesFile, TargetSaves, allVars
  <2>2. QED BY <2>1, RunStands
<1>5. QED BY <1>1, <1>2, <1>3, <1>4 DEF OrchNext, Orchestrate, Aside

\* At rest, the wrapper takes no step.
LEMMA NoStepAtRest == ASSUME CallInv, phase = "none" PROVE ~Step
  BY DEF CallInv, Step, WaitStep, Send, SendFails, HardCap, WatchdogKill, WatchdogInterrupt,
         WatchdogQuiet, ReadData, ConfirmReply, ConfirmReplyFails, NoConfirmReply, Approve,
         GateCompletes, GateHolds, ReadIdle, ReadEof

LEMMA StepsKeepCommand == ASSUME Step PROVE cmd' = cmd
  BY DEF Step, WaitStep, Send, SendFails, HardCap, WatchdogKill, WatchdogInterrupt,
         WatchdogQuiet, ReadData, ConfirmReply, ConfirmReplyFails, NoConfirmReply, Approve,
         GateCompletes, GateHolds, ReadIdle, ReadEof

\* A run that killed its target, or saw it die after the Ctrl+C, gets a code that says so.
LEMMA ExitTells ==
  ASSUME RunInv, StageInv, Exit, Killed
  PROVE  exit' \in {124, 69} \/ (exit' = 0 /\ printed = "file")
<1>1. result \in {"HardTimeout", "TimedOut"} /\ exit' \in ExitCodes(result)
  BY DEF Exit, RunInv, Returned
<1>2. CASE printed = "file"
  BY <1>1, <1>2 DEF ExitCodes, Fatal
<1>3. CASE printed # "file"
  BY <1>1, <1>3 DEF ExitCodes, Fatal
<1>4. QED BY <1>2, <1>3

LEMMA StageNext == ASSUME OrchInv, [OrchNext]_allVars PROVE StageInv'
<1> USE DEF OrchInv
<1>1. CASE RunNextCommand \/ Capture
  <2>1. /\ stage \in {"loop", "capture"} /\ UNCHANGED <<stage, exit>>
        /\ stage = "capture" => cmd' = cmd
    BY <1>1 DEF RunNextCommand, Capture, WaitUntilIdle, orchVars
  <2>2. QED BY <2>1 DEF StageInv, KilledIsReported
<1>2. CASE WrapperStep
  <2>1. cmd' = cmd /\ UNCHANGED <<stage, exit>> /\ phase # "none"
    BY <1>2, NoStepAtRest, StepsKeepCommand DEF WrapperStep, orchVars
  <2>2. QED BY <2>1 DEF StageInv, KilledIsReported
<1>3. CASE Fail
  <2>1. stage' = "done" /\ exit' = 1 /\ phase' = "none" /\ UNCHANGED <<cmd, result>>
    BY <1>3 DEF Fail, vars, callVars
  <2>2. ~Killed /\ UNCHANGED <<terminated, eof, interruptedAt>>
    BY <1>3 DEF Fail, RunInv, Returned, vars, localVars, sessionVars
  <2>3. QED BY <2>1, <2>2 DEF StageInv, KilledIsReported, Killed
<1>4. CASE PrintCapture
  BY <1>4 DEF PrintCapture, LoopOver, vars, callVars, StageInv, KilledIsReported
<1>5. CASE Exit
  <2>1. stage' = "done" /\ UNCHANGED <<phase, cmd, terminated, eof, interruptedAt, printed>>
    BY <1>5 DEF Exit, vars, callVars, localVars, sessionVars
  <2>2. phase = "none"
    BY <1>5 DEF Exit, StageInv
  <2>3. KilledIsReported'
    BY <1>5, <2>1, ExitTells DEF KilledIsReported, Killed
  <2>4. QED BY <2>1, <2>2, <2>3 DEF StageInv
<1>6. CASE \/ TargetCloses /\ UNCHANGED orchVars
           \/ \E c \in 1..NumCmds : TargetWritesFile(c) \/ TargetSaves(c)
           \/ UNCHANGED allVars
  <2>1. UNCHANGED <<stage, exit, printed, callVars, terminated, eof, interruptedAt>>
    BY <1>6 DEF TargetCloses, TargetWritesFile, TargetSaves, allVars, orchVars, vars, localVars,
                sessionVars
  <2>2. QED BY <2>1 DEF callVars, StageInv, KilledIsReported
<1>7. QED BY <1>1, <1>2, <1>3, <1>4, <1>5, <1>6 DEF OrchNext, Orchestrate

LEMMA OrchInvHolds == OrchSpec => []OrchInv
<1>1. OrchInit => OrchInv
  <2> SUFFICES ASSUME OrchInit PROVE OrchInv
    OBVIOUS
  <2>1. Init
    BY DEF OrchInit
  <2>2. TimeInv
    BY <2>1, Durations DEF Init, TimeInv, Budget
  <2>3. CallInv
    BY <2>1 DEF Init, CallInv, MarkerlessExact, Returned
  <2>4. MarkerInv
    BY <2>1, WrapperAssumption DEF Init, MarkerInv
  <2>5. RunInv
    BY <2>1 DEF Init, RunInv, Killed, Returned
  <2>6. StageInv
    BY <2>1 DEF OrchInit, Init, StageInv, KilledIsReported
  <2>7. QED BY <2>2, <2>3, <2>4, <2>5, <2>6 DEF OrchInv
<1>2. OrchInv /\ [OrchNext]_allVars => OrchInv'
  <2> SUFFICES ASSUME OrchInv, [OrchNext]_allVars PROVE OrchInv'
    OBVIOUS
  <2>1. TimeInv' /\ CallInv' /\ MarkerInv'
    BY OrchIsOpen, TimeNext, CallNext, MarkersNext DEF OrchInv
  <2>2. QED BY <2>1, RunNext, StageNext DEF OrchInv
<1>3. QED BY <1>1, <1>2, PTL DEF OrchSpec

\* A run that had to kill the target, or that saw it die after a Ctrl+C, says so in its
\* exit code unless the result file delivered the reply.
THEOREM KillsAreReported == OrchSpec => []KilledIsReported
<1>1. OrchInv => KilledIsReported
  BY DEF OrchInv, StageInv
<1>2. QED BY <1>1, OrchInvHolds, PTL

-----------------------------------------------------------------------------
(* The reply.                                                              *)

\* The file holds the reply of the command being run, nothing, or what its removal before
\* that command left there; and a run that printed nothing had found nothing.
ReplyInv ==
    /\ saved \subseteq fenced
    /\ Armed /\ cmd > 0 => file \in {Absent, kept} \/ (file = cmd /\ cmd \in sent)
    /\ RemovalFails \/ kept = Absent
    /\ stage \in {"exit", "done"} /\ printed = "none" /\ result # "error" =>
         ~FromFile /\ FencedInFiles = {}
    /\ stage \in {"loop", "capture"} => printed = "none"
    /\ exit = 75 => stage = "done" /\ printed = "none" /\ Returned("TargetExitedEarly")
    /\ ReplyIsLastCommands

replyVars == <<cmd, result, phase, sent, fenced>>

LEMMA FenceIsLast ==
  ASSUME MarkerInv, NEW S, S \subseteq fenced, NEW c \in LastFence(S)
  PROVE  c = cmd /\ cmd \in sent
<1>1. c \in fenced /\ cmd > 0 /\ NeedleOf[c] = NeedleOf[cmd]
  BY DEF LastFence, Sentinels
<1>2. c \in 1..NumCmds /\ cmd \in 1..NumCmds /\ c \in sent
  BY <1>1 DEF MarkerInv
<1>3. QED BY <1>1, <1>2, DistinctNeedles DEF UniqueNeedles

LEMMA ReplyPrinted ==
  ASSUME MarkerInv, ReplyInv, StageInv, PrintCapture
  PROVE  ReplyInv'
<1>1. /\ stage' = "exit" /\ stage \in {"loop", "capture"}
      /\ UNCHANGED <<cmd, result, phase, sent, fenced, hits, extract, file, kept, saved, exit>>
  BY DEF PrintCapture, LoopOver, vars, callVars, displayVars, ghostVars
<1>2. exit' # 75
  BY <1>1 DEF StageInv, None
<1>3. CASE PrintFile
  <2>1. printed' = "file" /\ printedFor' = file /\ Armed /\ cmd > 0 /\ file # Absent
    BY <1>3 DEF PrintFile, PrintReply, FromFile
  <2>2. (file = cmd /\ cmd \in sent) \/ (kept # Absent /\ file = kept)
    BY <2>1 DEF ReplyInv
  <2>3. QED BY <1>1, <1>2, <2>1, <2>2 DEF ReplyInv, ReplyIsLastCommands, Armed
<1>4. CASE PrintTranscript
  <2>1. PICK c \in FencedInFiles : PrintReply("transcript", c)
    BY <1>4 DEF PrintTranscript
  <2>2. c = cmd /\ cmd \in sent
    BY <2>1, FenceIsLast DEF FencedInFiles, ReplyInv
  <2>3. QED BY <1>1, <1>2, <2>1, <2>2 DEF ReplyInv, ReplyIsLastCommands, PrintReply, Armed
<1>5. CASE ChooseReply
  <2>1. ~FromFile' /\ FencedInFiles' = {}
    BY <1>1, <1>5 DEF ChooseReply, FromFile, FencedInFiles, LastFence, Armed, Sentinels
  <2>2. CASE \E c \in FencedOnScreen : PrintReply("fenced", c)
    <3>1. PICK c \in FencedOnScreen : PrintReply("fenced", c)
      BY <2>2
    <3>2. c = cmd /\ cmd \in sent
      BY <3>1, FenceIsLast DEF FencedOnScreen
    <3>3. QED BY <1>1, <1>2, <2>1, <3>1, <3>2 DEF ReplyInv, ReplyIsLastCommands, PrintReply, Armed
  <2>3. CASE printed' \in {"structural", "none"}
    BY <1>1, <1>2, <2>1, <2>3 DEF ReplyInv, ReplyIsLastCommands, Armed
  <2>4. QED BY <1>5, <2>2, <2>3 DEF ChooseReply, PrintReply
<1>6. CASE PrintPlain
  BY <1>1, <1>2, <1>6 DEF PrintPlain, PrintReply, ReplyInv, ReplyIsLastCommands, Armed
<1>7. QED BY <1>3, <1>4, <1>5, <1>6 DEF PrintCapture

\* 75 is the code of nothing but a mid-reply death without a reply.
LEMMA ExitIs75 ==
  ASSUME TimelyTarget, StageInv, Exit, exit' = 75
  PROVE  result = "TargetExitedEarly" /\ printed = "none"
<1>1. exit' \in ExitCodes(result) /\ result \in Outcomes
  BY DEF Exit, StageInv
<1>2. CASE result = "TargetExitedEarly"
  BY <1>1, <1>2 DEF ExitCodes, Fatal
<1>3. CASE result = "Completed"
  BY <1>1, <1>3 DEF ExitCodes, Fatal, TimelyTarget
<1>4. CASE result = "Idle"
  BY <1>1, <1>4 DEF ExitCodes, Fatal
<1>5. CASE result = "TimedOut" \/ result = "HardTimeout"
  <2>1. CASE printed = "file"
    BY <1>1, <1>5, <2>1 DEF ExitCodes, Fatal
  <2>2. CASE printed # "file"
    BY <1>1, <1>5, <2>2 DEF ExitCodes, Fatal
  <2>3. QED BY <2>1, <2>2
<1>6. QED BY <1>1, <1>2, <1>3, <1>4, <1>5 DEF Outcomes

LEMMA StepsKeepSent == ASSUME Step PROVE sent \subseteq sent' /\ fenced \subseteq fenced'
<1>1. CASE Send \/ SendFails
  BY <1>1 DEF Send, SendFails, ghostVars
<1>2. CASE ReadData
  <2>1. CASE TranscriptChanges
    BY <1>2, <2>1 DEF ReadData, TranscriptChanges, MarkersChange
  <2>2. CASE ~TranscriptChanges
    BY <1>2, <2>2 DEF ReadData
  <2>3. QED BY <2>1, <2>2
<1>3. CASE WaitStep /\ ~ReadData
  BY <1>3 DEF WaitStep, HardCap, WatchdogKill, WatchdogInterrupt, WatchdogQuiet,
              ConfirmReply, ConfirmReplyFails, NoConfirmReply, Approve, GateCompletes,
              GateHolds, ReadIdle, ReadEof, ghostVars
<1>4. QED BY <1>1, <1>2, <1>3 DEF Step

LEMMA ReplyNext == ASSUME TimelyTarget, OrchInv, ReplyInv, [OrchNext]_allVars PROVE ReplyInv'
<1> USE DEF OrchInv
<1>1. CASE RunNextCommand
  <2>1. /\ stage = "loop" /\ stage' = "loop" /\ printed' = printed /\ exit' = exit
        /\ saved' = saved /\ fenced' = fenced /\ extract' = extract
        /\ file' \in {Absent, kept'} /\ (RemovalFails \/ kept' = Absent)
    BY <1>1 DEF RunNextCommand, RunCommand, ClearResultFile
  <2>2. printed = "none" /\ exit # 75
    BY <2>1 DEF ReplyInv
  <2>3. QED BY <2>1, <2>2 DEF ReplyInv, ReplyIsLastCommands, Armed
<1>2. CASE Capture \/ WrapperStep
  <2>1. /\ stage \in {"loop", "capture"}
        /\ cmd' = cmd /\ UNCHANGED orchVars /\ sent \subseteq sent' /\ fenced \subseteq fenced'
    BY <1>2, StepsKeepCommand, StepsKeepSent, NoStepAtRest
       DEF Capture, WaitUntilIdle, WrapperStep, StageInv
  <2>2. printed = "none" /\ exit # 75
    BY <2>1 DEF ReplyInv
  <2>3. QED BY <2>1, <2>2 DEF orchVars, ReplyInv, ReplyIsLastCommands, Armed
<1>3. CASE Fail
  <2>1. /\ result = "error" /\ UNCHANGED replyVars /\ UNCHANGED <<extract, file, kept, saved, printed>>
        /\ stage' = "done" /\ exit' = 1 /\ stage \in {"loop", "capture"}
    BY <1>3 DEF Fail, vars, callVars, ghostVars, replyVars
  <2>2. QED BY <2>1 DEF replyVars, ReplyInv, ReplyIsLastCommands, Armed
<1>4. CASE PrintCapture
  BY <1>4, ReplyPrinted
<1>5. CASE Exit
  <2>1. /\ UNCHANGED replyVars /\ UNCHANGED <<extract, file, kept, saved, printed, printedFor>>
        /\ stage = "exit" /\ stage' = "done" /\ phase = "none"
    BY <1>5 DEF Exit, vars, callVars, ghostVars, replyVars, StageInv
  <2>2. exit' = 75 => result = "TargetExitedEarly" /\ printed = "none"
    BY <1>5, ExitIs75
  <2>3. FromFile' = FromFile /\ FencedInFiles' = FencedInFiles
    BY <2>1 DEF replyVars, FromFile, FencedInFiles, LastFence, Armed, Sentinels
  <2>4. QED BY <2>1, <2>2, <2>3 DEF replyVars, ReplyInv, ReplyIsLastCommands, Armed, Returned
<1>6. CASE \E c \in 1..NumCmds : TargetWritesFile(c)
  <2>1. PICK c \in 1..NumCmds : TargetWritesFile(c)
    BY <1>6
  <2>2. /\ phase = "reply" /\ cmd = c /\ c \in sent /\ file' = c
        /\ UNCHANGED replyVars /\ UNCHANGED <<extract, stage, kept, saved, printed, printedFor, exit>>
    BY <2>1 DEF TargetWritesFile, TimelyTarget, vars, callVars, ghostVars, replyVars
  <2>3. stage \in {"loop", "capture"}
    BY <2>2 DEF StageInv
  <2>4. QED BY <2>2, <2>3 DEF replyVars, ReplyInv, ReplyIsLastCommands, Armed, Returned
<1>7. CASE \E c \in 1..NumCmds : TargetSaves(c)
  <2>1. /\ stage = "loop" /\ saved' \subseteq fenced
        /\ UNCHANGED replyVars /\ UNCHANGED <<extract, stage, file, kept, printed, printedFor, exit>>
    BY <1>7 DEF TargetSaves, vars, callVars, ghostVars, replyVars, ReplyInv
  <2>2. QED BY <2>1 DEF replyVars, ReplyInv, ReplyIsLastCommands, Armed, Returned
<1>8. CASE (TargetCloses /\ UNCHANGED orchVars) \/ UNCHANGED allVars
  <2>1. UNCHANGED replyVars /\ UNCHANGED orchVars
    BY <1>8 DEF TargetCloses, allVars, vars, callVars, ghostVars, replyVars
  <2>2. FromFile' = FromFile /\ FencedInFiles' = FencedInFiles
    BY <2>1 DEF replyVars, orchVars, FromFile, FencedInFiles, LastFence, Armed, Sentinels
  <2>3. QED BY <2>1, <2>2 DEF replyVars, orchVars, ReplyInv, ReplyIsLastCommands, Armed, Returned
<1>9. QED BY <1>1, <1>2, <1>3, <1>4, <1>5, <1>6, <1>7, <1>8 DEF OrchNext, Orchestrate

LEMMA ReplyInvHolds == ASSUME TimelyTarget PROVE OrchSpec => []ReplyInv
<1>1. OrchInit => ReplyInv
  BY DEF OrchInit, Init, ReplyInv, ReplyIsLastCommands, None
<1>2. OrchInv /\ ReplyInv /\ [OrchNext]_allVars => ReplyInv'
  BY ReplyNext
<1>3. QED BY <1>1, <1>2, OrchInvHolds, PTL DEF OrchSpec

\* A reply taken from the file, a transcript or a fence answers the last command the run
\* got to, never an earlier one or an earlier run's; but for the one that was in the file
\* when its removal before that command failed.
THEOREM RepliesAreLastCommands == ASSUME TimelyTarget PROVE OrchSpec => []ReplyIsLastCommands
<1>1. ReplyInv => ReplyIsLastCommands
  BY DEF ReplyInv
<1>2. QED BY <1>1, ReplyInvHolds, PTL

\* When the file's removal works, a failure is turned into exit 0 only by the reply to the
\* last command, as the freshness guard has it.
THEOREM RemovedFilesMaskNothing ==
  ASSUME TimelyTarget, ~RemovalFails PROVE OrchSpec => []StaleFileMasksNothing
<1>1. ReplyInv => StaleFileMasksNothing
  BY DEF ReplyInv, ReplyIsLastCommands, StaleFileMasksNothing
<1>2. QED BY <1>1, ReplyInvHolds, PTL

\* The exit code 75 says that the last command was typed, that the target closed the PTY
\* unprovoked, and that the reply is nowhere to be found.
THEOREM TransientsAreLost == ASSUME TimelyTarget PROVE OrchSpec => []TransientMeansLost
<1>1. OrchInv /\ ReplyInv => TransientMeansLost
  <2> SUFFICES ASSUME OrchInv, ReplyInv, exit = 75
               PROVE  /\ cmd \in sent /\ slaveClosed /\ ~terminated /\ interruptedAt = None
                      /\ ~FromFile /\ FencedInFiles = {} /\ FencedOnScreen = {}
    BY DEF TransientMeansLost
  <2>1. stage = "done" /\ printed = "none" /\ Returned("TargetExitedEarly")
    BY DEF ReplyInv
  <2>2. ReplyLost /\ ~Killed
    BY <2>1 DEF OrchInv, RunInv, Returned
  <2>3. ~FromFile /\ FencedInFiles = {}
    BY <2>1 DEF ReplyInv, Returned
  <2>4. gate = NeedleOf[cmd] /\ cmd \in 1..NumCmds /\ gate \in Needles /\ hits[gate] \in Nat
    BY <2>2, WrapperAssumption DEF ReplyLost, OrchInv, MarkerInv
  <2>5. ~(hits[gate] > 0)
    BY <2>2, <2>4 DEF ReplyLost, IdleGateOpen, GateHits, OrchInv, RunInv
  <2>6. FencedOnScreen = {}
    BY <2>4, <2>5 DEF FencedOnScreen, Sentinels
  <2>7. QED BY <2>2, <2>3, <2>6 DEF ReplyLost, Killed
<1>2. QED BY <1>1, OrchInvHolds, ReplyInvHolds, PTL
=============================================================================
