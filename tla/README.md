# flat-cyborg: TLA+ models, checks and proofs

flat-cyborg runs a target CLI inside a pseudo-terminal, types commands into it,
decides when it has finished answering, extracts the answer and turns all of it
into an exit code. This directory models the PTY session, the wait state
machine, the typing of a command, the command line and what it starts, interactive
mode, the self-update, the emulators of a line and of a screen, the recognition of
prompts and the extraction of the reply. Paths are relative to the
repository (`src/pty.rs` is `src/src/pty.rs` in `PROJECT.json`).

## 1. Inventory

| component | state it keeps | operations | hard behaviour |
|---|---|---|---|
| PTY session, `src/pty.rs` | child, input sender, output receiver, thread handles, `eof`, `terminated` | `spawn_in`, `write_input`, `read_output`, `input_handle`, `wait_with_timeout`, `child`, `terminate`, `Drop` | two threads, two channels, processes that fork, outlive the child or keep the slave open, pid reuse |
| Wrapper, `src/wrapper.rs` | gate and its baseline, `saw_output`, `markerless_quiet`, `state`, the transcript | `run_command`, `wait_until_idle`, `arm_idle_gate`, `set_idle_gate` | the watchdog, the hard cap, the settle rule and the marker race; auto-replies that take time |
| Typing, `src/wrapper.rs`, `src/jitter.rs` | none | `send`, `send_paste`, `send_burst`, `type_command`, `fold_text`, `strip_invisible` | several writes, any of which may fail; an editor that takes an Enter for a submission or a line break |
| Detection, `src/ansi/detect.rs` | none | `is_confirmation_prompt`, `is_approval_menu`, `line_ends_with_any` | text that resembles a prompt |
| Command line, `src/main.rs` | the arguments and the environment | `main`, `parse_from` | options in any order, values that look like options, derived defaults |
| Orchestrator, `src/main.rs` | the command loop, sentinels, the result file | `orchestrate`, `capture`, `print_capture`, `exit_code_for` | stale replies, three sources of a reply, precedence of exit codes, errors between commands |
| Interactive mode, `src/main.rs`, `src/terminal.rs` | raw mode, the stdin thread | `interactive`, the guard's `Drop` | restoration on error and panic, a thread blocked on the keyboard |
| Self-update, `src/update.rs` | the files of the install directory | `cmd_update`, `run_update`, `verify_checksum`, `replace_executable`, `sudo_replace` | crashes and failures between renames, two updaters |
| ANSI, `src/ansi/` | parser state, UTF-8 carry, the canvas of the current line | `Parser::advance`, `Sanitizer::feed` | sequences split across chunks, cursor moves beyond the line |
| Screen, `src/screen.rs` | grid, cursor, scroll, alternate screen, scrollback | `Grid` operations, `csi` | the edges of the grid |
| Extraction, `src/extract.rs` | none | `choose_reply`, `extract_between`, structural slices | echoed markers |
| Diagnostics, `src/diag.rs` | a log file | | data only |

How they interact. The Orchestrator owns a Wrapper, calls `run_command` once per
command and reads what is left when the loop ends. The Wrapper owns a PtySession
and polls `read_output`; it never sees processes or threads, only *Data*, *Idle*
or *Eof*. The reader and writer threads share nothing with the host but the two
channels. An `InputHandle` is a clone of the input sender and may outlive the
session: interactive mode gives one to a detached thread that reads the keyboard. The
updater shares nothing with the rest but the binary and `main`, which chooses between
them.

What makes each correct:

* PTY session: `read_output` is a FIFO stream with a final end-of-stream that
  comes after everything written; input is not reordered or lost while the writer
  lives; the process group is signalled at most once and never after its leader
  was reaped; a termination leaves no member of the group alive; dropping a session
  returns and its threads end.
* Wrapper: every wait is bounded; a kill is preceded by a Ctrl+C and its grace, or
  is due to the hard cap; a wait completes on the marker of its own command; a
  marker-less completion is quiet for as long as it says, and a target that has fallen
  silent is not timed out; each question is answered once; in each wait a menu is
  confirmed once.
* Typing: a command arrives as one submission, whole, or not at all.
* Detection: a question is recognised in every form, nothing that resembles one is.
* Command line: what is parsed depends on what is given, not on where it stands.
* Interactive mode: the terminal is canonical afterwards; the process ends with its
  target.
* Orchestrator: what is printed answers the last command; the exit code tells of
  a kill and of a lost reply and of nothing else; a run ends.
* Updater: a whole binary exists at every instant; nothing unverified is installed
  unasked; what it reports is what it did.
* ANSI: no line end is lost in a broken sequence; a sequence is delivered with its own
  parameters; a line costs bounded memory; a visible change is reported as one.
* Screen: cursor and region stay on the grid; line-fed output is kept in order; the
  seam between scrollback and screen loses no line; the main screen survives the
  alternate one.
* Extraction: the reply is the last (on the screen) or first (in a transcript) fence
  that was really completed, character for character; nothing when there is none.
  Without markers it is the last answer, as far as the CLI's chrome delimits it.

## 2. Modules and their correspondence to the code

`PROJECT.json` maps every definition to its lines. `Foo` below the comment
"Mutant of ..." is a deliberately wrong variant of the definition that follows it;
no specification uses it. It shows that the property named in `PROJECT.json`
notices that bug.

### PtyStream, PtySession

`PtyStream` is the abstract specification: what the target has produced, what
`read_output` has returned, whether the slave is closed, whether *Eof* was
reported. `PtySession` is `src/pty.rs` with everything in between, and
implements it (`ImplementsStream`, `INSTANCE PtyStream WITH produced <- ...`).

* The reader and writer threads are `readerPc`/`chunk` and `writerPc`/`msg`; one
  action per blocking call. A unit is the bytes of one read or one queued write.
* `outq`, `inq` are the mpsc channels. A sender fails once the receiver is gone; a
  receiver is disconnected once the queue is empty and every sender is gone
  (`Senders`: the session's own `input` and the `handles`).
* The kernel is external: two bounded buffers, SIGKILL to a group, death, and
  reuse of the pid, possible only after the child is reaped and no member is left.
  A read of the master ends with EIO when nobody *holds* the slave, not when the
  child is dead.
* `Drop` is `DropInput`, `DropTerminate`, `Reap`/`ReapGiveUp`, `DropJoinReader`,
  `DropJoinWriter`. The budgets (0.5 to 2 s) are `BudgetSpent`, which may be true at
  any time: a budget may run out before or after the awaited event.
* `RawChild` is whether the host also waits through the public accessor `child()`.

### Interactive

`src/main.rs` (`run`, `interactive`) and `src/terminal.rs` around `PtySession`
(`EXTENDS`): a session is owned by a wrapper, any order of whose calls is possible, or by
interactive mode. There `mainPc` is where the main thread is and `stdinPc` where the
detached thread is that holds an `InputHandle`. Each of the guard's three calls may
fail; starting a thread may panic; leaving drops the guard first and the session second,
as Rust drops locals before parameters. `Vanish` is the end of a process, which takes
every thread with it; a fatal signal (`FatalSignal`) vanishes without destructors, which
terminal.rs:9-13 declares out of scope. `HangUp` takes the user's terminal away.

### Wrapper

`src/wrapper.rs`, one action per branch of the loop of `wait_until_idle`, with the
program counter `pc` (`top`, `read`, `confirm`, `approve`, `gate`); `phase` is
where `run_command` is. Time is `now`, in ticks since the start of the wait; it
moves where the code sleeps or blocks: `ReadData` (a chunk before the poll times
out), `ReadIdle` (the poll interval, plus up to `Overrun`), `ConfirmReply` (jittered
typing, up to `MaxTyping`). The Data branch of one iteration is
`ReadData; ConfirmReply | NoConfirmReply; Approve; GateCompletes | GateHolds`,
with the same order as the code; the chunks that a slow auto-reply lets pile up are
later reads. Of the transcript the model keeps the number of lines equal to
each marker (`hits`), the current line and what is searched for menus (`line`, `screen`,
as tokens, judged by `Detect`), and `committed`.
Typing a command is one step here, which may fail once the target has closed the slave,
or because a burst is too long (`Burst`); `Delivery` has its writes.
The variables `sent`, `fenced`, `changedAt`, `stirredAt`, `promptNo`, `promptLine`, `replied`,
`confirmedHere` and `confirmedInWait` are not in the code: they record what really happened, for
the properties. `stirredAt` is when the wait last read anything, a visible change or not, or
answered a question; `changedAt` only follows visible changes. `confirmedHere` counts the Enters since the menu
on the screen appeared, across waits, `confirmedInWait` those of the wait, as the latch of
the code is a local of the wait.

What is assumed of the target (external actions):

* `MarkersChange`: in line mode the log only grows, by one marker line for every
  reply that ends; on a screen, a repaint may drop, repeat or restore any marker
  that was emitted. A marker is emitted only by ending a reply to the command it was
  given to: the echo of the prompt has the marker inside a longer line, which
  the code does not count.
* `LineChanges`: a new question is asked on a new line, unless `SameLine`. `Questions`
  and `Menus` are what the target means as questions and menus, whatever `Detect` makes
  of them.
* `Redraws`: output that changes nothing visible.
* `TargetCloses`: the slave may be closed at any time.

### Detect

`src/ansi/detect.rs` as operators on lines of tokens: brackets, separators and blanks,
the words that are looked for, any other word. Word forms that only differ in case are
`Lower`; a token "any" stands for a word that ends in y, "none" for one that starts with
no, since the forms without brackets are looked for inside words. ">>" stands for the
selection glyphs, "1." also for "1)", "to confirm" for the hint.

### Delivery

`send` of `src/wrapper.rs` with its three styles, and `type_command` of `src/jitter.rs`: a
command is stripped, folded or wrapped as its style asks (`Send`), written piece by
piece (`TypeBody`) and submitted (`PressEnter`); any write may be the last (`WriteFails`).
The chunks of a burst are counted in characters, which are bytes in the code.
Pauses are what tells a deliberate Enter from one in a burst. The editor that receives it
(`Key`, `Submit`) is external and does what the comments at wrapper.rs:472-476,
497-509 and 523-538 say of it; `softBreak` is whether "\n" breaks a line (claude) or
submits (codex, main.rs:536-545). `FoldText` takes the text from a position on, one segment
at a time, as `fold_line` does, and ends a segment at a line end as `split('\n')` does.
`DeliveryAssumption` says that `is_invisible` lists no blank, "\n" or "\r" and neither marker of
a paste: it lists no C0 control and nothing of ASCII.

### CommandLine, Cli

`CommandLine` is `parse_from`: the tokens up to the first `--` in a loop (`TakeFlag`,
`TakeValue`, `RejectOption`), then the derived values (`FinishParsing`). Programs,
paths and texts are tokens; `Numbers` says which tokens are numbers. `Cli` is `main`:
it composes `Updater`, `CommandLine` and `Delivery` (`EXTENDS`), and types what was
parsed in the style that was parsed. `CommandLineAssumption`: the numbers of options are
natural, being parsed as `u64`, `u16` or `usize`. `CliAssumption`: commands hold no "\r" and no
marker of a paste; section 5 says what becomes of one that does.
`ArgumentsAssumption` names the command lines and environments of an instance: sequences of
tokens, and records of the four variables that `parse_from` looks up. An optional path is
the empty sequence or the path alone in one, as `Option` is: `--result-file ""` is a path,
an empty variable is none (main.rs:268-273).

### Orchestrator

`src/main.rs` on top of `Wrapper` (`EXTENDS`): the command loop, capture mode, the
choice of the reply, the exit code. A reply is named by the command it
answers, so "a stale reply" is a number; `file` is whose reply the result file
holds (`PriorRun` for one left by an earlier run), `saved` the replies in the
target's transcript files. The removal of the file before a command may fail (`RemovalFails`), which
the code does not look at; `kept` records what it then left. Whether a fence is still on the screen is what
`hits` says; the opening marker may have been lost, so that `ChooseReply` may also
find nothing. A target writes its file while its reply is waited for, unless
`LateFile`.

### Updater

`src/update.rs`. `files` maps paths to contents: the installed path, a backup, a
staged file beside the binary and one in a private directory for each updater. Each
action is one effect on the file system, so that failures (`*Fails`), crashes and
another updater fall between any two. `Partial(u)` is what another process sees
while `mv` copies across file systems. `target` is what `current_exe` yielded: the kernel
follows the running binary to wherever a rename has put it, another updater's backup
included (`RunningAt`). A version is a sequence of parts, each a number (or none) and what
follows it. A fetch that fails may leave a partial file, and any removal may fail unnoticed, as the
code drops the results. `set_executable` is part of `VerifyChecksum`, whose failure path it
shares. `movedAside` and `cutShort` record what happened.

### AnsiParser, Sanitizer

`AnsiParser` is `src/ansi/parser.rs`: `Advance(b)` is one call of `advance`, and what
it reports to its sink is `emitted`, at most two events (a broken character, then the
byte's own). A character is the sequence of its bytes. `Sanitizer` applies the events
to the canvas of the current line; of the committed text it keeps the number of lines,
which is all that the wrapper reads of it to tell prompts apart. `Feed(b, fresh)` is
one byte of `feed`, `fresh` when a new chunk begins with it, so every way of cutting a
stream into chunks is covered. `newlines`, `printedHere` and `body` record what was
fed.

### Screen

`src/screen.rs`, one action per kind of event, over grids as records with the code's
fields. The parser is not composed in: `Screen` takes any event that it may report.
Rows and columns count from 0 as in the code. `paper` is what a target that only
writes lines has written, as rows of endless paper; `entry` is the state in which the
alternate screen was entered.

### Structural, Extract

`Structural` has what the code does with a known CLI that omitted the markers: the
chrome tables as operators on lines of tokens, the slices of `extract_codex` and
`extract_claude` (both layouts), `looks_clean`. `Extract` has `extract_between`,
`choose_reply`, `text_values`, `json_unescape` and `reply_from_jsonl_text`, as
operators on sequences of tokens: markers, the characters JSON escapes, glyphs and words
of the chrome, everything else as letters.

The state is what a target leaves to be read: the screen's text and the lines of its
JSONL file. `program` "unknown" stands for a target that writes the markers: it mentions
them, answers, quotes, gives up in the middle of a reply, and may stop while its last line
is written. "claude" and "codex" omit them: `Draw` adds a prompt, an answer and the chrome
below, `ScrollOff` takes everything down to the last bullet away. The JSON serializer
(`Encode`) and the layout of a turn (`Draw`) are external; `Draw` follows the layouts of
the captures in tests/fixtures. `BodiesDoNotOpen`: a reply may name the markers anywhere, but
it has no line that ends in the opening one, which no reader could tell from a beginning.
`RowsAreTrimmed`: a blank line of an answer is empty, since `Screen::text` trims its rows.

## 3. Runs

`CHECK_DEADLOCK FALSE` everywhere: a dropped session, a finished run and a
finished update really stop.

| run | instance | question |
|---|---|---|
| `pty_output` | child, one member, one escapee, 3 units, kernel buffer 2, one input, one handle, `child()` used | does the stream, the teardown and the kill hold against every process tree and order? |
| `interactive` | child and an escapee, 3 inputs, kernel buffer 1, both owners | is input intact, is the group signalled once, is the terminal restored, do the threads and the process end? |
| `wrapper_tui` | 2 commands, fresh markers, grace 4, timeout 9, cap 10, redraws, 6 screens of which 2 are menus | grace, deadlines and menus against a screen that repaints: is what is reported of a marker-less reply so, is a silent one ever timed out, does each menu get its Enter? |
| `wrapper_line` | one marker for both commands, 5 lines of which 2 are questions, on up to 3 lines, redraws, typing up to 2 ticks, burst input, cap 11 over timeout 7 | is the old marker discounted, are questions and nothing else answered, once, does a kill come after its Ctrl+C and grace, does every call return in time? |
| `orchestrator` | 2 commands or capture mode, with and without `--extract`, file with removals that may fail, transcripts, structural fallback | reply and exit code; does every run end? |
| `cli` | 2 updaters with failures, crashes, failing restore, insecure mode; lines of up to 3 options out of 31, 3 environments; texts of up to 4 characters (6 of letters and blanks), chunks of 2, bursts of at most 7 | is a binary always left, is anything unverified installed, is every report true? is what is parsed what was given? does a command arrive whole? |
| `sanitizer` | 21 kinds of bytes, 1 line, 2 characters, 3 parameter bytes, `MAX_COL` 2, `u16::MAX` 5 | does a broken or interrupted sequence lose a line end or a parameter, can the line grow? |
| `screen` | 3x2 cells, 2 rows of history, up to 7 events | does anything leave the grid, get lost or come back wrong? |
| `extract` | 2 turns: replies of up to 2 pieces from 7, file torn anywhere; or answers of up to 3 lines from 7 kinds without markers | is the reply read the one that was fenced, or the last answer? |
| `v_menu_twice` | one menu, a wait and a command | violation: a menu on the screen across two waits gets two Enters |
| `v_torn_line` | as `extract`, torn also inside a text that names the marker | violation: reading a torn last line panics |
| `v_lone_surrogate` | as `extract`, with escaped halves of characters | violation: payload next to one is lost |

Bounds. Two commands are the least with an "earlier" one; every stale-marker and
stale-file property needs no more. The times keep the order of the
code's constants (poll <= idle < grace < timeout, interrupt grace longer than a
poll) and an overrun of one tick makes every deadline fall both on and between
polls. Three lines let one question be answered, repainted and followed by
another. Two units in the kernel, one in a hand and one queued are needed before the stream
can lose one, which 3 units with a buffer of 2 give. The mutants confirm that the
bounds are large enough for each property to fail. `sanitizer` has one byte or more of
every class the parser tells apart, and 1 as the only digit: `u16::MAX` = 5 is passed by
the second, as 65535 is by the sixth. A region that is neither the screen nor a
single row needs three rows; two columns give a wrap and a cell that is neither first
nor past the end; two rows of history overflow with the third line end. Two turns give
an earlier and a later fence, and two pieces an escape next to another; three lines have
one between the first and the last. The lines and screens of the wrapper runs hold, next to
the forms that are recognised, one text for each part of a form that is missing. Two
updaters are the least that interfere. Three options let one stand before, between and
after the two it is derived from or excludes. Six characters folded at three columns have a
second fold behind a first, and a burst of seven is passed by a folded text of six.

Fairness. `PtySession!FairSpec`: the two threads and the teardown of the host are
scheduled by the OS, and the host polls for output (that is what `Wrapper` does);
nothing is assumed of the target, its descendants or the owners of handles. A
signalled process may live on (uninterruptible sleep), so `GroupDies` states that
premise itself (`KillsDelivered`). `BudgetSpent` makes bounded joins return.
`Wrapper!FairSpec`: the wrapper's own thread runs, and time passes with it; the
target may be silent or chatty for ever. `Orchestrator!OrchFairSpec`: the same for
the CLI. `Interactive!RunSpec`: as
`PtySession`, and the main thread runs; the thread at the keyboard need not. The other
modules have no liveness property.

## 4. Proofs

`PtySession_proofs` proves, with TLAPS, for every set of processes, every number of
units and handles and every buffer capacity:

| theorem | statement | argument |
|---|---|---|
| `TypeOKHolds` | `[]TypeOK` | `TypeInv` adds that a thread holds a unit exactly while it handles one; one lemma per party |
| `SignalledOnceBeforeReap` | `SignalOnceBeforeReap`, if `RawChild = FALSE` | `SignalInv` says what the flag `terminated` stands for: set by whatever signals the group or reaps the child. `TypeOK` alone allows a reaped child with `terminated = FALSE`. `ChildInv` ties the child's status to its life |
| `NoStrangerIsKilled` | no SIGKILL to a recycled group, if `RawChild = FALSE` | the same invariant: the pid is recycled only after a reap |
| `SessionImplementsStream` | `Spec => Stream!Spec` | `StreamInv`: `delivered`, `outq`, the reader's chunk and the kernel buffer are consecutive runs of 1, 2, ...; the reader is done only with an empty buffer and nobody holding the slave; *Eof* only when all were delivered. Every step maps to a step of `PtyStream` or a stutter |
| `InputIsIntact` | `[]InputIntact` | `InputInv`: the same run of numbers through `inq`, `msg`, `kin` and `consumed` |

The only assumptions are `PtyAssumption` and, where stated, that the host does not
wait through `child()`. This premise is needed: with `RawChild = TRUE`, TLC finds a host that
reaps through `child()` and then drops the session, and `terminate` signals a
group id that may have been reused.

The module extends this to the process around a session, for both owners:

| theorem | statement | argument |
|---|---|---|
| `SessionTypesHold`, `TypedInputIsIntact` | `[]TypeInv`, `[]InputIntact` of `RunSpec` | `RunStep`: every step is one of the session's own, leaves it alone, or is `Vanish`; the invariants survive `Vanish` |
| `OwnerKillsNoStranger` | `[]NoStrangerKilled` of `RunSpec`, if `RawChild = FALSE` | the same with `SignalInv` |
| `TerminalIsRestored` | `[]TerminalRestored` | `TerminalInv`: what the guard is at each place of the main thread. `TerminalRestored` alone does not say that a raw terminal has a guard *before* the unwinding |

`Cli_proofs` proves, for every number of updaters and every set of tags, arguments and
command lines, with crashes and failures anywhere:

| theorem | statement | argument |
|---|---|---|
| `OnlyVerifiedIsInstalled` | `[]OnlyVerifiedInstalled` | `StagedInv`: nobody writes another updater's staging places, so that what was vetted is what is installed. `InstalledInv` says of every path that may be a target what the property says of the installed one: with two updaters a target may be a backup |
| `UpdatersReportTruly` | `[]ReportsAreTrue` | `ReportInv`: where the original and the download of an updater are at each of its places, as long as no other has moved the binary. Others write their own staging places only, until they move a binary |
| `ABinaryRemains` | `[]NeverUnrecoverable` | `RecoveryInv`, below |
| `ArgumentsAreAsGiven` | `[]ParsedAsGiven` | `ReadInv`: at each place of the loop, what was parsed is what `ParsedAsGiven` says of the options read so far, and the place is one where an option, not a value, stands. That last part is what the property lacks: the loop skips values, the property tells them apart from the left (`IsOption`) |

The assumptions are `UpdaterAssumption`, `CommandLineAssumption` and `ArgumentsAssumption`.

That some binary is whole says nothing of the next step: an updater may move it away. With one
updater it is enough to say where that updater is (`LoneInv`). With several, an updater may move
another's backup aside as the running binary, so that backups form chains. `RecoveryInv` says,
as long as no copy was cut short, that a place is emptied by one updater at a time (`SlotInv`),
and `KeptInv`: every set of places that holds the binary's own, and with each place the backups
of those who install there, holds a whole binary or a copy being made. The set of all places is
one of them. The others are what a step needs: when an updater removes its backup, the sets
without that place are known to hold another. TLC checked `RecoveryInv` on all states of
two updaters, and on millions of states of three, before it was proved.

`Delivery_proofs` proves, for every text, width, chunk size and burst limit, and with a failure
at any write:

| theorem | statement | argument |
|---|---|---|
| `CommandsArrive` | `[]CommandArrives` | `TypingInv`: what is in the field and what is left to type make up the whole, and no key left to type submits it (`HalfTyped`, `Keys`). The whole is visible and says what the command says (`TheWhole`), since folding keeps a text up to newlines (`FoldKeeps`) |
| `FoldingFits` | `[]FoldFits` | for the folding from every position on: no line is wider (`FoldIsNarrow`), and the columns of a word that a fold cuts are those of a whole window (`FoldCutsFit`) |

The assumptions are `DeliveryAssumption`, `CommandLineAssumption` and `CliAssumption`. The
recursive functions of the model (`Without`, `FoldText`, `Receive`) are reasoned about without an
induction theorem: that such a function exists, that it is the only one, and what it
inherits from one value to the next each follow from the least element of a set of
counterexamples (`SomeRecursion`, `SameRecursion`, `FoldInduction`).

`Wrapper_proofs` proves every safety and action property of `Wrapper`, for every
number of commands, marker, timeout and grace, and for any target. The step
lemmas are about `OpenNext`, the steps of a wait and those of whoever makes the calls, so
that they serve the library client of `Wrapper` and the run of `Orchestrator` alike.

| theorem | statement | premise | argument |
|---|---|---|---|
| `WaitsAreBounded`, `KillsAreDue` | `[]WaitBounded`, `KillIsDue` | none | `TimeInv`: what may have passed at each place of the loop since it last looked at its deadlines, `changedAt <= lastActivity <= now`, and that a Ctrl+C is never early. `WaitBounded` alone does not say that the loop looks once per iteration |
| `MarkerlessIsExact` | `[]MarkerlessExact` | none | `CallInv`: nothing is accepted while the loop runs |
| `CompletionIsNotStale` | `[]NoStaleCompletion` | `UniqueNeedles`: a marker per command | `MarkerInv`: a marker in the transcript ended a reply to its command, and the gate waits for that of the command being run |
| `ReusedMarkerIsNotStale` | `[]NoStaleCompletion` | `LoggedAndClosed`: line mode, gated, no grace | `LogInv`: the client goes on only when all replies before have ended; the baseline is what was there when the gate was armed |
| `EachPromptIsAnswered`, `PromptsAreAnsweredOnce` | `[]EachPromptAnswered`, `AnsweredOnce` | `PlainQuestions`: the code takes for a question what is one, and each is on a line of its own | `PromptInv`: the line last replied on against the question asked last |
| `MenusAreConfirmedOnce` | `[]ConfirmedOncePerWait` | `PlainMenus`: the same of menus | `MenuInv`: where the flag of the loop and the Enters pressed in this wait may differ |
| `SilentRepliesAreAccepted` | `SilenceNeverTimesOut` | none | `SilentInv`: `lastActivity <= stirredAt <= now`, and a silent target reaches the deadlines only with another `idle_silence` of budget left, since the poll before would have accepted it. A cap that is not below the timeout comes no earlier |

The instance `wrapper_line` satisfies `LoggedAndClosed`, `wrapper_tui` `UniqueNeedles`, both
`PlainQuestions` and `PlainMenus`. `Detect` decides the latter two on the
lines of the instance; a line it takes wrongly for a question is answered. What happens without
`UniqueNeedles` on a repainted screen, with `SameLine`, to a menu that outlives a wait, or to a
settled screen that is not silent, is in section 5.

The module proves further, for every configuration of `Orchestrator` and any number of commands:

| theorem | statement | premise | argument |
|---|---|---|---|
| `KillsAreReported` | `[]KilledIsReported` | none | `RunInv`: after a kill the call that returned says so and is the last; a stream that has ended is noticed before any time passes. `StageInv` carries this to the exit code |
| `RepliesAreLastCommands` | `[]ReplyIsLastCommands` | `TimelyTarget`: no `LateFile`, and the target has no exit status 75 of its own | `ReplyInv`: the file holds the reply of the command being run, nothing, or what its removal before that command left there. `CompletionIsNotStale` is not needed: the reply is chosen by its marker, which `MarkerInv` ties to the command |
| `RemovedFilesMaskNothing` | `[]StaleFileMasksNothing` | `TimelyTarget`, and no `RemovalFails` | the same: without a failed removal `kept` holds nothing. Section 5 has the trace that the last premise excludes |
| `TransientsAreLost` | `[]TransientMeansLost` | `TimelyTarget` | the same, and what `RunInv` says of a command whose reply the target did not live to end |

`Sanitizer_proofs` proves, for every stream of bytes, every cut of it into chunks and every
`MaxCol`:

| theorem | statement | argument |
|---|---|---|
| `LinesAreCounted` | `[]NewlinesCounted` | `AdvanceReports`: in every state of the parser a byte reports nothing or a broken character, then its own event, and a line end reports itself. `ReportsOnCanvas` takes this through the canvas |
| `LinesAreBounded` | `[]LineBounded` | `Reaches`: line *and* cursor stay within `MAX_COL` and what was printed, since a movement may leave the cursor beyond the end and the next character pads |
| `ChangesAreSeen` | `ChangesAreNoted` | `Noted`, for each event: the log is as before, or the mark is set; and no event of a chunk clears it |
| `ParamsAreExact` | `[]CsiParamsExact` | `CsiInv`: while a sequence is under way, what the parser holds is what the bytes so far say (`Read`): finished parameters, the saturated value of the digits since the last separator. Saturating at each digit is saturating once (`DecimalOf`) |

`Screen_proofs` proves, for a screen of any size, a history of any length and any number of
events, under `ScreenAssumption` (the sizes are positive):

| theorem | statement | argument |
|---|---|---|
| `ScreenTypes` | `[]TypeOK` | `TypeInv`, with one lemma per operation of a grid. The invariant needs the grid that is not shown as well, since a switch brings it back as it was |
| `MainScreenComesBack` | `LeaveRestores` | `EntryInv`: while the alternate screen is shown the main one is as it was when it was left, and the saved cursor is its own if `?1049` came |
| `ScrollingStays` | `ScrollStaysInRegion` | what a scroll of any length leaves in each row, and what the limit of the history drops from its old end |
| `TheTranscript` | `[]Transcript` | `PaperInv`: until anything but text and line ends comes, the main screen is shown and its region is the whole screen; history and rows up to the cursor are the end of the paper, and the rows below are blank |
| `NothingIsLost` | `[]FullTextLosesNothing` | of every grid: the overlap dropped at the seam stands in the scrollback already; lines that occur once cannot overlap |

`ScrollUp` and `ScrollDown` tell the rows apart by membership in the region. An earlier form had
`CASE` guards that a row outside the region could satisfy two of, and so left open which row it
took; TLC, which takes the first, did not show that, the proof of `ScrollingStays` did.

`Extract_proofs` proves, for replies of any length composed of any pieces, any number of
messages, and a transcript torn at any character:

| theorem | statement | premise | argument |
|---|---|---|---|
| `ScreenYieldsLastReply` | `[]FencedReply` | none | `ScreenInv`: every message closes its last line, so that what follows cannot change where the lines of earlier ones end; what stands in a message below its last fence is prose; a target without markers only ever names them in prose, whatever is drawn or scrolls off |
| `TranscriptYieldsReply` | `[]TranscriptReply` | `WholePieces`: no half of a character | `FileInv`: the lines yield the first of the replies saved, and while the target writes, the last line tells no reply or the one saved last. A cut through it then takes that reply away or leaves it whole |
| `ScreenYieldsLastAnswer` | `[]SliceIsLastAnswer` | none | `SliceInv`: the lines of the screen end with those of the last answer, each indented (`Answered`), or with what is left of it below its last bullet (`Scrolled`), and the chrome below. `SliceYields` says what the slices of each layout make of that |
| `Unescaped` | `Unescape(Encode(t)) = t` | `t` without halves | the reading of one escape at a time (`TokenIsRead`); it rests on every escape being taken up whole |

That a text ends where its writer ended it is `ClosingIs`: what JSON writes is *sealed*
(`Sealed`), no quote of it is unescaped and none of its backslashes escapes what follows, and
this holds of every token and of what is composed of sealed parts. A cut line ends in an open
text, in a closed one or behind it (`CutWith`, `CutIs`), and `CutReply` says what each yields.
`WholePieces` is needed: `v_lone_surrogate` is a text where the escapes do not come back.

`SliceIsLastAnswer` speaks of the text of the screen, and what is drawn there is lines. That these
come back is `JoinedLines`: lines joined behind a text that ends with its last line are its further
lines. The rest tells the lines apart: no line below the answer has a bullet (`ChromeBelow`), so
that the last bullet is the answer's (`LastBulletIs`), and from there down to where the code stops
the lines, dedented, are the answer's own (`SliceBelow`, `FirstEnd`). Without a bullet left, the
slice starts below what ends it from above, and that is in the answer too (`ScrolledSlice`). The
property alone is not inductive: the next turn, or a scroll, acts on lines it says nothing about.
TLC checked `SliceInv` on the instance before it was proved. The answers are any that begin with a
line of text (`AnswerTexts`), with bullets, chrome and banners among the lines behind it.

The assumptions are `ExtractAssumption`, `BodiesDoNotOpen` and `RowsAreTrimmed`.

`Basics_proofs` holds what several of these need: least and greatest elements, parts of
sequences, what `FlattenSeq` yields, and the existence and uniqueness of a function that is
defined by recursion.

Only model-checked: all liveness (`DropReturns`, `ThreadsEnd`, `ExitsAfterTarget`,
`GroupDies`, `CallReturns`, `RunEnds`), which is out of the prover's reach.

## 5. What the code does not promise

The models have switches for environments in which a property fails; they are set so
that the property is about what the code can control. Each was checked to fail with its
switch on.

* wrapper.rs:404-406 and docs/USAGE.md:90 say without conditions that a settled marker-less reply is never
  timed out. The model has two runs of the code that do it. A hard cap below the timeout kills the
  reply before its last chance comes. Redraws that change
  nothing visible leave the screen settled, but a settle is looked at only by a poll that brings nothing, and
  redraws may leave no such poll, although screen.rs:331-334 says that such
  a screen can settle: the Ctrl+C strikes it. What holds is `SilenceNeverTimesOut`: it speaks of a target that has
  been *silent* for `idle_silence`, and of a cap that is not below the timeout, as the CLI's
  default is not (main.rs:399).
* The latch of an approval menu is a local of `wait_until_idle` (wrapper.rs:631). A menu that is
  still on the screen when the next wait starts, the reply wait after the readiness wait say, gets another
  Enter with the first chunk read there (`v_menu_twice`), although wrapper.rs:745-746 says "each
  menu exactly once". What holds is `ConfirmedOncePerWait`.
* `RemovalFails`: main.rs:680 drops the error of `remove_file`. A file that can be read but not removed, one
  in a directory that cannot be written, keeps an earlier reply, which is printed and
  turns a failure of this turn into exit 0, although main.rs:670-677 has the
  guard "Bulletproof". The comment rests on the target's being unable to write such a file either, which
  a directory without write permission does not give. `ReplyIsLastCommands` names this
  exception, and `RemovedFilesMaskNothing` proves that there is no other.
* `--cmd` and `--cmd-file` exclude each other (main.rs:294, 305, CHANGELOG.md:180, the test at main.rs:1430), although
  docs/USAGE.md:79 says that they combine. `ParsedAsGiven` takes no side: it says nothing of a line
  that has both.
* The readiness wait has no gate: a target that exits during it has `Completed` it. With a single `--cmd` under
  strict `--extract` the prompt is then never typed, nothing is printed, and the run ends with the target's
  own exit code, 0 among them, which is none of the three ways of docs/USAGE.md:236-237 in which such
  a run can end. `TransientMeansLost` has it that this is not exit 75.
* A screen that repaints a *reused* marker (`NeedleOf <- Reused` with `Tui`) once more
  than when the wait was armed completes the next wait. The CLI never reuses one.
* `SameLine`: a new question on the line of an answered one has the same commit index and
  is not answered (wrapper.rs:622-624 speaks of each distinct confirmation).
* A menu erased by one chunk and painted again by the next is confirmed again:
  to the code, and to `ConfirmedOncePerWait`, that is a new appearance.
* In line mode the prompt left by the previous command ends the next wait when the
  target is silent for `idle_silence` after the typing.
* `LateFile`: a file written after its own turn is taken for the next turn's.
* The hard cap defaults to the execution timeout (main.rs:399) and is looked at first, so
  by default expiry kills without the Ctrl+C that docs/USAGE.md:80 describes. The
  runs set the cap apart from the timeout.
* A target that exits between two commands makes the typing an error, and the output
  captured so far is not printed (compare docs/USAGE.md:70).
* With two updaters, the second may resolve the first one's backup as the running binary
  and move it away. When then a copy into the binary's place breaks off (`cutShort`; only a
  privileged install copies), nothing whole may be left, although update.rs:193-194 says that
  "the install is never left empty" and update.rs:164-165 that the user is "never left without a
  working binary".
  `NeverUnrecoverable` names this exception; nothing else leads there, whatever crashes or fails.
* An updater may leave files behind: the partial download beside the binary when it goes on
  privately, or ends for want of a private directory (update.rs:59-75), a private directory that was created but
  could not be secured (update.rs:117-120), and whatever a removal leaves whose result is dropped
  (update.rs:77-84). No property says otherwise; the model leaves these files as the code does.
* An updater compares the release with the version it was built from (`is_newer`), not with
  the one installed by then: two updaters may install two releases in either order.
* Keystroke by keystroke "\n" is typed as it is, though wrapper.rs:568-569 says that turning it
  into an Enter "matches what the jitter path emits": in an editor that submits on "\n" a command of
  several lines is submitted in parts. So may be a command that holds "\r" or a marker of a bracketed paste.
  `CommandArrives` says which styles and texts it is about.
* A fold does not look at a blank in the first column of its window, so that a word of
  exactly the width behind one is cut, although wrapper.rs:901-903 speaks of longer words only;
  `FoldFits` allows a cut in a word of the full width.
* The pause before the Enter is measured from when the body was queued, not from when the
  writer thread has delivered it; `Delivery` takes writes to arrive as they are made.
* The value of an option may look like another option, but `-h`, `--help`, `-V` and
  `--version` are looked for before (`--cmd --help` prints the help).
* Interactive mode ends when nobody holds the slave any more, not when the child is dead, and exits with
  success whatever the child's status was.
* `RestoreFails`: the error message says that the original was restored whether or
  not it was (update.rs:184-186). An updater killed between its renames leaves the
  binary in its backup only, which is why the property is `NeverUnrecoverable`.
* A tab or a cursor-forward moves *back* to `MAX_COL` when more than that was typed on
  the line; `LineBounded` therefore counts what was printed.
* Entering the alternate screen by `?47` or `?1047` and leaving it by `?1049` moves the
  cursor to wherever an earlier `?1049` saved it; and a wrap that was due is forgotten
  when the cursor is restored. `LeaveRestores` allows for both.
* Equal lines at the seam of scrollback and screen collapse (render_full says so):
  `FullTextLosesNothing` asks for the exact text of distinct lines only.
* With more than one fenced reply for a marker the screen yields the last one and the
  transcript the first. The CLI gives each command its own marker, so that this needs a
  target that answers twice.
* The parameters of a CSI sequence that never ends are kept without a limit.
* A `\u` escape behind half of a character is combined with it whatever its value: `Extract` has "garbled" for
  what comes of it. Below 0xDC00 the subtraction at extract.rs:401 wraps around in a
  release build and panics in one that checks for overflow. The panic at extract.rs:433 is taken for "no reply" by
  `ReplyOfLine`; `v_torn_line` reports it on its own.
* The structural slices are best-effort, as extract.rs says. An answer with a bullet of
  its own is cut to what follows the last one, and a line with words of a banner ends a
  claude answer. `SliceIsLastAnswer` therefore asks for the whole answer only when no line
  of it looks like chrome; it never allows another text. Once its bullet has scrolled off
  nothing is read from codex.

## 6. Not modelled

* Diagnostics (`src/diag.rs`) and errors: no state that anything reads.
* The stripper (`src/ansi/strip.rs`): the parser with a sink that keeps no state.
* The delays of `src/jitter.rs`: a generator of numbers within bounds. Time passes while
  typing in `Wrapper`; `Delivery` only tells pauses from bursts.
* Tests, examples and documentation.

`Wrapper` and `Orchestrator` take data for what the emulators and the extraction
yield: the tokens on the current line, the number of marker lines, the reply a source
yields; `Sanitizer`, `Screen` and `Extract` show on their own what these are worth.
`Wrapper` likewise has `slaveClosed` and `eof` for `PtyStream`, which `PtySession` is
proved to implement.

## 7. Plan

1. Done: every component of section 1 but diagnostics, and a theorem for every safety and
   action property of a run.
2. Larger instances of `wrapper_tui` with a third command, if the state space allows.
