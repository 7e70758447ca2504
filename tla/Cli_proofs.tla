------------------------------- MODULE Cli_proofs -------------------------------
(***************************************************************************)
(* Theorems about the updaters of Cli, for any number of them, any         *)
(* releases, and crashes and failures between any two steps; and about     *)
(* what its parser makes of any command line and environment.              *)
(***************************************************************************)
EXTENDS Cli, Basics_proofs

-----------------------------------------------------------------------------
(* The invariant.                                                          *)

\* Where an updater is while it has verified nothing, and of these the places
\* where it has staged nothing privately.
Unstaged == {"start", "check", "ask", "locate", "fetch", "private", "fetchPrivately"}
Before   == Unstaged \cup {"verify"}

\* Where it is about to install what it verified.
Vetted == {"aside", "install", "copy"}

PlacesOfUpdater == Before \cup Vetted \cup {"unlink", "restore", "cleanup", "done", "crashed"}

\* The paths a running binary may have; no other one is installed to.
Targets   == {Exe, Deleted} \cup {Backup(u) : u \in Updaters}
Downloads == {Nothing, Good, Bad}

UpdateTypes ==
    /\ files \in [Paths -> Contents]
    /\ privateDir \in [Updaters -> BOOLEAN]
    /\ privileged \in [Updaters -> BOOLEAN]
    /\ target \in [Updaters -> Targets]
    /\ verdict \in [Updaters -> {"none", "match", "mismatch", "skipped", "refused"}]
    /\ pc \in [Updaters -> PlacesOfUpdater]

\* What each updater knows of the file it has staged.
StagedInv ==
    \A u \in Updaters :
        /\ files[Beside(u)] \in Downloads
        /\ files[Private(u)] \in Downloads
        /\ pc[u] \in Before => verdict[u] = "none"
        /\ pc[u] \in Unstaged => ~privileged[u]
        /\ verdict[u] = "skipped" => Insecure
        /\ pc[u] \in Vetted => files[Staged(u)] # Bad \/ verdict[u] = "skipped"

\* A wrong download got out of the staging places only past a skipped check.
InstalledInv ==
    \A p \in Targets : files[p] = Bad => \E u \in Updaters : verdict[u] = "skipped"

UpdateInv == UpdateTypes /\ StagedInv /\ InstalledInv

\* The paths and what they may hold are different things.
LEMMA PathFacts ==
  /\ Targets \subseteq Paths
  /\ \A u \in Updaters : /\ {Beside(u), Private(u), Backup(u)} \subseteq Paths
                         /\ Beside(u) \notin Targets /\ Private(u) \notin Targets
                         /\ Beside(u) # Private(u) /\ Backup(u) \in Targets
  /\ \A u, v \in Updaters :
        /\ Beside(u) # Private(v)
        /\ u # v => Beside(u) # Beside(v) /\ Private(u) # Private(v)
  BY DEF Targets, Paths, Exe, Deleted, Backup, Beside, Private

\* Who writes its own staging places only writes to no target and to no other
\* updater's staging place.
LEMMA OwnPaths ==
  ASSUME NEW u \in Updaters, NEW f, NEW g,
         \A p \in Paths \ {Beside(u), Private(u)} : g[p] = f[p]
  PROVE  /\ \A p \in Targets : g[p] = f[p]
         /\ \A v \in Updaters \ {u} : g[Beside(v)] = f[Beside(v)] /\ g[Private(v)] = f[Private(v)]
  BY PathFacts

\* What a download leaves, the release and the binary of before are told apart.
LEMMA ContentFacts ==
  /\ Downloads \subseteq Contents /\ Old \in Contents /\ Old \notin Downloads
  /\ Bad # Nothing /\ Bad # Good /\ Good # Nothing
  /\ \A u \in Updaters : Partial(u) \in Contents /\ Partial(u) \notin Downloads
  BY DEF Downloads, Contents, Nothing, Old, Good, Bad, Partial

\* The initial state.
LEMMA UpdateInvInit == UpdateInit => UpdateInv
<1> SUFFICES ASSUME UpdateInit PROVE UpdateInv
  OBVIOUS
<1> USE PathFacts, ContentFacts DEF UpdateInit
<1>1. UpdateTypes
  <2>1. Deleted \in Targets /\ "start" \in PlacesOfUpdater
    BY DEF Targets, PlacesOfUpdater, Before, Unstaged
  <2>2. files \in [Paths -> Contents]
    BY DEF Downloads
  <2>3. QED BY <2>1, <2>2 DEF UpdateTypes
<1>2. StagedInv
  BY DEF StagedInv, Staged, Downloads, Vetted, Exe, Beside, Private, Before
<1>3. InstalledInv
  BY DEF InstalledInv, Old, Bad
<1>4. QED BY <1>1, <1>2, <1>3 DEF UpdateInv

-----------------------------------------------------------------------------
(* One step of one updater.                                                *)

\* What has to be looked at in a step of u: its own staged files, where it goes,
\* and where a wrong download may get to. The other updaters' staged files are out
\* of its reach.
LEMMA OneStep ==
  ASSUME UpdateInv, NEW u \in Updaters, NEW to \in PlacesOfUpdater,
         pc' = [pc EXCEPT ![u] = to],
         verdict' = verdict, target' \in [Updaters -> Targets],
         privateDir' \in [Updaters -> BOOLEAN], privileged' \in [Updaters -> BOOLEAN],
         files' \in [Paths -> Contents],
         \A v \in Updaters \ {u} :
            /\ privateDir'[v] = privateDir[v] /\ privileged'[v] = privileged[v]
            /\ files'[Beside(v)] = files[Beside(v)] /\ files'[Private(v)] = files[Private(v)],
         files'[Beside(u)] \in Downloads, files'[Private(u)] \in Downloads,
         to \in Before => pc[u] \in Before,
         to \in Unstaged => ~privileged'[u],
         to \in Vetted => files'[Staged(u)'] # Bad \/ verdict[u] = "skipped",
         \A p \in Targets : files'[p] = Bad =>
            (\E q \in Targets : files[q] = Bad) \/ verdict[u] = "skipped"
  PROVE  UpdateInv'
<1>0. \A v \in Updaters : pc'[v] = IF v = u THEN to ELSE pc[v]
  BY DEF UpdateInv, UpdateTypes
<1>1. UpdateTypes'
  BY DEF UpdateInv, UpdateTypes
<1>2. \A v \in Updaters \ {u} : files'[Staged(v)'] = files[Staged(v)]
  BY DEF Staged
<1>3. StagedInv'
  <2> SUFFICES ASSUME NEW v \in Updaters
               PROVE  /\ files'[Beside(v)] \in Downloads
                      /\ files'[Private(v)] \in Downloads
                      /\ pc'[v] \in Before => verdict[v] = "none"
                      /\ pc'[v] \in Unstaged => ~privileged'[v]
                      /\ verdict[v] = "skipped" => Insecure
                      /\ pc'[v] \in Vetted =>
                            files'[Staged(v)'] # Bad \/ verdict[v] = "skipped"
    BY DEF StagedInv
  <2>1. QED BY <1>0, <1>2 DEF UpdateInv, StagedInv
<1>4. InstalledInv'
  BY DEF UpdateInv, InstalledInv
<1>5. QED BY <1>1, <1>3, <1>4 DEF UpdateInv

-----------------------------------------------------------------------------
(* The steps that leave the files alone.                                   *)

\* An updater that moves on without touching a file, or a verdict, keeps the
\* invariant unless it walks past the verification.
LEMMA QuietStep ==
  ASSUME UpdateInv, NEW u \in Updaters, NEW to \in PlacesOfUpdater,
         pc' = [pc EXCEPT ![u] = to],
         UNCHANGED <<files, privileged, verdict>>,
         target' \in [Updaters -> Targets], privateDir' \in [Updaters -> BOOLEAN],
         \A v \in Updaters \ {u} : privateDir'[v] = privateDir[v],
         to \in Before => pc[u] \in Before,
         to \in Unstaged => pc[u] \in Unstaged,
         to \in Vetted => pc[u] \in Vetted
  PROVE  UpdateInv'
<1>1. /\ files' \in [Paths -> Contents] /\ privileged' \in [Updaters -> BOOLEAN]
      /\ Staged(u)' = Staged(u)
  BY DEF UpdateInv, UpdateTypes, Staged
<1>2. pc[u] \in Unstaged => ~privileged[u]
  BY DEF UpdateInv, StagedInv
<1>3. /\ files[Beside(u)] \in Downloads /\ files[Private(u)] \in Downloads
      /\ pc[u] \in Vetted => files[Staged(u)] # Bad \/ verdict[u] = "skipped"
  BY DEF UpdateInv, StagedInv
<1>4. QED BY <1>1, <1>2, <1>3, OneStep

\* The running binary is found where only a binary that was installed can be.
LEMMA RunningAtTarget == ASSUME UpdateInv PROVE RunningAt \in Targets
<1>1. ASSUME NEW p \in Paths, files[p] = Old PROVE p \in Targets
  <2>1. p \in Targets \/ \E u \in Updaters : p = Beside(u) \/ p = Private(u)
    BY DEF Targets, Paths, Exe, Deleted, Backup, Beside, Private
  <2>2. \A u \in Updaters : files[Beside(u)] # Old /\ files[Private(u)] # Old
    BY ContentFacts DEF UpdateInv, StagedInv
  <2>3. QED BY <1>1, <2>1, <2>2
<1>2. CASE \E p \in Paths : files[p] = Old
  BY <1>1, <1>2 DEF RunningAt
<1>3. CASE ~ \E p \in Paths : files[p] = Old
  BY <1>3 DEF RunningAt, Targets
<1>4. QED BY <1>2, <1>3

\* Asking for the release, finding the binary, and the failures that leave every
\* file where it is.
LEMMA QuietSteps ==
  ASSUME UpdateInv, NEW u \in Updaters,
         \/ AskRelease(u) \/ Locate(u) \/ MakePrivateDir(u) \/ MakePrivateDirFails(u)
         \/ MoveAsideFails(u) \/ InstallFails(u) \/ Crash(u)
  PROVE  UpdateInv'
<1> USE DEF Goto, PlacesOfUpdater, Before, Unstaged, Vetted
<1>0. /\ target \in [Updaters -> Targets] /\ privateDir \in [Updaters -> BOOLEAN]
      /\ pc \in [Updaters -> PlacesOfUpdater]
  BY DEF UpdateInv, UpdateTypes
<1>1. CASE AskRelease(u)
  <2>1. /\ pc[u] \in Unstaged
        /\ \E to \in {"done", "check", "ask", "locate"} : pc' = [pc EXCEPT ![u] = to]
        /\ UNCHANGED <<files, privateDir, target, privileged, verdict>>
    BY <1>1 DEF AskRelease, CmdUpdate, AskLatest, AskLatestFails
  <2>2. PICK to \in {"done", "check", "ask", "locate"} : pc' = [pc EXCEPT ![u] = to]
    BY <2>1
  <2>3. /\ to \in PlacesOfUpdater /\ to \notin Vetted
        /\ pc[u] \in Before /\ pc[u] \in Unstaged
    BY <2>1
  <2>4. QED BY <1>0, <2>1, <2>2, <2>3, QuietStep
<1>2. CASE Locate(u)
  <2>1. /\ pc[u] = "locate" /\ pc' = [pc EXCEPT ![u] = "fetch"]
        /\ target' = [target EXCEPT ![u] = RunningAt]
        /\ UNCHANGED <<files, privateDir, privileged, verdict>>
    BY <1>2 DEF Locate
  <2>2. target' \in [Updaters -> Targets]
    BY <1>0, <2>1, RunningAtTarget
  <2>3. QED BY <1>0, <2>1, <2>2, QuietStep
<1>3. CASE MakePrivateDir(u) \/ MakePrivateDirFails(u)
  <2>1. /\ pc[u] = "private"
        /\ \E to \in {"fetchPrivately", "done"} : pc' = [pc EXCEPT ![u] = to]
        /\ \E dir \in BOOLEAN : privateDir' = [privateDir EXCEPT ![u] = dir]
        /\ UNCHANGED <<files, target, privileged, verdict>>
    BY <1>3, Zenon DEF MakePrivateDir, MakePrivateDirFails
  <2>2. PICK to \in {"fetchPrivately", "done"} : pc' = [pc EXCEPT ![u] = to]
    BY <2>1
  <2>3. /\ privateDir' \in [Updaters -> BOOLEAN]
        /\ \A v \in Updaters \ {u} : privateDir'[v] = privateDir[v]
    BY <1>0, <2>1
  <2>4. QED BY <1>0, <2>1, <2>2, <2>3, QuietStep
<1>4. CASE MoveAsideFails(u)
  BY <1>0, <1>4, QuietStep DEF MoveAsideFails
<1>5. CASE InstallFails(u)
  BY <1>0, <1>5, QuietStep DEF InstallFails
<1>6. CASE Crash(u)
  BY <1>0, <1>6, QuietStep DEF Crash
<1>7. QED BY <1>1, <1>2, <1>3, <1>4, <1>5, <1>6


-----------------------------------------------------------------------------
(* The steps that change files.                                            *)

\* What UpdateInv says of one updater and of the types.
LEMMA Known ==
  ASSUME UpdateInv, NEW u \in Updaters
  PROVE  /\ files \in [Paths -> Contents]
         /\ privateDir \in [Updaters -> BOOLEAN] /\ privileged \in [Updaters -> BOOLEAN]
         /\ target \in [Updaters -> Targets] /\ target[u] \in Targets
         /\ files[Beside(u)] \in Downloads /\ files[Private(u)] \in Downloads
         /\ pc[u] \in Before => verdict[u] = "none"
         /\ pc[u] \in Unstaged => ~privileged[u]
         /\ pc[u] \in Vetted => files[Staged(u)] # Bad \/ verdict[u] = "skipped"
         /\ Staged(u) = IF privileged[u] THEN Private(u) ELSE Beside(u)
  BY DEF UpdateInv, UpdateTypes, StagedInv, Staged

\* Staging writes the updater's own staging place.
LEMMA FetchSteps ==
  ASSUME UpdateInv, NEW u \in Updaters,
         FetchBeside(u) \/ FetchBesideFails(u) \/ FetchPrivately(u) \/ FetchPrivatelyFails(u)
  PROVE  UpdateInv'
<1>0. /\ files \in [Paths -> Contents]
      /\ privateDir \in [Updaters -> BOOLEAN] /\ privileged \in [Updaters -> BOOLEAN]
      /\ target \in [Updaters -> Targets]
      /\ files[Beside(u)] \in Downloads /\ files[Private(u)] \in Downloads
      /\ pc[u] \in Unstaged => ~privileged[u]
  BY Known
<1>1. CASE FetchBeside(u) \/ FetchBesideFails(u)
  <2>1. /\ pc[u] = "fetch"
        /\ \E to \in {"verify", "private"} : pc' = [pc EXCEPT ![u] = to]
        /\ \E c \in Downloads : files' = [files EXCEPT ![Beside(u)] = c]
        /\ UNCHANGED <<privateDir, target, privileged, verdict>>
    <3>1. CASE FetchBeside(u)
      BY <3>1 DEF FetchBeside, Downloads, Goto
    <3>2. CASE FetchBesideFails(u)
      <4>1. files = [files EXCEPT ![Beside(u)] = files[Beside(u)]]
        BY <1>0
      <4>2. QED BY <1>0, <3>2, <4>1 DEF FetchBesideFails, Downloads, Goto
    <3>3. QED BY <1>1, <3>1, <3>2
  <2>2. PICK to \in {"verify", "private"} : pc' = [pc EXCEPT ![u] = to]
    BY <2>1
  <2>3. PICK c \in Downloads : files' = [files EXCEPT ![Beside(u)] = c]
    BY <2>1
  <2>4. /\ files' \in [Paths -> Contents] /\ files'[Beside(u)] \in Downloads
        /\ \A p \in Paths \ {Beside(u)} : files'[p] = files[p]
    BY <1>0, <2>3, PathFacts, ContentFacts
  <2>5. /\ \A p \in Targets : files'[p] = files[p]
        /\ \A v \in Updaters \ {u} :
              files'[Beside(v)] = files[Beside(v)] /\ files'[Private(v)] = files[Private(v)]
        /\ files'[Private(u)] = files[Private(u)]
    BY <2>4, OwnPaths, PathFacts
  <2>6. /\ to \notin Vetted /\ ~privileged[u]
        /\ to \in PlacesOfUpdater /\ pc[u] \in Before
    BY <1>0, <2>1 DEF PlacesOfUpdater, Before, Unstaged, Vetted
  <2>7. QED BY <1>0, <2>1, <2>2, <2>4, <2>5, <2>6, OneStep
<1>2. CASE FetchPrivately(u) \/ FetchPrivatelyFails(u)
  <2>1. /\ pc[u] = "fetchPrivately"
        /\ \E to \in {"verify", "done"} : pc' = [pc EXCEPT ![u] = to]
        /\ \E c \in Downloads : files' = [files EXCEPT ![Private(u)] = c]
        /\ \E root \in BOOLEAN : privileged' = [privileged EXCEPT ![u] = root]
        /\ \E dir \in BOOLEAN : privateDir' = [privateDir EXCEPT ![u] = dir]
        /\ UNCHANGED <<target, verdict>>
    <3>1. /\ files = [files EXCEPT ![Private(u)] = files[Private(u)]]
          /\ privateDir = [privateDir EXCEPT ![u] = privateDir[u]]
          /\ privileged = [privileged EXCEPT ![u] = privileged[u]]
          /\ privateDir[u] \in BOOLEAN /\ privileged[u] \in BOOLEAN
          /\ files[Private(u)] \in Downloads
      BY <1>0
    <3>2. CASE FetchPrivately(u)
      BY <3>1, <3>2, Zenon DEF FetchPrivately, Downloads, Goto
    <3>3. CASE FetchPrivatelyFails(u)
      <4>1. /\ pc[u] = "fetchPrivately" /\ pc' = [pc EXCEPT ![u] = "done"]
            /\ UNCHANGED <<target, privileged, verdict>>
        BY <3>3 DEF FetchPrivatelyFails, Goto
      <4>2. \E c \in Downloads : files' = [files EXCEPT ![Private(u)] = c]
        BY <3>1, <3>3 DEF FetchPrivatelyFails, Downloads
      <4>3. \E dir \in BOOLEAN : privateDir' = [privateDir EXCEPT ![u] = dir]
        BY <3>1, <3>3 DEF FetchPrivatelyFails
      <4>4. QED BY <3>1, <4>1, <4>2, <4>3
    <3>4. QED BY <1>2, <3>2, <3>3
  <2>2. PICK c \in Downloads : files' = [files EXCEPT ![Private(u)] = c]
    BY <2>1
  <2>3. /\ files' \in [Paths -> Contents] /\ files'[Private(u)] \in Downloads
        /\ \A p \in Paths \ {Private(u)} : files'[p] = files[p]
    BY <1>0, <2>2, PathFacts, ContentFacts
  <2>4. /\ privileged' \in [Updaters -> BOOLEAN] /\ privateDir' \in [Updaters -> BOOLEAN]
        /\ \A v \in Updaters \ {u} :
              privileged'[v] = privileged[v] /\ privateDir'[v] = privateDir[v]
    BY <1>0, <2>1
  <2>5. /\ \A p \in Targets : files'[p] = files[p]
        /\ \A v \in Updaters \ {u} :
              files'[Beside(v)] = files[Beside(v)] /\ files'[Private(v)] = files[Private(v)]
        /\ files'[Beside(u)] = files[Beside(u)]
    BY <2>3, OwnPaths, PathFacts
  <2>7. PICK to \in {"verify", "done"} : pc' = [pc EXCEPT ![u] = to]
    BY <2>1
  <2>8. /\ to \in PlacesOfUpdater /\ pc[u] \in Before
        /\ to \notin Vetted /\ to \notin Unstaged
    BY <2>1 DEF PlacesOfUpdater, Before, Unstaged, Vetted
  <2>9. /\ verdict' = verdict /\ target' \in [Updaters -> Targets]
        /\ privateDir' \in [Updaters -> BOOLEAN]
    BY <1>0, <2>1, <2>4
  <2>10. \A v \in Updaters \ {u} :
            /\ privateDir'[v] = privateDir[v] /\ privileged'[v] = privileged[v]
            /\ files'[Beside(v)] = files[Beside(v)] /\ files'[Private(v)] = files[Private(v)]
    BY <1>0, <2>1, <2>4, <2>5
  <2>11. files'[Beside(u)] \in Downloads
    BY <1>0, <2>5
  <2>12. \A p \in Targets : files'[p] = Bad =>
            (\E q \in Targets : files[q] = Bad) \/ verdict[u] = "skipped"
    BY <2>5
  <2>13. QED BY <2>3, <2>4, <2>7, <2>8, <2>9, <2>10, <2>11, <2>12, OneStep
<1>3. QED BY <1>1, <1>2

\* The verdict stands for what was staged: only a match or a skipped check goes on.
LEMMA VerifyStep ==
  ASSUME UpdateInv, NEW u \in Updaters, VerifyChecksum(u)
  PROVE  UpdateInv'
<1>1. PICK v \in Verdicts(files[Staged(u)]) :
         /\ verdict' = [verdict EXCEPT ![u] = v]
         /\ \/ v \in {"match", "skipped"} /\ Goto(u, "verify", "aside")
            \/ Goto(u, "verify", "cleanup")
  BY DEF VerifyChecksum
<1>2. /\ pc[u] = "verify" /\ verdict[u] = "none"
      /\ UNCHANGED <<files, privateDir, target, privileged>>
  BY <1>1, Known DEF VerifyChecksum, Goto, Before
<1>3. PICK to \in {"aside", "cleanup"} :
         pc' = [pc EXCEPT ![u] = to] /\ (to = "aside" => v \in {"match", "skipped"})
  BY <1>1 DEF Goto
<1>4. /\ v \in {"match", "mismatch", "skipped", "refused"}
      /\ v = "match" => files[Staged(u)] # Bad
      /\ v = "skipped" => Insecure
  BY ContentFacts DEF Verdicts
<1>5. \A w \in Updaters : /\ pc'[w] = IF w = u THEN to ELSE pc[w]
                          /\ verdict'[w] = IF w = u THEN v ELSE verdict[w]
  BY <1>1, <1>3 DEF UpdateInv, UpdateTypes
<1>6. UpdateTypes'
  BY <1>1, <1>2, <1>3, <1>4 DEF UpdateInv, UpdateTypes, PlacesOfUpdater, Vetted
<1>7. StagedInv'
  <2> SUFFICES ASSUME NEW w \in Updaters
               PROVE  /\ files[Beside(w)] \in Downloads
                      /\ files[Private(w)] \in Downloads
                      /\ pc'[w] \in Before => verdict'[w] = "none"
                      /\ pc'[w] \in Unstaged => ~privileged[w]
                      /\ verdict'[w] = "skipped" => Insecure
                      /\ pc'[w] \in Vetted => files[Staged(w)] # Bad \/ verdict'[w] = "skipped"
    BY <1>2 DEF StagedInv, Staged
  <2>1. CASE w = u
    <3>1. pc'[u] \notin Before /\ pc'[u] \notin Unstaged
      BY <1>3, <1>5 DEF Before, Unstaged
    <3>2. pc'[u] \in Vetted => v \in {"match", "skipped"}
      BY <1>3, <1>5 DEF Vetted
    <3>3. QED BY <2>1, <3>1, <3>2, <1>4, <1>5, Known
  <2>2. CASE w # u
    BY <2>2, <1>5, Known DEF UpdateInv, StagedInv
  <2>3. QED BY <2>1, <2>2
<1>8. InstalledInv'
  <2>1. \A w \in Updaters : verdict[w] = "skipped" => verdict'[w] = "skipped"
    BY <1>2, <1>5
  <2>2. QED BY <1>2, <2>1 DEF UpdateInv, InstalledInv
<1>9. QED BY <1>6, <1>7, <1>8 DEF UpdateInv

\* A step of the replacement: it moves to and from targets and takes away what u
\* itself has staged.
LEMMA ReplaceStep ==
  ASSUME UpdateInv, NEW u \in Updaters, NEW to \in PlacesOfUpdater \ Before,
         pc' = [pc EXCEPT ![u] = to],
         UNCHANGED <<target, privileged, verdict>>,
         privateDir' \in [Updaters -> BOOLEAN], files' \in [Paths -> Contents],
         \A v \in Updaters \ {u} : privateDir'[v] = privateDir[v],
         \A v \in Updaters \ {u} : /\ files'[Beside(v)] = files[Beside(v)]
                                   /\ files'[Private(v)] = files[Private(v)],
         \/ files'[Beside(u)] = files[Beside(u)]
         \/ Staged(u) = Beside(u) /\ files'[Beside(u)] = Nothing,
         \/ files'[Private(u)] = files[Private(u)]
         \/ Staged(u) = Private(u) /\ files'[Private(u)] = Nothing,
         to \in Vetted => pc[u] \in Vetted /\ files'[Staged(u)] = files[Staged(u)],
         \A p \in Targets : files'[p] = Bad =>
            (\E q \in Targets : files[q] = Bad) \/ verdict[u] = "skipped"
  PROVE  UpdateInv'
<1>1. /\ to \in PlacesOfUpdater /\ to \notin Before /\ to \notin Unstaged
      /\ verdict' = verdict /\ target' \in [Updaters -> Targets]
      /\ privileged' = privileged /\ privileged' \in [Updaters -> BOOLEAN]
      /\ Staged(u)' = Staged(u)
  BY Known DEF Before, Staged
<1>2. /\ Staged(u) = IF privileged[u] THEN Private(u) ELSE Beside(u)
      /\ files[Beside(u)] \in Downloads /\ files[Private(u)] \in Downloads
      /\ pc[u] \in Vetted => files[Staged(u)] # Bad \/ verdict[u] = "skipped"
  BY Known
<1>3. \A v \in Updaters \ {u} :
        /\ privateDir'[v] = privateDir[v] /\ privileged'[v] = privileged[v]
        /\ files'[Beside(v)] = files[Beside(v)] /\ files'[Private(v)] = files[Private(v)]
  BY <1>1
<1>4. /\ files'[Beside(u)] \in {files[Beside(u)], Nothing}
      /\ files'[Private(u)] \in {files[Private(u)], Nothing}
      /\ Nothing \in Downloads
  BY <1>2 DEF Downloads
<1>5. /\ files'[Beside(u)] \in Downloads /\ files'[Private(u)] \in Downloads
  BY <1>1, <1>2, <1>4
<1>6. to \in Vetted => files'[Staged(u)'] # Bad \/ verdict[u] = "skipped"
  BY <1>1, <1>2
<1>7. QED BY <1>1, <1>3, <1>5, <1>6, OneStep

\* Renames within the targets leave every staging place alone and carry a wrong
\* download nowhere it did not already come from.
LEMMA TargetMoves ==
  ASSUME UpdateInv, NEW u \in Updaters, NEW from \in Targets, NEW to \in Targets,
         Move(from, to)
  PROVE  /\ files' \in [Paths -> Contents]
         /\ \A v \in Updaters : /\ files'[Beside(v)] = files[Beside(v)]
                                /\ files'[Private(v)] = files[Private(v)]
         /\ \A p \in Targets : files'[p] = Bad => \E q \in Targets : files[q] = Bad
<1>1. /\ files \in [Paths -> Contents] /\ from \in Paths /\ to \in Paths
      /\ Nothing \in Contents
  BY Known, PathFacts, ContentFacts DEF Downloads
<1>2. files' = [files EXCEPT ![to] = files[from], ![from] = Nothing]
  BY DEF Move
<1>3. files' \in [Paths -> Contents]
  BY <1>1, <1>2
<1>4. \A p \in Paths : files'[p] = IF p = from THEN Nothing
                                   ELSE IF p = to THEN files[from] ELSE files[p]
  BY <1>1, <1>2
<1>5. QED BY <1>3, <1>4, PathFacts, ContentFacts

\* The steps of the replacement within the targets.
LEMMA AsideSteps ==
  ASSUME UpdateInv, NEW u \in Updaters,
         MoveAside(u) \/ Restore(u) \/ RemoveBackup(u) \/ InstallCopies(u)
  PROVE  UpdateInv'
<1> DEFINE Places == {"install", "cleanup", "copy"}
<1>0. /\ files \in [Paths -> Contents] /\ privateDir \in [Updaters -> BOOLEAN]
      /\ target[u] \in Targets /\ Backup(u) \in Targets /\ Backup(u) \in Paths
      /\ target[u] \in Paths /\ Nothing \in Contents
  BY Known, PathFacts, ContentFacts DEF Downloads
<1>1. /\ UNCHANGED <<privateDir, target, privileged, verdict>>
      /\ \E to \in Places : /\ pc' = [pc EXCEPT ![u] = to]
                            /\ to \in Vetted => pc[u] \in Vetted
      /\ \/ Move(target[u], Backup(u)) \/ Move(Backup(u), target[u])
         \/ UNCHANGED files
         \/ \E p \in Targets, c \in {Nothing, Partial(u)} : files' = [files EXCEPT ![p] = c]
  <2>1. CASE MoveAside(u)
    BY <2>1 DEF MoveAside, Goto, Vetted
  <2>2. CASE Restore(u)
    BY <2>2 DEF Restore, Goto, Vetted
  <2>3. CASE RemoveBackup(u)
    BY <1>0, <2>3 DEF RemoveBackup, Goto, Vetted
  <2>4. CASE InstallCopies(u)
    BY <1>0, <2>4 DEF InstallCopies, Goto, Vetted
  <2>5. QED BY <2>1, <2>2, <2>3, <2>4
<1>2. /\ files' \in [Paths -> Contents]
      /\ \A v \in Updaters : /\ files'[Beside(v)] = files[Beside(v)]
                             /\ files'[Private(v)] = files[Private(v)]
      /\ \A p \in Targets : files'[p] = Bad => \E q \in Targets : files[q] = Bad
  <2>1. CASE Move(target[u], Backup(u)) \/ Move(Backup(u), target[u])
    BY <1>0, <2>1, TargetMoves
  <2>2. CASE UNCHANGED files
    BY <1>0, <2>2
  <2>3. ASSUME NEW p \in Targets, NEW c \in {Nothing, Partial(u)},
               files' = [files EXCEPT ![p] = c]
        PROVE  <1>2
    <3>1. c \in Contents /\ c # Bad
      BY <1>0, ContentFacts DEF Downloads
    <3>2. \A q \in Paths : files'[q] = IF q = p THEN c ELSE files[q]
      BY <1>0, <2>3
    <3>3. files' \in [Paths -> Contents]
      BY <1>0, <2>3, <3>1
    <3>4. QED BY <3>1, <3>2, <3>3, PathFacts
  <2>4. QED BY <1>1, <2>1, <2>2, <2>3
<1>3. PICK to \in Places :
         pc' = [pc EXCEPT ![u] = to] /\ (to \in Vetted => pc[u] \in Vetted)
  BY <1>1
<1>4. to \in PlacesOfUpdater \ Before
  BY DEF PlacesOfUpdater, Before, Unstaged, Vetted
<1>5. files'[Staged(u)] = files[Staged(u)]
  BY <1>2, Known
<1>6. files'[Beside(u)] = files[Beside(u)] /\ files'[Private(u)] = files[Private(u)]
  BY <1>2
<1>7. to \in Vetted => pc[u] \in Vetted /\ files'[Staged(u)] = files[Staged(u)]
  BY <1>3, <1>5
<1>8. /\ \A v \in Updaters \ {u} : /\ files'[Beside(v)] = files[Beside(v)]
                                   /\ files'[Private(v)] = files[Private(v)]
      /\ \A v \in Updaters \ {u} : privateDir'[v] = privateDir[v]
      /\ privateDir' \in [Updaters -> BOOLEAN] /\ files' \in [Paths -> Contents]
      /\ UNCHANGED <<target, privileged, verdict>>
  BY <1>0, <1>1, <1>2
<1>9. QED BY <1>2, <1>3, <1>4, <1>6, <1>7, <1>8, ReplaceStep

\* The steps that take the staged file away.
LEMMA UnstageSteps ==
  ASSUME UpdateInv, NEW u \in Updaters,
         Install(u) \/ InstallCopied(u) \/ Cleanup(u)
  PROVE  UpdateInv'
<1>0. /\ files \in [Paths -> Contents] /\ privateDir \in [Updaters -> BOOLEAN]
      /\ target[u] \in Targets /\ target[u] \in Paths
      /\ Nothing \in Contents
      /\ \A v \in Updaters : /\ files[Beside(v)] \in Contents /\ files[Beside(v)] # Partial(u)
                             /\ files[Private(v)] \in Contents /\ files[Private(v)] # Partial(u)
      /\ Staged(u) = IF privileged[u] THEN Private(u) ELSE Beside(u)
  BY Known, PathFacts, ContentFacts DEF Downloads
<1>1. /\ Staged(u) \in Paths /\ Staged(u) \notin Targets /\ files[Staged(u)] \in Contents
      /\ Staged(u) \in {Beside(u), Private(u)}
  BY <1>0, PathFacts
<1>2. CASE Install(u) \/ InstallCopied(u)
  <2>1. /\ pc[u] \in Vetted /\ pc' = [pc EXCEPT ![u] = "unlink"]
        /\ UNCHANGED <<privateDir, target, privileged, verdict>>
    BY <1>2 DEF Install, InstallCopied, Goto, Vetted
  <2>2. /\ files' \in [Paths -> Contents]
        /\ files'[Staged(u)] = Nothing
        /\ \A p \in Paths \ {Staged(u)} : files'[p] \in {files[p], files[Staged(u)]}
        /\ \A v \in Updaters : \A p \in {Beside(v), Private(v)} \ {Staged(u)} :
              files'[p] = files[p]
    <3>1. CASE Install(u)
      <4>1. files' = [files EXCEPT ![target[u]] = files[Staged(u)], ![Staged(u)] = Nothing]
        BY <3>1 DEF Install, Move
      <4>2. files' \in [Paths -> Contents]
        BY <1>0, <1>1, <4>1
      <4>3. \A p \in Paths : files'[p] = IF p = Staged(u) THEN Nothing
                                 ELSE IF p = target[u] THEN files[Staged(u)] ELSE files[p]
        BY <1>0, <1>1, <4>1
      <4>4. QED BY <1>0, <1>1, <4>2, <4>3, PathFacts
    <3>2. CASE InstallCopied(u)
      <4>1. files' = [p \in Paths |->
                        IF p = Staged(u) THEN Nothing
                        ELSE IF files[p] = Partial(u) THEN files[Staged(u)] ELSE files[p]]
        BY <3>2 DEF InstallCopied
      <4>2. files' \in [Paths -> Contents]
        BY <1>0, <1>1, <4>1
      <4>3. QED BY <1>0, <1>1, <4>1, <4>2, PathFacts
    <3>3. QED BY <1>2, <3>1, <3>2
  <2>3. "unlink" \in PlacesOfUpdater \ Before /\ "unlink" \notin Vetted
    BY DEF PlacesOfUpdater, Before, Unstaged, Vetted
  <2>4. \A p \in Targets : files'[p] = Bad =>
           (\E q \in Targets : files[q] = Bad) \/ verdict[u] = "skipped"
    <3>1. files[Staged(u)] = Bad => verdict[u] = "skipped"
      BY <2>1, Known
    <3>2. QED BY <1>1, <2>2, <3>1, PathFacts
  <2>5. \A v \in Updaters \ {u} : files'[Beside(v)] = files[Beside(v)]
                                  /\ files'[Private(v)] = files[Private(v)]
    BY <1>1, <2>2, PathFacts
  <2>6. /\ \/ files'[Beside(u)] = files[Beside(u)]
           \/ Staged(u) = Beside(u) /\ files'[Beside(u)] = Nothing
        /\ \/ files'[Private(u)] = files[Private(u)]
           \/ Staged(u) = Private(u) /\ files'[Private(u)] = Nothing
    BY <2>2
  <2>7. QED BY <1>0, <2>1, <2>2, <2>3, <2>4, <2>5, <2>6, ReplaceStep
<1>3. CASE Cleanup(u)
  <2>1. /\ pc' = [pc EXCEPT ![u] = "done"]
        /\ files' \in {files, [files EXCEPT ![Staged(u)] = Nothing]}
        /\ privateDir' \in {privateDir, [privateDir EXCEPT ![u] = FALSE]}
        /\ UNCHANGED <<target, privileged, verdict>>
    BY <1>3 DEF Cleanup, Goto
  <2>2. /\ files' \in [Paths -> Contents]
        /\ files'[Staged(u)] \in {files[Staged(u)], Nothing}
        /\ \A p \in Paths \ {Staged(u)} : files'[p] = files[p]
    BY <1>0, <1>1, <2>1
  <2>3. /\ privateDir' \in [Updaters -> BOOLEAN]
        /\ \A v \in Updaters \ {u} : privateDir'[v] = privateDir[v]
    BY <1>0, <2>1
  <2>4. PICK to \in {"done"} : /\ pc' = [pc EXCEPT ![u] = to]
                               /\ to \in PlacesOfUpdater \ Before /\ to \notin Vetted
    BY <2>1 DEF PlacesOfUpdater, Before, Unstaged, Vetted
  <2>5. \A p \in Targets : files'[p] = files[p]
    BY <1>1, <2>2, PathFacts
  <2>6. \A v \in Updaters \ {u} : files'[Beside(v)] = files[Beside(v)]
                                  /\ files'[Private(v)] = files[Private(v)]
    BY <1>1, <2>2, PathFacts
  <2>7. /\ \/ files'[Beside(u)] = files[Beside(u)]
           \/ Staged(u) = Beside(u) /\ files'[Beside(u)] = Nothing
        /\ \/ files'[Private(u)] = files[Private(u)]
           \/ Staged(u) = Private(u) /\ files'[Private(u)] = Nothing
    BY <2>2, PathFacts
  <2>9. \A p \in Targets : files'[p] = Bad =>
           (\E q \in Targets : files[q] = Bad) \/ verdict[u] = "skipped"
    BY <2>5
  <2>10. QED BY <2>1, <2>2, <2>3, <2>4, <2>6, <2>7, <2>9, ReplaceStep
<1>4. QED BY <1>2, <1>3

-----------------------------------------------------------------------------
(* A whole binary can always be found.                                     *)

\* Where an updater is between taking the binary away and being done with it; of
\* these, where it has left the place of the binary empty; and who is copying.
Replacing  == {"install", "copy", "restore", "unlink"}
Vacated(u) == pc[u] \in {"install", "restore"}
Copying    == {u \in Updaters : pc[u] = "copy"}

\* What an updater installs is a download that arrived.
ArrivedInv ==
    \A u \in Updaters : pc[u] \in Vetted \cup {"verify"} => files[Staged(u)] \in {Good, Bad}

\* An updater has a backup only once it has moved the binary aside, and another one
\* may take it for the running binary only then.
BackupInv ==
    /\ movedAside \subseteq Updaters
    /\ \A u \in Updaters :
        /\ pc[u] \in Before \cup {"aside"} => u \notin movedAside
        /\ pc[u] \in Replacing => u \in movedAside
        /\ target[u] # Backup(u)
        /\ u \notin movedAside => /\ files[Backup(u)] = Nothing
                                  /\ \A v \in Updaters : target[v] # Backup(u)

\* Before anyone has moved the binary it is where it was; the first one to move it
\* keeps a whole one in its place or in its backup.
LoneInv ==
    /\ movedAside = {} => /\ files[Exe] = Old
                          /\ \A p \in Targets \ {Exe} : files[p] = Nothing
                          /\ \A u \in Updaters : target[u] \in {Exe, Deleted}
    /\ \A u \in Updaters : movedAside = {u} =>
          /\ target[u] = Exe
          /\ Works(Exe) \/ Works(Backup(u))
          /\ pc[u] \in {"install", "copy", "restore"} => Works(Backup(u))
          /\ pc[u] = "copy" => files[Exe] = Partial(u)
          /\ pc[u] = "unlink" => Works(Exe)

\* A place is emptied by one updater at a time, and stays empty until that one has
\* filled it or given up.
SlotInv ==
    \A u \in Updaters : Vacated(u) =>
        /\ files[target[u]] = Nothing
        /\ \A v \in Updaters \ {u} : Vacated(v) => target[v] # target[u]

\* X holds the installed binary's place and the backup of every place it holds,
\* but not the backups that are about to be removed: those of the updaters in D as well.
Closed(X, D) ==
    /\ X \subseteq Targets /\ Exe \in X
    /\ \A u \in movedAside \ D : pc[u] # "unlink" /\ target[u] \in X => Backup(u) \in X

\* Whole, or becoming so by a copy under way.
Kept(p, D) == Works(p) \/ \E u \in D : files[p] = Partial(u)

\* Whichever of the copies under way, D, come to their end and whichever backups are
\* removed then: a whole binary is left, and in a place to be found.
KeptInv ==
    \A X \in SUBSET Targets, D \in SUBSET Copying :
        Closed(X, D) => \E p \in X : Kept(p, D)

RecoveryInv ==
    /\ ArrivedInv /\ BackupInv /\ LoneInv
    /\ cutShort = {} => SlotInv /\ KeptInv

\* What a step of u does to the places a binary is installed to.
On(p, c) == \A q \in Targets : files'[q] = IF q = p THEN c ELSE files[q]
Moves(from, to) ==
    /\ files[from] # Nothing
    /\ \A q \in Targets : files'[q] = IF q = from THEN Nothing
                                      ELSE IF q = to THEN files[from] ELSE files[q]
Leaves == \A q \in Targets : files'[q] = files[q]

Idles(u) ==
    /\ Leaves /\ UNCHANGED ghostVars
    /\ \E to \in PlacesOfUpdater \ Replacing :
          /\ pc' = [pc EXCEPT ![u] = to]
          /\ to \in Before \cup {"aside"} => pc[u] \in Before \cup {"aside"}
    /\ \/ UNCHANGED target
       \/ pc[u] = "locate" /\ target' = [target EXCEPT ![u] = RunningAt]
TakesAside(u) ==
    /\ Goto(u, "aside", "install") /\ Moves(target[u], Backup(u))
    /\ movedAside' = movedAside \cup {u} /\ UNCHANGED <<target, cutShort>>
PutsIn(u) ==
    /\ Goto(u, "install", "unlink") /\ \E c \in {Good, Bad} : On(target[u], c)
    /\ UNCHANGED <<target, ghostVars>>
BeginsCopy(u) ==
    /\ Goto(u, "install", "copy") /\ On(target[u], Partial(u))
    /\ UNCHANGED <<target, ghostVars>>
EndsCopy(u) ==
    /\ Goto(u, "copy", "unlink")
    /\ \E c \in {Good, Bad} : \A q \in Targets :
          files'[q] = IF files[q] = Partial(u) THEN c ELSE files[q]
    /\ UNCHANGED <<target, ghostVars>>
GivesUp(u) ==
    /\ Leaves /\ UNCHANGED <<target, movedAside>>
    /\ \/ Goto(u, "install", "restore") /\ UNCHANGED cutShort
       \/ Goto(u, "copy", "restore") /\ cutShort' = cutShort \cup {u}
PutsBack(u) ==
    /\ Goto(u, "restore", "cleanup") /\ Moves(Backup(u), target[u])
    /\ UNCHANGED <<target, ghostVars>>
DropsBackup(u) ==
    /\ Goto(u, "unlink", "cleanup") /\ On(Backup(u), Nothing)
    /\ UNCHANGED <<target, ghostVars>>

\* Any step of u.
Step(u) ==
    \/ Idles(u) \/ TakesAside(u) \/ PutsIn(u) \/ BeginsCopy(u) \/ EndsCopy(u)
    \/ GivesUp(u) \/ PutsBack(u) \/ DropsBackup(u)

\* Every step of the code is one of these.
LEMMA StepKinds ==
  ASSUME UpdateInv, ArrivedInv, NEW u \in Updaters, RunUpdate(u) \/ Crash(u)
  PROVE  Step(u)
<1> USE DEF Goto, ghostVars, Step
<1>0. /\ files \in [Paths -> Contents] /\ target[u] \in Targets /\ target[u] \in Paths
      /\ Backup(u) \in Targets /\ Backup(u) \in Paths /\ Targets \subseteq Paths
      /\ Beside(u) \in Paths \ Targets /\ Private(u) \in Paths \ Targets
      /\ Staged(u) \in Paths \ Targets
      /\ pc \in [Updaters -> PlacesOfUpdater]
  BY Known, PathFacts DEF UpdateInv, UpdateTypes
<1>1. CASE AskRelease(u)
  <2>1. /\ pc[u] \in Unstaged /\ UNCHANGED <<files, target, ghostVars>>
        /\ \E to \in {"done", "check", "ask", "locate"} : pc' = [pc EXCEPT ![u] = to]
    BY <1>1 DEF AskRelease, CmdUpdate, AskLatest, AskLatestFails, Unstaged
  <2>2. QED BY <1>0, <2>1 DEF Idles, Leaves, PlacesOfUpdater, Before, Unstaged, Replacing
<1>2. CASE Stage(u)
  <2>1. /\ pc[u] \in Unstaged /\ UNCHANGED ghostVars
        /\ \E to \in {"fetch", "verify", "private", "fetchPrivately", "done"} :
              pc' = [pc EXCEPT ![u] = to]
        /\ \/ UNCHANGED target
           \/ pc[u] = "locate" /\ target' = [target EXCEPT ![u] = RunningAt]
    BY <1>2 DEF Stage, Locate, FetchBeside, FetchBesideFails, MakePrivateDir,
                MakePrivateDirFails, FetchPrivately, FetchPrivatelyFails, Unstaged
  <2>2. \/ UNCHANGED files
        \/ \E c : files' = [files EXCEPT ![Beside(u)] = c]
        \/ \E c : files' = [files EXCEPT ![Private(u)] = c]
    BY <1>2 DEF Stage, Locate, FetchBeside, FetchBesideFails, MakePrivateDir,
                MakePrivateDirFails, FetchPrivately, FetchPrivatelyFails
  <2>3. Leaves
    BY <1>0, <2>2 DEF Leaves
  <2>4. QED BY <2>1, <2>3 DEF Idles, PlacesOfUpdater, Before, Unstaged, Replacing
<1>3. CASE VerifyChecksum(u) \/ MoveAsideFails(u) \/ Crash(u)
  <2>1. /\ UNCHANGED <<files, target, ghostVars>>
        /\ \/ pc[u] = "verify" /\ pc' = [pc EXCEPT ![u] = "aside"]
           \/ pc' = [pc EXCEPT ![u] = "cleanup"]
           \/ pc' = [pc EXCEPT ![u] = "crashed"]
    BY <1>3 DEF VerifyChecksum, MoveAsideFails, Crash
  <2>2. QED BY <2>1
            DEF Idles, Leaves, PlacesOfUpdater, Before, Unstaged, Vetted, Replacing
<1>4. CASE Cleanup(u)
  <2>1. /\ files' \in {files, [files EXCEPT ![Staged(u)] = Nothing]}
        /\ pc' = [pc EXCEPT ![u] = "done"] /\ UNCHANGED <<target, ghostVars>>
    BY <1>4 DEF Cleanup
  <2>2. Leaves
    BY <1>0, <2>1 DEF Leaves
  <2>3. "done" \in PlacesOfUpdater \ Replacing /\ "done" \notin Before \cup {"aside"}
    BY DEF PlacesOfUpdater, Before, Unstaged, Vetted, Replacing
  <2>4. QED BY <2>1, <2>2, <2>3 DEF Idles
<1>5. CASE MoveAside(u)
  <2>1. /\ files[target[u]] # Nothing
        /\ files' = [files EXCEPT ![Backup(u)] = files[target[u]], ![target[u]] = Nothing]
    BY <1>5 DEF MoveAside, Move
  <2>2. Moves(target[u], Backup(u))
    BY <1>0, <2>1 DEF Moves
  <2>3. QED BY <1>5, <2>2 DEF MoveAside, TakesAside
<1>6. CASE Install(u)
  <2>1. files' = [files EXCEPT ![target[u]] = files[Staged(u)], ![Staged(u)] = Nothing]
    BY <1>6 DEF Install, Move
  <2>2. On(target[u], files[Staged(u)])
    BY <1>0, <2>1 DEF On
  <2>3. files[Staged(u)] \in {Good, Bad}
    BY <1>6 DEF Install, ArrivedInv, Vetted
  <2>4. QED BY <1>6, <2>2, <2>3 DEF Install, PutsIn
<1>7. CASE InstallCopies(u)
  <2>1. On(target[u], Partial(u))
    BY <1>0, <1>7 DEF InstallCopies, On
  <2>2. QED BY <1>7, <2>1 DEF InstallCopies, BeginsCopy
<1>8. CASE InstallCopied(u)
  <2>1. \A q \in Targets : files'[q] = IF files[q] = Partial(u) THEN files[Staged(u)]
                                       ELSE files[q]
    BY <1>0, <1>8 DEF InstallCopied
  <2>2. files[Staged(u)] \in {Good, Bad}
    BY <1>8 DEF InstallCopied, ArrivedInv, Vetted
  <2>3. QED BY <1>8, <2>1, <2>2 DEF InstallCopied, EndsCopy
<1>9. CASE InstallFails(u)
  BY <1>9 DEF InstallFails, GivesUp, Leaves
<1>10. CASE Restore(u)
  <2>1. CASE Move(Backup(u), target[u])
    <3>1. Moves(Backup(u), target[u])
      BY <1>0, <2>1 DEF Move, Moves
    <3>2. QED BY <1>10, <3>1 DEF Restore, PutsBack
  <2>2. CASE UNCHANGED files
    <3>1. "cleanup" \in PlacesOfUpdater \ Replacing /\ "cleanup" \notin Before \cup {"aside"}
      BY DEF PlacesOfUpdater, Before, Unstaged, Vetted, Replacing
    <3>2. /\ pc' = [pc EXCEPT ![u] = "cleanup"] /\ UNCHANGED <<target, ghostVars>>
      BY <1>10 DEF Restore
    <3>3. QED BY <2>2, <3>1, <3>2 DEF Idles, Leaves
  <2>3. QED BY <1>10, <2>1, <2>2 DEF Restore
<1>11. CASE RemoveBackup(u)
  <2>1. CASE files' = [files EXCEPT ![Backup(u)] = Nothing]
    <3>1. On(Backup(u), Nothing)
      BY <1>0, <2>1 DEF On
    <3>2. QED BY <1>11, <3>1 DEF RemoveBackup, DropsBackup
  <2>2. CASE UNCHANGED files
    <3>1. "cleanup" \in PlacesOfUpdater \ Replacing /\ "cleanup" \notin Before \cup {"aside"}
      BY DEF PlacesOfUpdater, Before, Unstaged, Vetted, Replacing
    <3>2. /\ pc' = [pc EXCEPT ![u] = "cleanup"] /\ UNCHANGED <<target, ghostVars>>
      BY <1>11 DEF RemoveBackup
    <3>3. QED BY <2>2, <3>1, <3>2 DEF Idles, Leaves
  <2>3. QED BY <1>11, <2>1, <2>2 DEF RemoveBackup
<1>12. QED
  BY <1>1, <1>2, <1>3, <1>4, <1>5, <1>6, <1>7, <1>8, <1>9, <1>10, <1>11
     DEF RunUpdate, Replace

\* A staged download is neither lost nor replaced before it is installed.
LEMMA ArrivedStep ==
  ASSUME UpdateInv, ArrivedInv, NEW u \in Updaters, RunUpdate(u) \/ Crash(u)
  PROVE  ArrivedInv'
<1> USE DEF Goto
<1> DEFINE Others == Paths \ (Targets \cup {Beside(u), Private(u)})
<1>0. /\ files \in [Paths -> Contents] /\ target[u] \in Targets /\ Targets \subseteq Paths
      /\ Backup(u) \in Targets /\ privileged \in [Updaters -> BOOLEAN]
      /\ pc \in [Updaters -> PlacesOfUpdater]
      /\ Staged(u) \in {Beside(u), Private(u)}
      /\ {Beside(u), Private(u)} \subseteq Paths \ Targets
  BY Known, PathFacts DEF UpdateInv, UpdateTypes
<1>1. \A v \in Updaters \ {u} : files'[Staged(v)'] = files[Staged(v)] /\ pc'[v] = pc[v]
  <2>1. \A v \in Updaters \ {u} : pc'[v] = pc[v] /\ privileged'[v] = privileged[v]
    BY <1>0 DEF RunUpdate, AskRelease, CmdUpdate, AskLatest, AskLatestFails, Stage, Locate,
       FetchBeside, FetchBesideFails, MakePrivateDir, MakePrivateDirFails, FetchPrivately,
       FetchPrivatelyFails, VerifyChecksum, Replace, MoveAside, MoveAsideFails, Install,
       InstallCopies, InstallCopied, InstallFails, Restore, RemoveBackup, Cleanup, Crash
  <2>2. CASE ~InstallCopied(u)
    <3>1. \/ UNCHANGED files
          \/ \E p \in {Beside(u), Private(u), Backup(u), target[u]} : \E c :
                files' = [files EXCEPT ![p] = c]
          \/ \E p, q \in {Beside(u), Private(u), Backup(u), target[u]} : \E c :
                files' = [files EXCEPT ![p] = c, ![q] = Nothing]
      <4>1. CASE AskRelease(u)
        BY <4>1 DEF AskRelease, CmdUpdate, AskLatest, AskLatestFails
      <4>2. CASE Stage(u)
        BY <4>2 DEF Stage, Locate, FetchBeside, FetchBesideFails, MakePrivateDir,
                MakePrivateDirFails, FetchPrivately, FetchPrivatelyFails
      <4>3. CASE VerifyChecksum(u) \/ Crash(u) \/ MoveAsideFails(u) \/ InstallFails(u)
        BY <4>3 DEF VerifyChecksum, Crash, MoveAsideFails, InstallFails
      <4>4. CASE MoveAside(u) \/ Install(u) \/ Restore(u)
        BY <1>0, <4>4 DEF MoveAside, Install, Restore, Move
      <4>5. CASE InstallCopies(u) \/ RemoveBackup(u) \/ Cleanup(u)
        BY <1>0, <4>5 DEF InstallCopies, RemoveBackup, Cleanup
      <4>6. QED BY <2>2, <4>1, <4>2, <4>3, <4>4, <4>5 DEF RunUpdate, Replace
    <3>2. \A p \in Others : files'[p] = files[p]
      BY <1>0, <3>1
    <3>3. \A v \in Updaters \ {u} : Beside(v) \in Others /\ Private(v) \in Others
      BY PathFacts
    <3>4. QED BY <2>1, <3>2, <3>3 DEF Staged
  <2>3. CASE InstallCopied(u)
    <3>1. \A v \in Updaters \ {u} :
             /\ {Beside(v), Private(v)} \subseteq Paths /\ Staged(u) \notin {Beside(v), Private(v)}
             /\ files[Beside(v)] # Partial(u) /\ files[Private(v)] # Partial(u)
      BY <1>0, PathFacts, ContentFacts, Known
    <3>2. \A v \in Updaters \ {u} : /\ files'[Beside(v)] = files[Beside(v)]
                                    /\ files'[Private(v)] = files[Private(v)]
      BY <2>3, <3>1 DEF InstallCopied
    <3>3. QED BY <2>1, <3>2 DEF Staged
  <2>4. QED BY <2>1, <2>2, <2>3
<1>2. pc'[u] \in Vetted \cup {"verify"} => files'[Staged(u)'] \in {Good, Bad}
  <2>1. CASE FetchBeside(u)
    <3>1. ~privileged'[u] /\ \E d \in {Good, Bad} : files' = [files EXCEPT ![Beside(u)] = d]
      BY <2>1, Known DEF FetchBeside, Unstaged
    <3>2. Staged(u)' = Beside(u)
      BY <3>1 DEF Staged
    <3>3. QED BY <1>0, <3>1, <3>2
  <2>2. CASE FetchPrivately(u)
    <3>1. privileged'[u] /\ \E d \in {Good, Bad} : files' = [files EXCEPT ![Private(u)] = d]
      BY <1>0, <2>2 DEF FetchPrivately
    <3>2. Staged(u)' = Private(u)
      BY <3>1 DEF Staged
    <3>3. QED BY <1>0, <3>1, <3>2
  <2>3. CASE VerifyChecksum(u) \/ MoveAside(u) \/ InstallCopies(u)
    <3>1. /\ pc[u] \in Vetted \cup {"verify"} /\ Staged(u)' = Staged(u)
      BY <2>3 DEF VerifyChecksum, MoveAside, InstallCopies, Vetted, Staged
    <3>2. files'[Staged(u)] = files[Staged(u)]
      BY <1>0, <2>3 DEF VerifyChecksum, MoveAside, Move, InstallCopies
    <3>3. QED BY <3>1, <3>2 DEF ArrivedInv
  <2>4. CASE ~(FetchBeside(u) \/ FetchPrivately(u) \/ VerifyChecksum(u) \/ MoveAside(u)
                 \/ InstallCopies(u))
    <3>1. pc'[u] \notin Vetted \cup {"verify"}
      BY <1>0, <2>4 DEF RunUpdate, AskRelease, CmdUpdate, AskLatest, AskLatestFails, Stage,
         Locate, FetchBesideFails, MakePrivateDir, MakePrivateDirFails, FetchPrivatelyFails,
         Replace, MoveAsideFails, Install, InstallCopied, InstallFails, Restore,
         RemoveBackup, Cleanup, Crash, Vetted
    <3>2. QED BY <3>1
  <2>5. QED BY <2>1, <2>2, <2>3, <2>4
<1>3. QED BY <1>1, <1>2 DEF ArrivedInv

\* The running binary is where it is found, if it is found.
LEMMA RunningAtHolds ==
  RunningAt # Deleted => RunningAt \in Paths /\ files[RunningAt] = Old
<1>1. CASE \E p \in Paths : files[p] = Old
  BY <1>1 DEF RunningAt
<1>2. CASE ~ \E p \in Paths : files[p] = Old
  <2>1. RunningAt = Deleted
    BY <1>2 DEF RunningAt
  <2>2. QED BY <2>1
<1>3. QED BY <1>1, <1>2

\* What the steps are said to be, at the places binaries are installed to.
LEMMA TargetFacts ==
  ASSUME UpdateInv
  PROVE  /\ \A u \in Updaters : /\ Backup(u) \in Targets /\ target[u] \in Targets
                                /\ Backup(u) # Exe /\ Backup(u) # Deleted
                                /\ \A v \in Updaters : u # v => Backup(u) # Backup(v)
         /\ Exe \in Targets /\ Deleted # Exe
         /\ Nothing \notin {Old, Good, Bad}
         /\ \A u \in Updaters : /\ Partial(u) \notin {Nothing, Old, Good, Bad}
                                /\ \A v \in Updaters : u # v => Partial(u) # Partial(v)
         /\ target \in [Updaters -> Targets] /\ pc \in [Updaters -> PlacesOfUpdater]
  BY DEF UpdateInv, UpdateTypes, Targets, Backup, Exe, Deleted, Nothing, Old, Good, Bad,
         Partial

\* Nobody else goes anywhere, or finds another binary to replace.
LEMMA Others ==
  ASSUME UpdateInv, NEW u \in Updaters, Step(u)
  PROVE  \A v \in Updaters \ {u} : pc'[v] = pc[v] /\ target'[v] = target[v]
  BY TargetFacts DEF Step, Idles, TakesAside, PutsIn, BeginsCopy, EndsCopy, GivesUp, PutsBack,
     DropsBackup, Goto

\* The steps keep what is said of backups, of the first mover, of emptied places and
\* of what is kept.
LEMMA BackupStep ==
  ASSUME UpdateInv, BackupInv, NEW u \in Updaters, Step(u)
  PROVE  BackupInv'
<1> USE TargetFacts
<1>1. CASE Idles(u)
  <2>1. PICK to \in PlacesOfUpdater \ Replacing :
          /\ pc' = [pc EXCEPT ![u] = to]
          /\ to \in Before \cup {"aside"} => pc[u] \in Before \cup {"aside"}
    BY <1>1 DEF Idles
  <2>2. \A v \in Updaters : pc'[v] = IF v = u THEN to ELSE pc[v]
    BY <2>1
  <2>3. movedAside' = movedAside /\ \A v \in Updaters : files'[Backup(v)] = files[Backup(v)]
    BY <1>1 DEF Idles, ghostVars, Leaves
  <2>4. \A v, w \in Updaters : w \notin movedAside \/ w = v => target'[v] # Backup(w)
    <3>1. CASE UNCHANGED target
      BY <3>1 DEF BackupInv
    <3>2. CASE pc[u] = "locate" /\ target' = [target EXCEPT ![u] = RunningAt]
      <4>1. u \notin movedAside
        BY <3>2 DEF BackupInv, Before, Unstaged
      <4>2. \A w \in Updaters \ movedAside : RunningAt # Backup(w)
        BY RunningAtHolds DEF BackupInv
      <4>3. QED BY <3>2, <4>1, <4>2 DEF BackupInv
    <3>3. QED BY <1>1, <3>1, <3>2 DEF Idles
  <2>5. \A v \in Updaters : /\ pc'[v] \in Before \cup {"aside"} => v \notin movedAside
                            /\ pc'[v] \in Replacing => v \in movedAside
    BY <2>1, <2>2 DEF BackupInv
  <2>6. QED BY <2>3, <2>4, <2>5 DEF BackupInv
<1>2. CASE TakesAside(u)
  <2>1. /\ \A v \in Updaters : pc'[v] = IF v = u THEN "install" ELSE pc[v]
        /\ movedAside' = movedAside \cup {u} /\ target' = target
        /\ \A v \in Updaters \ {u} : target[u] # Backup(v) => files'[Backup(v)] = files[Backup(v)]
    BY <1>2 DEF TakesAside, Goto, Moves
  <2>2. "install" \notin Before \cup {"aside"}
    BY DEF Before, Unstaged
  <2>3. QED BY <2>1, <2>2 DEF BackupInv
<1>3. CASE ~Idles(u) /\ ~TakesAside(u)
  <2>1. PICK to \in {"unlink", "copy", "restore", "cleanup"} : pc' = [pc EXCEPT ![u] = to]
    BY <1>3 DEF Step, PutsIn, BeginsCopy, EndsCopy, GivesUp, PutsBack, DropsBackup, Goto
  <2>2. /\ \A v \in Updaters : pc'[v] = IF v = u THEN to ELSE pc[v]
        /\ to \notin Before \cup {"aside"}
    BY <2>1 DEF Before, Unstaged
  <2>3. u \in movedAside
    BY <1>3 DEF Step, PutsIn, BeginsCopy, EndsCopy, GivesUp, PutsBack, DropsBackup, Goto,
                BackupInv, Replacing
  <2>4. movedAside' = movedAside /\ target' = target
    BY <1>3 DEF Step, PutsIn, BeginsCopy, EndsCopy, GivesUp, PutsBack, DropsBackup, ghostVars
  <2>5. \A v \in Updaters \ movedAside : files'[Backup(v)] = Nothing
    <3> SUFFICES ASSUME NEW v \in Updaters \ movedAside PROVE files'[Backup(v)] = Nothing
      OBVIOUS
    <3>1. /\ files[Backup(v)] = Nothing /\ Backup(v) # target[u] /\ Backup(v) # Backup(u)
          /\ Backup(v) \in Targets
      BY <2>3 DEF BackupInv
    <3>2. QED
      BY <1>3, <3>1 DEF Step, PutsIn, BeginsCopy, EndsCopy, GivesUp, PutsBack, DropsBackup,
                        On, Moves, Leaves
  <2>6. QED BY <2>2, <2>3, <2>4, <2>5 DEF BackupInv
<1>4. QED BY <1>1, <1>2, <1>3

\* Only the first mover touches the places a binary is installed to while it is alone.
LEMMA LoneStep ==
  ASSUME UpdateInv, BackupInv, LoneInv, NEW u \in Updaters, Step(u)
  PROVE  LoneInv'
<1> USE TargetFacts
<1>1. CASE movedAside = {} /\ Idles(u)
  <2>1. movedAside' = {} /\ \A p \in Targets : files'[p] = files[p]
    BY <1>1 DEF Idles, ghostVars, Leaves
  <2>2. RunningAt \in {Exe, Deleted}
    BY <1>1, RunningAtHolds, RunningAtTarget DEF LoneInv
  <2>3. \A v \in Updaters : target'[v] \in {Exe, Deleted}
    BY <1>1, <2>2 DEF Idles, LoneInv
  <2>4. QED BY <1>1, <2>1, <2>3 DEF LoneInv
<1>2. CASE movedAside = {} /\ TakesAside(u)
  <2>1. /\ movedAside' = {u} /\ target' = target /\ pc'[u] = "install"
        /\ Moves(target[u], Backup(u))
    BY <1>2 DEF TakesAside, Goto
  <2>2. target[u] = Exe /\ files[Exe] = Old
    BY <1>2, <2>1 DEF LoneInv, Moves
  <2>3. files'[Backup(u)] = Old
    BY <2>1, <2>2 DEF Moves
  <2>4. QED BY <2>1, <2>2, <2>3 DEF LoneInv, Works
<1>3. CASE movedAside # {} /\ ~TakesAside(u)
  <2>1. movedAside' = movedAside
    BY <1>3 DEF Step, Idles, PutsIn, BeginsCopy, EndsCopy, GivesUp, PutsBack, DropsBackup,
                ghostVars
  <2> SUFFICES ASSUME NEW w \in Updaters, movedAside = {w}
               PROVE  /\ target'[w] = Exe
                      /\ Works(Exe)' \/ Works(Backup(w))'
                      /\ pc'[w] \in {"install", "copy", "restore"} => Works(Backup(w))'
                      /\ pc'[w] = "copy" => files'[Exe] = Partial(w)
                      /\ pc'[w] = "unlink" => Works(Exe)'
    BY <1>3, <2>1 DEF LoneInv
  <2>2. /\ target[w] = Exe
        /\ Works(Exe) \/ Works(Backup(w))
        /\ pc[w] \in {"install", "copy", "restore"} => Works(Backup(w))
        /\ pc[w] = "copy" => files[Exe] = Partial(w)
        /\ pc[w] = "unlink" => Works(Exe)
    BY DEF LoneInv
  <2>3. CASE Idles(u)
    <3>1. \A p \in Targets : files'[p] = files[p]
      BY <2>3 DEF Idles, Leaves
    <3>2. target'[w] = target[w]
      BY <2>3, Others DEF Idles, BackupInv, Before, Unstaged
    <3>3. pc'[w] \in Replacing => pc'[w] = pc[w]
      BY <2>3 DEF Idles
    <3>4. QED BY <2>2, <3>1, <3>2, <3>3 DEF Works, Replacing
  <2>4. CASE ~Idles(u)
    <3>1. u = w
      BY <1>3, <2>4 DEF Step, PutsIn, BeginsCopy, EndsCopy, GivesUp, PutsBack, DropsBackup,
                        Goto, BackupInv, Replacing
    <3>2. target' = target
      BY <1>3, <2>4 DEF Step, PutsIn, BeginsCopy, EndsCopy, GivesUp, PutsBack, DropsBackup
    <3>3. CASE PutsIn(u)
      BY <2>2, <3>1, <3>2, <3>3 DEF PutsIn, Goto, On, Works
    <3>4. CASE BeginsCopy(u)
      BY <2>2, <3>1, <3>2, <3>4 DEF BeginsCopy, Goto, On, Works
    <3>5. CASE EndsCopy(u)
      BY <2>2, <3>1, <3>2, <3>5 DEF EndsCopy, Goto, Works
    <3>6. CASE GivesUp(u)
      BY <2>2, <3>1, <3>2, <3>6 DEF GivesUp, Goto, Leaves, Works
    <3>7. CASE PutsBack(u)
      BY <2>2, <3>1, <3>2, <3>7 DEF PutsBack, Goto, Moves, Works
    <3>8. CASE DropsBackup(u)
      BY <2>2, <3>1, <3>2, <3>8 DEF DropsBackup, Goto, On, Works
    <3>9. QED BY <1>3, <2>4, <3>3, <3>4, <3>5, <3>6, <3>7, <3>8 DEF Step
  <2>5. QED BY <2>3, <2>4
<1>4. CASE movedAside # {} /\ TakesAside(u)
  <2>1. u \notin movedAside /\ movedAside' = movedAside \cup {u}
    BY <1>4 DEF TakesAside, Goto, BackupInv
  <2>2. QED BY <1>4, <2>1 DEF LoneInv
<1>5. CASE movedAside = {} /\ ~Idles(u) /\ ~TakesAside(u)
  BY <1>5 DEF Step, PutsIn, BeginsCopy, EndsCopy, GivesUp, PutsBack, DropsBackup, Goto,
              BackupInv, Replacing
<1>6. QED BY <1>1, <1>2, <1>3, <1>4, <1>5

\* Who would empty a place that is empty already finds nothing to move.
LEMMA SlotStep ==
  ASSUME UpdateInv, BackupInv, SlotInv, cutShort' = {}, NEW u \in Updaters, Step(u)
  PROVE  SlotInv'
<1> USE TargetFacts
<1> SUFFICES ASSUME NEW v \in Updaters, Vacated(v)'
             PROVE  /\ files'[target'[v]] = Nothing
                    /\ \A w \in Updaters \ {v} : Vacated(w)' => target'[w] # target'[v]
  BY DEF SlotInv
<1>1. CASE TakesAside(u)
  <2>1. /\ pc'[u] = "install" /\ u \notin movedAside /\ target' = target
        /\ Moves(target[u], Backup(u))
    BY <1>1 DEF TakesAside, Goto, BackupInv
  <2>2. \A w \in Updaters \ {u} :
           Vacated(w)' => Vacated(w) /\ target[w] # target[u] /\ target[w] # Backup(u)
    BY <2>1, <1>1, Others DEF Vacated, SlotInv, BackupInv, Moves
  <2>3. files'[target[v]] = Nothing
    BY <2>1, <2>2 DEF Moves, SlotInv
  <2>4. QED BY <2>1, <2>2, <2>3 DEF SlotInv
<1>2. CASE ~TakesAside(u)
  <2>1. \A w \in Updaters : Vacated(w)' => Vacated(w) /\ target'[w] = target[w]
    BY <1>2, Others DEF Step, Idles, PutsIn, BeginsCopy, EndsCopy, GivesUp, PutsBack,
       DropsBackup, Goto, Vacated, Replacing
  <2>2. v # u \/ Idles(u) \/ GivesUp(u)
    BY <1>2 DEF Step, PutsIn, BeginsCopy, EndsCopy, PutsBack, DropsBackup, Goto, Vacated
  <2>3. files[target[v]] = Nothing
    BY <2>1 DEF SlotInv
  <2>4. Vacated(u) => u = v \/ target[v] # target[u]
    BY <2>1 DEF SlotInv
  <2>5. files'[target[v]] = Nothing
    BY <1>2, <2>2, <2>3, <2>4 DEF Step, Idles, PutsIn, BeginsCopy, EndsCopy, GivesUp,
       PutsBack, DropsBackup, Goto, Vacated, On, Moves, Leaves
  <2>6. QED BY <2>1, <2>5 DEF SlotInv
<1>3. QED BY <1>1, <1>2

\* Each step, for each X and D after it, has an X and a D before it whose whole binary
\* the step leaves, moves within X, or replaces by another one.
LEMMA KeptStep ==
  ASSUME UpdateInv, BackupInv, SlotInv, KeptInv, cutShort' = {}, NEW u \in Updaters, Step(u)
  PROVE  KeptInv'
<1> USE TargetFacts
<1> SUFFICES ASSUME NEW X \in SUBSET Targets, NEW D \in SUBSET Copying', Closed(X, D)'
             PROVE  \E p \in X : Kept(p, D)'
  BY DEF KeptInv
<1>a. /\ D \subseteq Updaters /\ \A v \in D : pc'[v] = "copy"
      /\ Exe \in X
      /\ \A v \in movedAside' \ D : pc'[v] # "unlink" /\ target'[v] \in X => Backup(v) \in X
  BY DEF Copying, Closed
<1>b. \A v \in Updaters \ {u} : pc'[v] = pc[v] /\ target'[v] = target[v]
  BY Others
<1>1. CASE Idles(u)
  <2>1. /\ movedAside' = movedAside /\ \A q \in Targets : files'[q] = files[q]
        /\ u \in movedAside => target'[u] = target[u]
        /\ pc'[u] \notin Replacing
    BY <1>1 DEF Idles, ghostVars, Leaves, BackupInv, Before, Unstaged
  <2>2. D \subseteq Copying
    BY <1>a, <1>b, <2>1 DEF Copying, Replacing
  <2>3. Closed(X, D)
    BY <1>a, <1>b, <2>1 DEF Closed, Replacing, BackupInv
  <2>4. PICK p \in X : Kept(p, D)
    BY <2>2, <2>3 DEF KeptInv
  <2>5. QED BY <2>1, <2>4 DEF Kept, Works
<1>2. CASE TakesAside(u)
  <2>1. /\ pc[u] = "aside" /\ pc'[u] = "install" /\ u \notin movedAside
        /\ movedAside' = movedAside \cup {u} /\ target' = target
        /\ Moves(target[u], Backup(u)) /\ files[Backup(u)] = Nothing
    BY <1>2 DEF TakesAside, Goto, BackupInv
  <2>2. D \subseteq Copying /\ u \notin D
    BY <1>a, <1>b, <2>1 DEF Copying
  <2>3. Closed(X, D)
    BY <1>a, <1>b, <2>1 DEF Closed, BackupInv
  <2>4. PICK p \in X : Kept(p, D)
    BY <2>2, <2>3 DEF KeptInv
  <2>5. files[p] # Nothing /\ p # Backup(u)
    BY <1>a, <2>1, <2>2, <2>4 DEF Kept, Works
  <2>6. CASE p = target[u]
    <3>1. Backup(u) \in X /\ files'[Backup(u)] = files[p]
      BY <1>a, <2>1, <2>2, <2>6 DEF Moves
    <3>2. QED BY <2>4, <3>1 DEF Kept, Works
  <2>7. CASE p # target[u]
    <3>1. files'[p] = files[p]
      BY <2>1, <2>5, <2>7 DEF Moves
    <3>2. QED BY <2>4, <3>1 DEF Kept, Works
  <2>8. QED BY <2>6, <2>7
<1>3. CASE PutsIn(u)
  <2>1. /\ pc[u] = "install" /\ pc'[u] = "unlink" /\ movedAside' = movedAside
        /\ target' = target /\ \E c \in {Good, Bad} : On(target[u], c)
    BY <1>3 DEF PutsIn, Goto, ghostVars
  <2>2. CASE target[u] \in X
    BY <2>1, <2>2 DEF On, Kept, Works
  <2>3. CASE target[u] \notin X
    <3>1. D \subseteq Copying
      BY <1>a, <1>b, <2>1 DEF Copying
    <3>2. Closed(X, D)
      BY <1>a, <1>b, <2>1, <2>3 DEF Closed, BackupInv
    <3>3. PICK p \in X : Kept(p, D)
      BY <3>1, <3>2 DEF KeptInv
    <3>4. files'[p] = files[p]
      BY <2>1, <2>3 DEF On
    <3>5. QED BY <3>3, <3>4 DEF Kept, Works
  <2>4. QED BY <2>2, <2>3
<1>4. CASE BeginsCopy(u)
  <2>1. /\ pc[u] = "install" /\ pc'[u] = "copy" /\ movedAside' = movedAside
        /\ target' = target /\ On(target[u], Partial(u)) /\ files[target[u]] = Nothing
    BY <1>4 DEF BeginsCopy, Goto, ghostVars, SlotInv, Vacated
  <2>2. CASE u \in D /\ target[u] \in X
    BY <2>1, <2>2 DEF On, Kept
  <2>3. CASE u \notin D \/ target[u] \notin X
    <3>1. D \ {u} \subseteq Copying
      BY <1>a, <1>b DEF Copying
    <3>2. Closed(X, D \ {u})
      BY <1>a, <1>b, <2>1, <2>3 DEF Closed, BackupInv
    <3>3. PICK p \in X : Kept(p, D \ {u})
      BY <3>1, <3>2 DEF KeptInv
    <3>4. p # target[u]
      BY <1>a, <2>1, <3>3 DEF Kept, Works
    <3>5. files'[p] = files[p]
      BY <2>1, <3>4 DEF On
    <3>6. QED BY <3>3, <3>5 DEF Kept, Works
  <2>4. QED BY <2>2, <2>3
<1>5. CASE EndsCopy(u)
  <2>1. /\ pc[u] = "copy" /\ pc'[u] = "unlink" /\ movedAside' = movedAside
        /\ target' = target
    BY <1>5 DEF EndsCopy, Goto, ghostVars
  <2>2. PICK c \in {Good, Bad} : \A q \in Targets :
           files'[q] = IF files[q] = Partial(u) THEN c ELSE files[q]
    BY <1>5 DEF EndsCopy
  <2>3. D \cup {u} \subseteq Copying
    BY <1>a, <1>b, <2>1 DEF Copying
  <2>4. Closed(X, D \cup {u})
    BY <1>a, <1>b, <2>1 DEF Closed, BackupInv
  <2>5. PICK p \in X : Kept(p, D \cup {u})
    BY <2>3, <2>4 DEF KeptInv
  <2>6. QED BY <1>a, <2>2, <2>5 DEF Kept, Works
<1>6. CASE GivesUp(u)
  <2>1. /\ pc[u] = "install" /\ pc'[u] = "restore" /\ movedAside' = movedAside
        /\ target' = target /\ \A q \in Targets : files'[q] = files[q]
    BY <1>6 DEF GivesUp, Goto, Leaves
  <2>2. D \subseteq Copying
    BY <1>a, <1>b, <2>1 DEF Copying
  <2>3. Closed(X, D)
    BY <1>a, <1>b, <2>1 DEF Closed, BackupInv
  <2>4. PICK p \in X : Kept(p, D)
    BY <2>2, <2>3 DEF KeptInv
  <2>5. QED BY <2>1, <2>4 DEF Kept, Works
<1>7. CASE PutsBack(u)
  <2>1. /\ pc[u] = "restore" /\ pc'[u] = "cleanup" /\ movedAside' = movedAside
        /\ target' = target /\ Moves(Backup(u), target[u]) /\ files[target[u]] = Nothing
        /\ target[u] # Backup(u) /\ u \in movedAside
    BY <1>7 DEF PutsBack, Goto, ghostVars, SlotInv, Vacated, BackupInv, Replacing
  <2>2. D \subseteq Copying /\ u \notin D
    BY <1>a, <1>b, <2>1 DEF Copying
  \* A backup that is in X for no reason holds nothing X needs.
  <2> DEFINE Y == IF target[u] \in X THEN X ELSE X \ {Backup(u)}
  <2>3. Closed(Y, D)
    BY <1>a, <1>b, <2>1 DEF Closed, BackupInv
  <2>4. PICK p \in Y : Kept(p, D)
    BY <2>2, <2>3 DEF KeptInv
  <2>5. files[p] # Nothing /\ p # target[u] /\ p \in Targets
    BY <1>a, <2>1, <2>2, <2>4 DEF Kept, Works
  <2>6. CASE p = Backup(u)
    <3>1. target[u] \in X /\ files'[target[u]] = files[p]
      BY <2>1, <2>4, <2>6 DEF Moves
    <3>2. QED BY <2>4, <3>1 DEF Kept, Works
  <2>7. CASE p # Backup(u)
    <3>1. p \in X /\ files'[p] = files[p]
      BY <2>1, <2>4, <2>5, <2>7 DEF Moves
    <3>2. QED BY <2>4, <3>1 DEF Kept, Works
  <2>8. QED BY <2>6, <2>7
<1>8. CASE DropsBackup(u)
  <2>1. /\ pc[u] = "unlink" /\ pc'[u] = "cleanup" /\ movedAside' = movedAside
        /\ target' = target /\ On(Backup(u), Nothing)
    BY <1>8 DEF DropsBackup, Goto, ghostVars
  <2>2. D \subseteq Copying
    BY <1>a, <1>b, <2>1 DEF Copying
  <2> DEFINE Y == X \ {Backup(u)}
  <2>3. Closed(Y, D)
    BY <1>a, <1>b, <2>1 DEF Closed, BackupInv
  <2>4. PICK p \in Y : Kept(p, D)
    BY <2>2, <2>3 DEF KeptInv
  <2>5. p \in X /\ files'[p] = files[p]
    BY <2>1, <2>4 DEF On
  <2>6. QED BY <2>4, <2>5 DEF Kept, Works
<1>9. QED BY <1>1, <1>2, <1>3, <1>4, <1>5, <1>6, <1>7, <1>8 DEF Step

\* Nobody has begun.
LEMMA RecoveryInit == UpdateInit => RecoveryInv
<1> SUFFICES ASSUME UpdateInit PROVE RecoveryInv
  OBVIOUS
<1> USE PathFacts, ContentFacts DEF UpdateInit
<1>1. /\ files[Exe] = Old /\ \A p \in Targets \ {Exe} : files[p] = Nothing
      /\ \A u \in Updaters : /\ Backup(u) # Exe /\ Backup(u) # Deleted
                             /\ Backup(u) \in Targets
      /\ Exe \in Targets /\ Exe # Deleted
  BY DEF Targets, Exe, Deleted, Backup
<1>2. ArrivedInv
  BY DEF ArrivedInv, Vetted
<1>3. BackupInv
  BY <1>1 DEF BackupInv, Replacing
<1>4. LoneInv
  BY <1>1 DEF LoneInv
<1>5. SlotInv
  BY DEF SlotInv, Vacated
<1>6. KeptInv
  BY <1>1 DEF KeptInv, Closed, Kept, Works
<1>7. QED BY <1>2, <1>3, <1>4, <1>5, <1>6 DEF RecoveryInv

\* Every step of an updater keeps the invariant.
LEMMA RecoveryNext == ASSUME UpdateInv, RecoveryInv, UpdateNext PROVE RecoveryInv'
<1>1. PICK u \in Updaters : RunUpdate(u) \/ Crash(u)
  BY DEF UpdateNext
<1>2. Step(u)
  BY <1>1, StepKinds DEF RecoveryInv
<1>3. cutShort' = {} => cutShort = {}
  BY <1>2 DEF Step, Idles, TakesAside, PutsIn, BeginsCopy, EndsCopy, GivesUp, PutsBack,
     DropsBackup, ghostVars
<1>4. QED BY <1>1, <1>2, <1>3, ArrivedStep, BackupStep, LoneStep, SlotStep, KeptStep
             DEF RecoveryInv

-----------------------------------------------------------------------------
(* What an updater reports.                                                *)

\* An updater reports once, when all that is left to it is to clean up. Until then, and
\* while no other one has moved the binary, the original is in its backup or the download
\* in its place.
Reports == {"none", "usage", "up to date", "available", "error", "updated"}

ReportInv ==
    /\ result \in [Updaters -> Reports]
    /\ \A u \in Updaters :
          /\ result[u] # "none" => pc[u] \in {"cleanup", "done", "crashed"}
          /\ result[u] = "updated" => u \in movedAside
          /\ movedAside = {u} =>
                /\ pc[u] \in {"install", "copy", "restore"} => files[Backup(u)] = Old
                /\ pc[u] = "unlink" \/ result[u] = "updated" => files[Exe] \in {Good, Bad}
                /\ result[u] \notin {"none", "updated"} => Old \in {files[Exe], files[Backup(u)]}

\* The steps an updater reports in: it ends before it has moved anything, it is done, or it
\* has given up.
ReportsEarly(u) ==
    /\ pc[u] \in Before \cup {"aside"}
    /\ \E to \in {"cleanup", "done"} : pc' = [pc EXCEPT ![u] = to]
    /\ \E r \in Reports \ {"none", "updated"} : Report(u, r)
ReportsLate(u) ==
    \/ Goto(u, "unlink", "cleanup") /\ Report(u, "updated")
    \/ Goto(u, "restore", "cleanup") /\ Report(u, "error")

\* There are no others.
LEMMA ReportKinds ==
  ASSUME NEW u \in Updaters, RunUpdate(u) \/ Crash(u)
  PROVE  UNCHANGED result \/ ReportsEarly(u) \/ ReportsLate(u)
<1> USE DEF ReportsEarly, ReportsLate, Goto, Before, Unstaged, Reports
<1>1. CASE CmdUpdate(u)
  <2>1. CASE UNCHANGED result
    BY <2>1
  <2>2. CASE ~UNCHANGED result
    <3>1. pc[u] = "start" /\ pc' = [pc EXCEPT ![u] = "done"] /\ Report(u, "usage")
      BY <1>1, <2>2 DEF CmdUpdate
    <3>2. QED BY <3>1
  <2>3. QED BY <2>1, <2>2
<1>2. CASE AskLatest(u) \/ AskLatestFails(u)
  <2>1. CASE UNCHANGED result
    BY <2>1
  <2>2. CASE ~UNCHANGED result
    <3>1. /\ pc[u] \in {"check", "ask", "locate"} /\ pc' = [pc EXCEPT ![u] = "done"]
          /\ Report(u, "up to date") \/ Report(u, "available") \/ Report(u, "error")
      BY <1>2, <2>2 DEF AskLatest, AskLatestFails
    <3>2. QED BY <3>1
  <2>3. QED BY <2>1, <2>2
<1>3. CASE Stage(u)
  <2>1. \/ UNCHANGED result
        \/ /\ pc[u] \in {"private", "fetchPrivately"} /\ pc' = [pc EXCEPT ![u] = "done"]
           /\ Report(u, "error")
    BY <1>3 DEF Stage, Locate, FetchBeside, FetchBesideFails, MakePrivateDir,
                MakePrivateDirFails, FetchPrivately, FetchPrivatelyFails
  <2>2. QED BY <2>1
<1>4. CASE VerifyChecksum(u)
  <2>1. \/ UNCHANGED result
        \/ pc[u] = "verify" /\ pc' = [pc EXCEPT ![u] = "cleanup"] /\ Report(u, "error")
    BY <1>4 DEF VerifyChecksum
  <2>2. QED BY <2>1
<1>5. CASE MoveAsideFails(u)
  BY <1>5 DEF MoveAsideFails
<1>6. CASE Restore(u) \/ RemoveBackup(u)
  BY <1>6 DEF Restore, RemoveBackup
<1>7. CASE MoveAside(u) \/ Install(u) \/ InstallCopies(u) \/ InstallCopied(u) \/ InstallFails(u)
             \/ Cleanup(u) \/ Crash(u)
  BY <1>7 DEF MoveAside, Install, InstallCopies, InstallCopied, InstallFails, Cleanup, Crash
<1>8. QED BY <1>1, <1>2, <1>3, <1>4, <1>5, <1>6, <1>7 DEF RunUpdate, AskRelease, Replace

\* Another updater that has moved nothing does not disturb what one reports.
LEMMA ReportOfOther ==
  ASSUME UpdateInv, BackupInv, ReportInv, NEW u \in Updaters, Step(u),
         \A v \in Updaters \ {u} : result'[v] = result[v],
         NEW w \in Updaters \ {u}, movedAside' = {w}
  PROVE  /\ pc'[w] \in {"install", "copy", "restore"} => files'[Backup(w)] = Old
         /\ pc'[w] = "unlink" \/ result'[w] = "updated" => files'[Exe] \in {Good, Bad}
         /\ result'[w] \notin {"none", "updated"} => Old \in {files'[Exe], files'[Backup(w)]}
<1>1. Idles(u)
  BY DEF Step, TakesAside, PutsIn, BeginsCopy, EndsCopy, GivesUp, PutsBack, DropsBackup, Goto,
         ghostVars, BackupInv, Replacing
<1>2. movedAside = {w} /\ \A p \in Targets : files'[p] = files[p]
  BY <1>1 DEF Idles, ghostVars, Leaves
<1>3. pc'[w] = pc[w] /\ result'[w] = result[w]
  BY Others
<1>4. Exe \in Targets /\ Backup(w) \in Targets
  BY TargetFacts
<1>5. QED BY <1>2, <1>3, <1>4 DEF ReportInv

\* The one that has moved the binary reports what has become of it.
LEMMA ReportOfMover ==
  ASSUME UpdateInv, BackupInv, LoneInv, ReportInv, NEW u \in Updaters, Step(u),
         UNCHANGED result \/ ReportsEarly(u) \/ ReportsLate(u), movedAside' = {u}
  PROVE  /\ pc'[u] \in {"install", "copy", "restore"} => files'[Backup(u)] = Old
         /\ pc'[u] = "unlink" \/ result'[u] = "updated" => files'[Exe] \in {Good, Bad}
         /\ result'[u] \notin {"none", "updated"} => Old \in {files'[Exe], files'[Backup(u)]}
<1>1. /\ Exe \in Targets /\ Backup(u) \in Targets /\ Backup(u) # Exe
      /\ Nothing # Old /\ pc \in [Updaters -> PlacesOfUpdater] /\ result \in [Updaters -> Reports]
  BY TargetFacts DEF ReportInv
<1>2. /\ result[u] # "none" => pc[u] \in {"cleanup", "done", "crashed"}
      /\ movedAside = {u} =>
            /\ pc[u] \in {"install", "copy", "restore"} => files[Backup(u)] = Old
            /\ pc[u] = "unlink" \/ result[u] = "updated" => files[Exe] \in {Good, Bad}
            /\ result[u] \notin {"none", "updated"} => Old \in {files[Exe], files[Backup(u)]}
  BY DEF ReportInv
<1>3. CASE TakesAside(u)
  <2>1. /\ pc[u] = "aside" /\ pc'[u] = "install" /\ movedAside' = movedAside \cup {u}
        /\ Moves(target[u], Backup(u))
    BY <1>1, <1>3 DEF TakesAside, Goto
  <2>2. movedAside = {}
    BY <2>1 DEF BackupInv
  <2>3. files[target[u]] = Old
    BY <2>1, <2>2, TargetFacts DEF LoneInv, Moves
  <2>4. files'[Backup(u)] = Old
    BY <1>1, <2>1, <2>3, TargetFacts DEF Moves, BackupInv
  <2>5. result'[u] = "none"
    <3>1. result' = result
      BY <1>1, <2>1 DEF ReportsEarly, ReportsLate, Goto
    <3>2. QED BY <1>2, <2>1, <3>1
  <2>6. QED BY <2>1, <2>4, <2>5
<1>4. CASE ~TakesAside(u)
  <2>1. movedAside = {u}
    BY <1>4 DEF Step, Idles, PutsIn, BeginsCopy, EndsCopy, GivesUp, PutsBack, DropsBackup,
                ghostVars
  <2>2. ~ReportsEarly(u)
    BY <2>1 DEF ReportsEarly, BackupInv
  <2>3. /\ target[u] = Exe
        /\ pc[u] = "copy" => files[Exe] = Partial(u)
    BY <2>1 DEF LoneInv
  <2>4. /\ pc[u] = "unlink" => result'[u] \in {result[u], "updated"}
        /\ pc[u] = "restore" => result'[u] \in {result[u], "error"}
        /\ pc[u] \notin {"unlink", "restore"} => result'[u] = result[u]
    BY <1>1, <2>2 DEF ReportsLate, Goto, Report
  <2>5. CASE Idles(u)
    <3>1. \A p \in Targets : files'[p] = files[p]
      BY <2>5 DEF Idles, Leaves
    <3>2. pc'[u] \notin Replacing
      BY <1>1, <2>5 DEF Idles
    <3>3. QED BY <1>1, <1>2, <2>1, <2>4, <3>1, <3>2 DEF Replacing
  <2>6. CASE PutsIn(u)
    BY <1>1, <1>2, <2>3, <2>4, <2>6 DEF PutsIn, Goto, On
  <2>7. CASE BeginsCopy(u)
    BY <1>1, <1>2, <2>1, <2>3, <2>4, <2>7 DEF BeginsCopy, Goto, On
  <2>8. CASE EndsCopy(u)
    BY <1>1, <1>2, <2>3, <2>4, <2>8 DEF EndsCopy, Goto
  <2>9. CASE GivesUp(u)
    BY <1>1, <1>2, <2>1, <2>4, <2>9 DEF GivesUp, Goto, Leaves
  <2>10. CASE PutsBack(u)
    BY <1>1, <1>2, <2>1, <2>3, <2>4, <2>10 DEF PutsBack, Goto, Moves
  <2>11. CASE DropsBackup(u)
    BY <1>1, <1>2, <2>1, <2>4, <2>11 DEF DropsBackup, Goto, On
  <2>12. QED BY <1>4, <2>5, <2>6, <2>7, <2>8, <2>9, <2>10, <2>11 DEF Step
<1>5. QED BY <1>3, <1>4

\* Every step keeps what is known of the reports.
LEMMA ReportNext == ASSUME UpdateInv, RecoveryInv, ReportInv, UpdateNext PROVE ReportInv'
<1>1. PICK u \in Updaters : RunUpdate(u) \/ Crash(u)
  BY DEF UpdateNext
<1>2. Step(u) /\ BackupInv /\ LoneInv
  BY <1>1, StepKinds DEF RecoveryInv
<1>3. UNCHANGED result \/ ReportsEarly(u) \/ ReportsLate(u)
  BY <1>1, ReportKinds
<1>4. /\ result \in [Updaters -> Reports] /\ pc \in [Updaters -> PlacesOfUpdater]
      /\ \A v \in Updaters \ {u} : pc'[v] = pc[v]
  BY <1>2, Others, TargetFacts DEF ReportInv
<1>5. result' \in [Updaters -> Reports] /\ \A v \in Updaters \ {u} : result'[v] = result[v]
  BY <1>3, <1>4 DEF ReportsEarly, ReportsLate, Report, Reports
<1>6. movedAside \subseteq movedAside'
  BY <1>2 DEF Step, Idles, TakesAside, PutsIn, BeginsCopy, EndsCopy, GivesUp, PutsBack,
     DropsBackup, ghostVars
<1>7. result'[u] # "none" => pc'[u] \in {"cleanup", "done", "crashed"}
  <2>1. CASE UNCHANGED result
    <3>1. ASSUME result[u] # "none" PROVE pc'[u] \in {"cleanup", "done", "crashed"}
      <4>1. pc[u] \in {"cleanup", "done", "crashed"}
        BY <3>1 DEF ReportInv
      <4>2. Idles(u)
        BY <1>2, <4>1 DEF Step, TakesAside, PutsIn, BeginsCopy, EndsCopy, GivesUp, PutsBack,
                          DropsBackup, Goto
      <4>3. pc[u] \notin Before \cup {"aside"}
        BY <4>1 DEF Before, Unstaged
      <4>4. pc'[u] \in PlacesOfUpdater \ (Replacing \cup Before \cup {"aside"})
        BY <1>4, <4>2, <4>3 DEF Idles
      <4>5. QED BY <4>4 DEF PlacesOfUpdater, Replacing, Vetted
    <3>2. QED BY <2>1, <3>1
  <2>2. CASE ReportsEarly(u) \/ ReportsLate(u)
    BY <1>4, <2>2 DEF ReportsEarly, ReportsLate, Goto
  <2>3. QED BY <1>3, <2>1, <2>2
<1>8. result'[u] = "updated" => u \in movedAside
  <2>1. CASE UNCHANGED result
    BY <2>1 DEF ReportInv
  <2>2. CASE ReportsEarly(u)
    BY <1>4, <2>2 DEF ReportsEarly, Report
  <2>3. CASE ReportsLate(u)
    BY <1>2, <1>4, <2>3 DEF ReportsLate, Report, Goto, BackupInv, Replacing
  <2>4. QED BY <1>3, <2>1, <2>2, <2>3
<1>9. ASSUME NEW w \in Updaters
      PROVE  /\ result'[w] # "none" => pc'[w] \in {"cleanup", "done", "crashed"}
             /\ result'[w] = "updated" => w \in movedAside'
  BY <1>4, <1>5, <1>6, <1>7, <1>8 DEF ReportInv
<1>10. ASSUME NEW w \in Updaters, movedAside' = {w}
       PROVE  /\ pc'[w] \in {"install", "copy", "restore"} => files'[Backup(w)] = Old
              /\ pc'[w] = "unlink" \/ result'[w] = "updated" => files'[Exe] \in {Good, Bad}
              /\ result'[w] \notin {"none", "updated"} => Old \in {files'[Exe], files'[Backup(w)]}
  <2>1. CASE w = u
    BY <1>2, <1>3, <1>10, <2>1, ReportOfMover
  <2>2. CASE w # u
    BY <1>2, <1>5, <1>10, <2>2, ReportOfOther
  <2>3. QED BY <2>1, <2>2
<1>11. QED BY <1>5, <1>9, <1>10 DEF ReportInv, Backup, Exe, Old, Good, Bad

-----------------------------------------------------------------------------
(* The theorems.                                                           *)

\* Every step of an updater keeps the invariant.
LEMMA UpdateInvNext == ASSUME UpdateInv, UpdateNext PROVE UpdateInv'
<1>1. PICK u \in Updaters : RunUpdate(u) \/ Crash(u)
  BY DEF UpdateNext
<1>2. QED
  BY <1>1, QuietSteps, FetchSteps, VerifyStep, AsideSteps, UnstageSteps
     DEF RunUpdate, Stage, Replace

\* The rest of the process leaves the updaters alone.
THEOREM UpdateInvHolds == Spec => []UpdateInv
<1>1. Init => UpdateInv
  BY UpdateInvInit DEF Init
<1>2. UpdateInv /\ UNCHANGED updateVars => UpdateInv'
  BY DEF UpdateInv, UpdateTypes, StagedInv, InstalledInv, Staged, updateVars, procVars
<1>3. [Next]_cliVars => UpdateNext \/ UNCHANGED updateVars
  BY DEF Next, DispatchUpdate, DispatchParse, Updates, Parses, SendsCommand, Types, cliVars
<1>4. QED BY <1>1, <1>2, <1>3, UpdateInvNext, PTL DEF Spec

\* A download that is not the published release is installed only past a check
\* that was skipped because there was nothing to check with, and only on request
\* (verify_checksum, update.rs).
THEOREM OnlyVerifiedIsInstalled == Spec => []OnlyVerifiedInstalled
<1>1. UpdateInv => OnlyVerifiedInstalled
  BY DEF UpdateInv, StagedInv, InstalledInv, OnlyVerifiedInstalled, Targets
<1>2. QED BY <1>1, UpdateInvHolds, PTL

\* What the steps of an update keep, whoever runs them and however they fail: nothing
\* whole is written over or removed that was the last of its kind (replace_executable,
\* sudo_replace, update.rs).
THEOREM RecoveryInvHolds == Spec => []RecoveryInv
<1>1. Init => RecoveryInv
  BY RecoveryInit DEF Init
<1>2. RecoveryInv /\ UNCHANGED updateVars => RecoveryInv'
  BY DEF RecoveryInv, ArrivedInv, BackupInv, LoneInv, SlotInv, KeptInv, Closed, Kept, Works,
         Copying, Vacated, Staged, updateVars, procVars, ghostVars
<1>3. [Next]_cliVars => UpdateNext \/ UNCHANGED updateVars
  BY DEF Next, DispatchUpdate, DispatchParse, Updates, Parses, SendsCommand, Types, cliVars
<1>4. QED BY <1>1, <1>2, <1>3, RecoveryNext, UpdateInvHolds, PTL DEF Spec

\* At every instant of an update, a crash or a failure of any step included, a whole
\* binary is installed or in a backup; with several updaters at work as long as no copy
\* into the binary's place has broken off (replace_executable, sudo_replace, update.rs).
THEOREM ABinaryRemains == Spec => []NeverUnrecoverable
<1>1. ASSUME UpdateInv, RecoveryInv, Cardinality(movedAside) <= 1 PROVE NeverUnrecoverable
  <2>1. IsFiniteSet(movedAside)
    BY <1>1, UpdaterAssumption, FS_Subset DEF RecoveryInv, BackupInv
  <2>2. movedAside = {} \/ \E u \in Updaters : movedAside = {u}
    <3>1. CASE movedAside # {}
      <4>1. PICK u : u \in movedAside
        BY <3>1
      <4>2. /\ IsFiniteSet(movedAside \ {u})
            /\ Cardinality(movedAside \ {u}) = Cardinality(movedAside) - 1
        BY <2>1, <4>1, FS_RemoveElement
      <4>3. Cardinality(movedAside) \in Nat /\ Cardinality(movedAside \ {u}) \in Nat
        BY <2>1, <4>2, FS_CardinalityType
      <4>4. movedAside \ {u} = {}
        BY <1>1, <4>2, <4>3, FS_EmptySet
      <4>5. QED BY <1>1, <4>1, <4>4 DEF RecoveryInv, BackupInv
    <3>2. QED BY <3>1
  <2>3. QED BY <1>1, <2>2 DEF RecoveryInv, LoneInv, NeverUnrecoverable, Works
<1>2. ASSUME UpdateInv, RecoveryInv, cutShort = {} PROVE NeverUnrecoverable
  <2> DEFINE X == {Exe} \cup {Backup(u) : u \in Updaters}
  <2>1. X \in SUBSET Targets /\ {} \in SUBSET Copying
    BY DEF Targets
  <2>2. Closed(X, {})
    BY <1>2, <2>1 DEF Closed, RecoveryInv, BackupInv
  <2>3. PICK p \in X : Kept(p, {})
    BY <1>2, <2>1, <2>2 DEF RecoveryInv, KeptInv
  <2>4. QED BY <2>3 DEF Kept, NeverUnrecoverable
<1>3. UpdateInv /\ RecoveryInv => NeverUnrecoverable
  BY <1>1, <1>2 DEF NeverUnrecoverable
<1>4. QED BY <1>3, UpdateInvHolds, RecoveryInvHolds, PTL

\* Whatever fails or is interrupted, an updater's report is so as long as no other updater
\* has moved the binary: after a success its download is installed, whole; after anything
\* else the original is installed, or in the backup when putting it back failed
\* (replace_executable, sudo_replace, run_update, update.rs).
THEOREM UpdatersReportTruly == Spec => []ReportsAreTrue
<1>1. Init => ReportInv
  BY DEF Init, UpdateInit, ReportInv, Reports
<1>2. ReportInv /\ UNCHANGED updateVars => ReportInv'
  BY DEF ReportInv, updateVars, procVars, ghostVars
<1>3. [Next]_cliVars => UpdateNext \/ UNCHANGED updateVars
  BY DEF Next, DispatchUpdate, DispatchParse, Updates, Parses, SendsCommand, Types, cliVars
<1>4. UpdateInv /\ RecoveryInv /\ ReportInv => ReportsAreTrue
  <2> SUFFICES ASSUME RecoveryInv, ReportInv, NEW u \in Updaters, movedAside \subseteq {u}
               PROVE  /\ result[u] = "updated" => files[Exe] \in {Good, Bad}
                      /\ result[u] \notin {"none", "updated"} => Old \in {files[Exe], files[Backup(u)]}
    BY DEF ReportsAreTrue
  <2>1. CASE movedAside = {}
    BY <2>1 DEF RecoveryInv, LoneInv, ReportInv
  <2>2. CASE movedAside = {u}
    BY <2>2 DEF ReportInv
  <2>3. QED BY <2>1, <2>2
<1>5. QED BY <1>1, <1>2, <1>3, <1>4, ReportNext, UpdateInvHolds, RecoveryInvHolds, PTL DEF Spec

-----------------------------------------------------------------------------
(* From the tokens to the arguments.                                       *)

\* The options are the tokens before the first `--`.
LEMMA OptionsAre ==
  ASSUME argv \in Seq(STRING)
  PROVE  /\ Len(argv) \in Nat /\ Split \in 1 .. Len(argv) + 1
         /\ Options \in Seq(STRING) /\ Len(Options) = Split - 1
         /\ \A i \in 1 .. Split - 1 : Options[i] = argv[i] /\ argv[i] \in STRING
<1> DEFINE n == Len(argv)
           S == {n + 1} \cup {i \in DOMAIN argv : argv[i] = "--"}
<1>1. n \in Nat /\ DOMAIN argv = 1..n /\ \A i \in 1..n : argv[i] \in STRING
  BY LenProperties, ElementOfSeq
<1>2. S \in SUBSET (0..n + 1) /\ S # {} /\ S \subseteq 1..n + 1
  BY <1>1
<1>3. Split = Min(S)
  BY DEF Split, SplitOf
<1> HIDE DEF S
<1>4. Split \in 1..n + 1
  <2>1. n + 1 \in Nat
    BY <1>1
  <2>2. QED BY <1>2, <1>3, <2>1, MinMax
<1>5. QED
  <2> DEFINE m == Split - 1
  <2> HIDE DEF n
  <2>1. 1 \in 1 .. n + 1 /\ m \in 1 - 1 .. n
    BY <1>1, <1>4
  <2>2. Options = SubSeq(argv, 1, m)
    BY DEF Options
  <2> HIDE DEF m
  <2>3. /\ Options \in Seq(STRING) /\ Len(Options) = m
        /\ \A i \in 1..m : Options[i] = argv[i]
    BY <2>1, <2>2, SubSeqProperties DEF n
  <2>4. \A i \in 1..m : i \in 1..n
    BY <1>1, <2>1
  <2>5. QED BY <1>1, <1>4, <2>3, <2>4 DEF m, n

\* Where an option is read depends on the token before.
LEMMA OptionAt ==
  ASSUME argv \in Seq(STRING)
  PROVE  \A i \in 1 .. Split - 1 :
            /\ IsOption[i] \in BOOLEAN
            /\ i = 1 => IsOption[i]
            /\ i > 1 => (IsOption[i] <=> ~(IsOption[i - 1] /\ argv[i - 1] \in ValueOptions))
<1> DEFINE n == Len(Options)
           step == [i \in 1..n |-> [r \in BOOLEAN |-> ~(r /\ Options[i - 1] \in ValueOptions)]]
           F(g) == [i \in 0..n |-> i > 0 /\ ~(g[i - 1] /\ Options[i - 1] \in ValueOptions)]
           G == CHOOSE g : g = F(g)
<1>1. n \in Nat /\ n = Split - 1 /\ \A i \in 1..n : Options[i] = argv[i]
  BY OptionsAre
<1>2. IsOption = G
  BY DEF IsOption
<1> HIDE DEF n
<1>3. step \in [1..n -> [BOOLEAN -> BOOLEAN]]
  OBVIOUS
<1> HIDE DEF step
<1>4. PICK f \in [0..n -> BOOLEAN] : Follows(f, FALSE, step, n)
  <2>1. FALSE \in BOOLEAN
    OBVIOUS
  <2>2. n \in Nat
    BY <1>1
  <2>3. QED BY ONLY <1>3, <2>1, <2>2, SomeRecursion
<1>5. \A i \in 1..n : f[i] = ~(f[i - 1] /\ Options[i - 1] \in ValueOptions)
  <2> SUFFICES ASSUME NEW i \in 1..n
               PROVE  f[i] = ~(f[i - 1] /\ Options[i - 1] \in ValueOptions)
    OBVIOUS
  <2>1. i - 1 \in 0..n
    BY <1>1
  <2>2. f[i - 1] \in BOOLEAN
    BY <2>1
  <2>3. QED BY <1>4, <2>2 DEF step, Follows
<1>6. f = F(f)
  <2>1. \A i \in 0..n : (i = 0 /\ ~(i > 0)) \/ (i \in 1..n /\ i > 0)
    BY <1>1
  <2>2. \A i \in 0..n : f[i] = (i > 0 /\ ~(f[i - 1] /\ Options[i - 1] \in ValueOptions))
    BY <1>4, <1>5, <2>1 DEF Follows
  <2>3. f = [i \in 0..n |-> f[i]]
    OBVIOUS
  <2>4. QED BY <2>2, <2>3
<1>7. G = F(G)
  <2> HIDE DEF F
  <2>1. QED BY <1>6
<1> HIDE DEF G
<1>8. \A i \in 0..n : G[i] = (i > 0 /\ ~(G[i - 1] /\ Options[i - 1] \in ValueOptions))
  BY <1>7
<1>9. QED
  <2> SUFFICES ASSUME NEW i \in 1..n
               PROVE  /\ G[i] \in BOOLEAN
                      /\ i = 1 => G[i]
                      /\ i > 1 => (G[i] <=> ~(G[i - 1] /\ argv[i - 1] \in ValueOptions))
    BY <1>1, <1>2
  <2>1. i \in 0..n /\ 0 \in 0..n /\ i > 0 /\ ~(0 > 0)
    BY <1>1
  <2>2. G[0] = FALSE
    BY <1>8, <2>1
  <2>3. G[i] = ~(G[i - 1] /\ Options[i - 1] \in ValueOptions)
    BY <1>8, <2>1
  <2>4. i > 1 => i - 1 \in 1..n
    BY <1>1
  <2>5. i = 1 => i - 1 = 0
    OBVIOUS
  <2>6. i = 1 => G[i]
    BY <2>2, <2>3, <2>5
  <2>7. QED BY <1>1, <2>3, <2>4, <2>6

\* What an option is given is collected place by place.
LEMMA GivenAt ==
  ASSUME argv \in Seq(STRING), NEW opt
  PROVE  \E T : /\ \A i \in 0 .. Split - 1 : GivenUpTo(opt, i) \in Seq(T)
                /\ \A i \in 1 .. Split - 1 : Options[i + 1] \in T
                /\ GivenUpTo(opt, 0) = <<>>
                /\ \A i \in 1 .. Split - 1 :
                      GivenUpTo(opt, i) =
                        IF IsOption[i] /\ argv[i] = opt
                          THEN Append(GivenUpTo(opt, i - 1), Options[i + 1])
                          ELSE GivenUpTo(opt, i - 1)
<1> DEFINE n == Len(Options)
           T == STRING \cup {Options[n + 1]}
           V == Seq(T)
           step == [i \in 1..n |-> [r \in V |->
                      IF IsOption[i] /\ Options[i] = opt THEN Append(r, Options[i + 1]) ELSE r]]
           F(g) == [i \in 0..n |->
                      IF i = 0 THEN <<>>
                      ELSE IF IsOption[i] /\ Options[i] = opt
                             THEN Append(g[i - 1], Options[i + 1])
                             ELSE g[i - 1]]
           G == CHOOSE g : g = F(g)
<1>1. /\ n \in Nat /\ n = Split - 1
      /\ \A i \in 1..n : Options[i] = argv[i] /\ argv[i] \in STRING
  BY OptionsAre
<1>2. \A i : GivenUpTo(opt, i) = G[i]
  BY DEF GivenUpTo
<1> HIDE DEF n
<1>3. \A i \in 1..n : Options[i + 1] \in T
  <2> SUFFICES ASSUME NEW i \in 1..n PROVE Options[i + 1] \in T
    OBVIOUS
  <2>1. i + 1 \in 1..n \/ i + 1 = n + 1
    BY <1>1
  <2>2. QED BY <1>1, <2>1
<1> HIDE DEF T
<1>4. <<>> \in V /\ \A i \in 1..n, r \in V : Append(r, Options[i + 1]) \in V
  BY <1>3, AppendProperties
<1> HIDE DEF V
<1>5. step \in [1..n -> [V -> V]]
  BY <1>4
<1> HIDE DEF step
<1>6. PICK f \in [0..n -> V] : Follows(f, <<>>, step, n)
  <2>1. <<>> \in V
    BY <1>4
  <2>2. n \in Nat
    BY <1>1
  <2>3. QED BY ONLY <1>5, <2>1, <2>2, SomeRecursion
<1>7. \A i \in 1..n : f[i] = IF IsOption[i] /\ Options[i] = opt
                               THEN Append(f[i - 1], Options[i + 1]) ELSE f[i - 1]
  <2> SUFFICES ASSUME NEW i \in 1..n
               PROVE  f[i] = IF IsOption[i] /\ Options[i] = opt
                               THEN Append(f[i - 1], Options[i + 1]) ELSE f[i - 1]
    OBVIOUS
  <2>1. i - 1 \in 0..n
    BY <1>1
  <2>2. f[i - 1] \in V
    BY <2>1
  <2>3. QED BY <1>6, <2>2 DEF step, Follows
<1>8. f = F(f)
  <2>1. \A i \in 0..n : i = 0 \/ i \in 1..n
    BY <1>1
  <2>2. \A i \in 0..n : f[i] = IF i = 0 THEN <<>>
                               ELSE IF IsOption[i] /\ Options[i] = opt
                                 THEN Append(f[i - 1], Options[i + 1]) ELSE f[i - 1]
    BY <1>6, <1>7, <2>1 DEF Follows
  <2>3. f = [i \in 0..n |-> f[i]]
    OBVIOUS
  <2>4. QED BY <2>2, <2>3
<1>9. G = F(G)
  <2> HIDE DEF F
  <2>1. QED BY <1>8
<1> HIDE DEF G
<1>10. /\ G[0] = <<>>
       /\ \A i \in 1..n : G[i] = IF IsOption[i] /\ Options[i] = opt
                                   THEN Append(G[i - 1], Options[i + 1]) ELSE G[i - 1]
  <2>1. 0 \in 0..n /\ \A i \in 1..n : i \in 0..n /\ i # 0
    BY <1>1
  <2>2. \A i \in 0..n : G[i] = IF i = 0 THEN <<>>
                               ELSE IF IsOption[i] /\ Options[i] = opt
                                 THEN Append(G[i - 1], Options[i + 1]) ELSE G[i - 1]
    BY <1>9
  <2>3. QED BY <2>1, <2>2
<1>11. \A i \in 0..n : f[i] = G[i]
  <2>1. Alike(f, G, n)
    BY <1>6, <1>7, <1>10 DEF Alike, Follows
  <2>2. QED BY <1>1, <2>1, SameRecursion
<1>12. \A i \in 0..n : G[i] \in V
  BY <1>11
<1>13. \A i \in 1..n : G[i] = IF IsOption[i] /\ argv[i] = opt
                                THEN Append(G[i - 1], Options[i + 1]) ELSE G[i - 1]
  BY <1>1, <1>10
<1>14. QED BY <1>1, <1>2, <1>3, <1>10, <1>12, <1>13 DEF V

\* An option that is not given has no value.
LEMMA NotGiven ==
  ASSUME argv \in Seq(STRING), NEW opt, NEW n \in 0 .. Split - 1, ~HasUpTo(opt, n)
  PROVE  GivenUpTo(opt, n) = <<>>
<1> DEFINE f == [i \in 0..n |-> GivenUpTo(opt, i)]
           g == [i \in 0..n |-> <<>>]
<1>1. n \in Nat /\ \A i \in 1..n : i \in 1 .. Split - 1 /\ i \in 0..n /\ i - 1 \in 0..n
  BY OptionsAre
<1>2. PICK T : /\ GivenUpTo(opt, 0) = <<>>
               /\ \A i \in 1 .. Split - 1 :
                      GivenUpTo(opt, i) =
                        IF IsOption[i] /\ argv[i] = opt
                          THEN Append(GivenUpTo(opt, i - 1), Options[i + 1])
                          ELSE GivenUpTo(opt, i - 1)
  BY GivenAt
<1>3. \A i \in 1..n : GivenUpTo(opt, i) = GivenUpTo(opt, i - 1)
  <2>1. \A i \in 1..n : ~(IsOption[i] /\ argv[i] = opt)
    <3>1. \A i \in 1 .. Split - 1 : Options[i] = argv[i]
      BY OptionsAre
    <3>2. QED BY <1>1, <3>1 DEF HasUpTo
  <2>2. QED BY <1>1, <1>2, <2>1
<1>4. Alike(f, g, n)
  <2>1. f[0] = <<>> /\ g[0] = <<>>
    BY <1>1, <1>2
  <2>2. \A i \in 1..n : f[i] = f[i - 1] /\ g[i] = g[i - 1]
    BY <1>1, <1>3
  <2> HIDE DEF f, g
  <2>3. QED BY <2>1, <2>2 DEF Alike
<1>5. f[n] = g[n]
  <2> HIDE DEF f, g
  <2>1. n \in 0..n
    BY <1>1
  <2>2. QED BY <1>1, <1>4, <2>1, SameRecursion
<1>6. n \in 0..n
  BY <1>1
<1>7. QED BY <1>5, <1>6

\* A place where an option is not read gives it nothing.
LEMMA GivenSkips ==
  ASSUME argv \in Seq(STRING), NEW o, NEW i \in 1 .. Split - 1, ~(IsOption[i] /\ argv[i] = o)
  PROVE  GivenUpTo(o, i) = GivenUpTo(o, i - 1)
<1>1. PICK T : \A j \in 1 .. Split - 1 :
                 GivenUpTo(o, j) = IF IsOption[j] /\ argv[j] = o
                                     THEN Append(GivenUpTo(o, j - 1), Options[j + 1])
                                     ELSE GivenUpTo(o, j - 1)
  BY GivenAt
<1>2. QED BY <1>1

\* An option at place n + 1 that takes no value.
LEMMA FlagRead ==
  ASSUME argv \in Seq(STRING), NEW n \in Nat, n + 1 < Split, IsOption[n + 1],
         argv[n + 1] \notin ValueOptions
  PROVE  /\ n + 2 < Split => IsOption[n + 2]
         /\ \A o : HasUpTo(o, n + 1) <=> HasUpTo(o, n) \/ o = argv[n + 1]
         /\ \A o : o # argv[n + 1] => GivenUpTo(o, n + 1) = GivenUpTo(o, n)
<1>1. /\ Split \in Nat /\ n + 1 \in 1 .. Split - 1 /\ (n + 2 < Split => n + 2 \in 1 .. Split - 1)
      /\ \A i \in 1 .. n + 1 : i \in 1 .. Split - 1 /\ Options[i] = argv[i]
      /\ (n + 1) - 1 = n /\ (n + 2) - 1 = n + 1
      /\ \A i : i \in 1 .. n + 1 <=> i \in 1..n \/ i = n + 1
  BY OptionsAre
<1>2. n + 2 < Split => IsOption[n + 2]
  <2>1. n + 2 > 1
    OBVIOUS
  <2>2. QED BY <1>1, <2>1, OptionAt
<1>3. \A o : HasUpTo(o, n + 1) <=> HasUpTo(o, n) \/ o = argv[n + 1]
  BY <1>1 DEF HasUpTo
<1>4. ASSUME NEW o, o # argv[n + 1] PROVE GivenUpTo(o, n + 1) = GivenUpTo(o, n)
  BY <1>1, <1>4, GivenSkips
<1>5. QED BY <1>2, <1>3, <1>4

\* An option at place n + 1 with its value behind it.
LEMMA ValueRead ==
  ASSUME argv \in Seq(STRING), NEW n \in Nat, n + 2 < Split, IsOption[n + 1],
         argv[n + 1] \in ValueOptions
  PROVE  /\ n + 3 < Split => IsOption[n + 3]
         /\ \A o : HasUpTo(o, n + 2) <=> HasUpTo(o, n) \/ o = argv[n + 1]
         /\ \A o : o # argv[n + 1] => GivenUpTo(o, n + 2) = GivenUpTo(o, n)
         /\ GivenUpTo(argv[n + 1], n + 2) = Append(GivenUpTo(argv[n + 1], n), argv[n + 2])
         /\ Last(GivenUpTo(argv[n + 1], n + 2)) = argv[n + 2]
<1>1. /\ Split \in Nat /\ n + 1 \in 1 .. Split - 1 /\ n + 2 \in 1 .. Split - 1
      /\ (n + 3 < Split => n + 3 \in 1 .. Split - 1)
      /\ \A i \in 1 .. n + 2 : i \in 1 .. Split - 1 /\ Options[i] = argv[i]
      /\ (n + 1) - 1 = n /\ (n + 2) - 1 = n + 1 /\ (n + 3) - 1 = n + 2 /\ (n + 1) + 1 = n + 2
      /\ \A i : i \in 1 .. n + 2 <=> i \in 1..n \/ i = n + 1 \/ i = n + 2
  BY OptionsAre
<1>2. ~IsOption[n + 2]
  <2>1. n + 2 > 1
    OBVIOUS
  <2>2. QED BY <1>1, <2>1, OptionAt
<1>3. n + 3 < Split => IsOption[n + 3]
  <2>1. n + 3 > 1
    OBVIOUS
  <2>2. QED BY <1>1, <1>2, <2>1, OptionAt
<1>4. \A o : HasUpTo(o, n + 2) <=> HasUpTo(o, n) \/ o = argv[n + 1]
  BY <1>1, <1>2 DEF HasUpTo
<1>5. \A o : GivenUpTo(o, n + 2) = GivenUpTo(o, n + 1)
  BY <1>1, <1>2, GivenSkips
<1>6. ASSUME NEW o, o # argv[n + 1] PROVE GivenUpTo(o, n + 1) = GivenUpTo(o, n)
  BY <1>1, <1>6, GivenSkips
<1>7. /\ GivenUpTo(argv[n + 1], n + 1) = Append(GivenUpTo(argv[n + 1], n), argv[n + 2])
      /\ Last(GivenUpTo(argv[n + 1], n + 1)) = argv[n + 2]
  <2> DEFINE o == argv[n + 1]
  <2>1. PICK T : /\ GivenUpTo(o, n) \in Seq(T)
                 /\ Options[(n + 1) + 1] \in T
                 /\ GivenUpTo(o, n + 1) = Append(GivenUpTo(o, n), Options[(n + 1) + 1])
    <3>1. n \in 0 .. Split - 1
      BY <1>1
    <3> HIDE DEF o
    <3>2. PICK T : /\ \A i \in 0 .. Split - 1 : GivenUpTo(o, i) \in Seq(T)
                   /\ \A i \in 1 .. Split - 1 : Options[i + 1] \in T
                   /\ \A i \in 1 .. Split - 1 :
                      GivenUpTo(o, i) =
                        IF IsOption[i] /\ argv[i] = o
                          THEN Append(GivenUpTo(o, i - 1), Options[i + 1])
                          ELSE GivenUpTo(o, i - 1)
      BY GivenAt
    <3>3. argv[n + 1] = o
      BY DEF o
    <3>4. QED BY <1>1, <3>1, <3>2, <3>3
  <2> DEFINE s == GivenUpTo(o, n)
             v == Options[(n + 1) + 1]
  <2>2. v = argv[n + 2]
    BY <1>1
  <2> HIDE DEF o, s, v
  <2>3. s \in Seq(T) /\ v \in T /\ GivenUpTo(o, n + 1) = Append(s, v)
    BY <2>1 DEF s, v
  <2>4. Last(Append(s, v)) = v
    BY <2>3, AppendProperties DEF Last
  <2>5. QED BY <2>2, <2>3, <2>4 DEF o, s
<1>8. QED BY <1>3, <1>4, <1>5, <1>6, <1>7

-----------------------------------------------------------------------------
\* A number and a path as the first n options leave them.
NumberUpTo(opt, n, default) ==
    IF HasUpTo(opt, n) THEN Numbers[Last(GivenUpTo(opt, n))] ELSE default

PathUpTo(opt, n, default) == IF HasUpTo(opt, n) THEN <<Last(GivenUpTo(opt, n))>> ELSE default

\* The two numbers of the environment.
HardOfEnv == IF env.hard = "unset" THEN Off ELSE Numbers[env.hard]

ColsOfEnv == IF env.cols = "unset" THEN DefaultCols ELSE Numbers[env.cols]

\* What has been parsed is what the first n options say: the commands, ...
CommandsRead(n) ==
    /\ args.hasCmd <=> HasUpTo("--cmd", n)
    /\ args.hasCmdFile <=> HasUpTo("--cmd-file", n)
    /\ ~(HasUpTo("--cmd", n) /\ HasUpTo("--cmd-file", n))
    /\ args.cmds = IF HasUpTo("--cmd", n) THEN GivenUpTo("--cmd", n) ELSE GivenUpTo("--cmd-file", n)
    /\ args.prompts = GivenUpTo("--prompt", n)

\* ... the switches, ...
FlagsRead(n) ==
    /\ args.extract <=> HasUpTo("--extract", n) \/ HasUpTo("--extract-structural", n)
    /\ args.structural <=> HasUpTo("--extract-structural", n)
    /\ args.tui <=> args.extract \/ HasUpTo("--tui", n)
    /\ args.confirm <=> ~HasUpTo("--no-confirm", n)
    /\ args.approve <=> HasUpTo("--auto-approve", n)
    /\ args.burst <=> HasUpTo("--no-jitter", n)
    /\ args.paste <=> HasUpTo("--paste-input", n)
    /\ args.transcriptOff <=> HasUpTo("--no-transcript-read", n)

\* ... the numbers, of which the environment gives two, ...
NumbersRead(n) ==
    /\ args.exec = NumberUpTo("--timeout-ms", n, DefaultExec)
    /\ args.hard = NumberUpTo("--hard-timeout-ms", n, HardOfEnv)
    /\ HasUpTo("--hard-timeout-ms", n) => args.hard # Off
    /\ args.idle = NumberUpTo("--idle-ms", n, DefaultIdle)
    /\ args.cols = NumberUpTo("--cols", n, ColsOfEnv)
    /\ args.wrap = NumberUpTo("--wrap-input", n, 0)
    /\ args.grace = NumberUpTo("--extract-grace-ms", n, Off)

\* ... and the paths.
PathsRead(n) ==
    /\ args.cwd = PathUpTo("--cwd", n, Absent)
    /\ args.resultFile = PathUpTo("--result-file", n, ResultFileOfEnv)
    /\ args.transcriptDir = PathUpTo("--transcript-dir", n, Absent)

AsRead(n) ==
    /\ DOMAIN args = DOMAIN NoArgs /\ args.program = argv[Split + 1]
    /\ CommandsRead(n) /\ FlagsRead(n) /\ NumbersRead(n) /\ PathsRead(n)

\* A step of the loop: opt has been read with the places up to m.
OptionRead(opt, n, m) ==
    /\ UNCHANGED <<argv, env>> /\ Split' = Split
    /\ \A o : HasUpTo(o, m)' <=> HasUpTo(o, n) \/ o = opt
    /\ \A o : o # opt => GivenUpTo(o, m)' = GivenUpTo(o, n)

\* What an option sets.
CommandNames == {"hasCmd", "hasCmdFile", "cmds", "prompts"}
FlagNames == {"extract", "structural", "tui", "confirm", "approve", "burst", "paste",
              "transcriptOff"}
NumberNames == {"exec", "hard", "idle", "cols", "wrap", "grace"}
PathNames == {"cwd", "resultFile", "transcriptDir"}
Names == CommandNames \cup FlagNames \cup NumberNames \cup PathNames \cup {"program"}
CommandOptions == {"--cmd", "--cmd-file", "--prompt"}
PathOptions == {"--cwd", "--result-file", "--transcript-dir"}

\* Options of other names are as they were.
LEMMA OthersRead ==
  ASSUME NEW n \in Nat, NEW m \in Nat, NEW opt, OptionRead(opt, n, m)
  PROVE  \A o, d : o # opt =>
            /\ HasUpTo(o, m)' <=> HasUpTo(o, n)
            /\ GivenUpTo(o, m)' = GivenUpTo(o, n)
            /\ NumberUpTo(o, m, d)' = NumberUpTo(o, n, d)
            /\ PathUpTo(o, m, d)' = PathUpTo(o, n, d)
  BY DEF OptionRead, NumberUpTo, PathUpTo

\* What other options set stays as they left it.
LEMMA OthersSet ==
  ASSUME NEW n \in Nat, NEW m \in Nat, NEW opt, AsRead(n), OptionRead(opt, n, m)
  PROVE  /\ opt \notin CommandOptions /\ (\A f \in CommandNames : args'[f] = args[f]) => CommandsRead(m)'
         /\ opt \notin Flags /\ (\A f \in FlagNames : args'[f] = args[f]) => FlagsRead(m)'
         /\ opt \notin NumberOptions /\ (\A f \in NumberNames : args'[f] = args[f]) => NumbersRead(m)'
         /\ opt \notin PathOptions /\ (\A f \in PathNames : args'[f] = args[f]) => PathsRead(m)'
<1>1. env' = env /\ ResultFileOfEnv' = ResultFileOfEnv
  BY DEF OptionRead, ResultFileOfEnv
<1>2. ASSUME opt \notin CommandOptions, \A f \in CommandNames : args'[f] = args[f]
      PROVE  CommandsRead(m)'
  <2>1. \A o \in CommandOptions : /\ HasUpTo(o, m)' <=> HasUpTo(o, n)
                                 /\ GivenUpTo(o, m)' = GivenUpTo(o, n)
    BY <1>2, OthersRead
  <2>2. CommandsRead(n)
    BY DEF AsRead
  <2>3. QED BY <1>2, <2>1, <2>2 DEF CommandsRead, CommandNames, CommandOptions
<1>3. ASSUME opt \notin Flags, \A f \in FlagNames : args'[f] = args[f]
      PROVE  FlagsRead(m)'
  BY <1>3, OthersRead DEF AsRead, FlagsRead, FlagNames, Flags
<1>4. ASSUME opt \notin NumberOptions, \A f \in NumberNames : args'[f] = args[f]
      PROVE  NumbersRead(m)'
  <2>1. \A o \in NumberOptions : \A d :
            /\ HasUpTo(o, m)' <=> HasUpTo(o, n)
            /\ GivenUpTo(o, m)' = GivenUpTo(o, n)
            /\ NumberUpTo(o, m, d)' = NumberUpTo(o, n, d)
    BY <1>4, OthersRead
  <2>2. NumbersRead(n)
    BY DEF AsRead
  <2>3. HardOfEnv' = HardOfEnv /\ ColsOfEnv' = ColsOfEnv
    BY <1>1 DEF HardOfEnv, ColsOfEnv
  <2>4. /\ args'.exec = args.exec /\ args'.hard = args.hard /\ args'.idle = args.idle
        /\ args'.cols = args.cols /\ args'.wrap = args.wrap /\ args'.grace = args.grace
    BY <1>4 DEF NumberNames
  <2>5. /\ args'.exec = NumberUpTo("--timeout-ms", m, DefaultExec)'
        /\ args'.hard = NumberUpTo("--hard-timeout-ms", m, HardOfEnv)'
        /\ HasUpTo("--hard-timeout-ms", m)' => args'.hard # Off
    BY <1>4, <2>2, <2>3, <2>4, OthersRead DEF NumbersRead, NumberOptions
  <2>6. /\ args'.idle = NumberUpTo("--idle-ms", m, DefaultIdle)'
        /\ args'.cols = NumberUpTo("--cols", m, ColsOfEnv)'
        /\ args'.wrap = NumberUpTo("--wrap-input", m, 0)'
        /\ args'.grace = NumberUpTo("--extract-grace-ms", m, Off)'
    BY <1>4, <2>2, <2>3, <2>4, OthersRead DEF NumbersRead, NumberOptions
  <2>7. QED BY <2>5, <2>6 DEF NumbersRead
<1>5. ASSUME opt \notin PathOptions, \A f \in PathNames : args'[f] = args[f]
      PROVE  PathsRead(m)'
  BY <1>1, <1>5, OthersRead DEF AsRead, PathsRead, PathNames, PathOptions
<1>6. QED BY <1>2, <1>3, <1>4, <1>5

\* All parts together.
LEMMA AllSet ==
  ASSUME NEW n \in Nat, NEW m \in Nat, NEW opt, AsRead(n), OptionRead(opt, n, m),
         NEW D \in SUBSET Names, "program" \notin D,
         DOMAIN args' = DOMAIN args, \A f \in Names \ D : args'[f] = args[f],
         \/ D \subseteq CommandNames /\ opt \in CommandOptions /\ CommandsRead(m)'
         \/ D \subseteq FlagNames /\ opt \in Flags /\ FlagsRead(m)'
         \/ D \subseteq NumberNames /\ opt \in NumberOptions /\ NumbersRead(m)'
         \/ D \subseteq PathNames /\ opt \in PathOptions /\ PathsRead(m)'
  PROVE  AsRead(m)'
<1>1. /\ CommandNames \cap D = {} => \A f \in CommandNames : args'[f] = args[f]
      /\ FlagNames \cap D = {} => \A f \in FlagNames : args'[f] = args[f]
      /\ NumberNames \cap D = {} => \A f \in NumberNames : args'[f] = args[f]
      /\ PathNames \cap D = {} => \A f \in PathNames : args'[f] = args[f]
      /\ args'.program = args.program
  BY DEF Names
<1>2. /\ opt \in CommandOptions => opt \notin Flags \cup NumberOptions \cup PathOptions
      /\ opt \in Flags => opt \notin CommandOptions \cup NumberOptions \cup PathOptions
      /\ opt \in NumberOptions => opt \notin CommandOptions \cup Flags \cup PathOptions
      /\ opt \in PathOptions => opt \notin CommandOptions \cup Flags \cup NumberOptions
  BY DEF CommandOptions, Flags, NumberOptions, PathOptions
<1>3. /\ D \subseteq CommandNames => {} = FlagNames \cap D /\ {} = NumberNames \cap D /\ {} = PathNames \cap D
      /\ D \subseteq FlagNames => {} = CommandNames \cap D /\ {} = NumberNames \cap D /\ {} = PathNames \cap D
      /\ D \subseteq NumberNames => {} = CommandNames \cap D /\ {} = FlagNames \cap D /\ {} = PathNames \cap D
      /\ D \subseteq PathNames => {} = CommandNames \cap D /\ {} = FlagNames \cap D /\ {} = NumberNames \cap D
  BY DEF CommandNames, FlagNames, NumberNames, PathNames
<1>4. CommandsRead(m)' /\ FlagsRead(m)' /\ NumbersRead(m)' /\ PathsRead(m)'
  BY <1>1, <1>2, <1>3, OthersSet
<1>5. argv' = argv /\ Split' = Split
  BY DEF OptionRead
<1>6. QED BY <1>1, <1>4, <1>5 DEF AsRead

\* A flag that is given now or was given before.
LEMMA FlagSets ==
  ASSUME NEW n \in Nat, NEW m \in Nat, NEW opt \in Flags, AsRead(n), OptionRead(opt, n, m),
         args' = SetFlag(opt)
  PROVE  AsRead(m)'
<1>1. HasUpTo(opt, m)' /\ env' = env /\ ResultFileOfEnv' = ResultFileOfEnv
  BY DEF OptionRead, ResultFileOfEnv
<1>2. DOMAIN args = Names
  BY DEF AsRead, NoArgs, Names, CommandNames, FlagNames, NumberNames, PathNames
<1>3. CASE opt = "--no-confirm"
  <2>1. args' = [args EXCEPT !.confirm = FALSE]
    BY <1>3 DEF SetFlag
  <2>2. DOMAIN args' = DOMAIN args /\ \A f \in Names \ {"confirm"} : args'[f] = args[f]
    BY <1>2, <2>1
  <2>3. FlagsRead(m)'
    BY <1>1, <1>2, <1>3, <2>1, OthersRead DEF AsRead, FlagsRead, Names, FlagNames
  <2>4. {"confirm"} \subseteq FlagNames /\ opt \in Flags
    BY <1>3 DEF FlagNames, Flags
  <2>5. QED
    <3> DEFINE D == {"confirm"}
    <3> HIDE DEF D
    <3>1. D \in SUBSET Names /\ "program" \notin D
      BY <2>4 DEF D, Names, FlagNames
    <3>2. QED BY <2>2, <2>3, <2>4, <3>1, AllSet DEF D
<1>4. CASE opt = "--auto-approve"
  <2>1. args' = [args EXCEPT !.approve = TRUE]
    BY <1>4 DEF SetFlag
  <2>2. DOMAIN args' = DOMAIN args /\ \A f \in Names \ {"approve"} : args'[f] = args[f]
    BY <1>2, <2>1
  <2>3. FlagsRead(m)'
    BY <1>1, <1>2, <1>4, <2>1, OthersRead DEF AsRead, FlagsRead, Names, FlagNames
  <2>4. {"approve"} \subseteq FlagNames /\ opt \in Flags
    BY <1>4 DEF FlagNames, Flags
  <2>5. QED
    <3> DEFINE D == {"approve"}
    <3> HIDE DEF D
    <3>1. D \in SUBSET Names /\ "program" \notin D
      BY <2>4 DEF D, Names, FlagNames
    <3>2. QED BY <2>2, <2>3, <2>4, <3>1, AllSet DEF D
<1>5. CASE opt = "--tui"
  <2>1. args' = [args EXCEPT !.tui = TRUE]
    BY <1>5 DEF SetFlag
  <2>2. DOMAIN args' = DOMAIN args /\ \A f \in Names \ {"tui"} : args'[f] = args[f]
    BY <1>2, <2>1
  <2>3. FlagsRead(m)'
    BY <1>1, <1>2, <1>5, <2>1, OthersRead DEF AsRead, FlagsRead, Names, FlagNames
  <2>4. {"tui"} \subseteq FlagNames /\ opt \in Flags
    BY <1>5 DEF FlagNames, Flags
  <2>5. QED
    <3> DEFINE D == {"tui"}
    <3> HIDE DEF D
    <3>1. D \in SUBSET Names /\ "program" \notin D
      BY <2>4 DEF D, Names, FlagNames
    <3>2. QED BY <2>2, <2>3, <2>4, <3>1, AllSet DEF D
<1>6. CASE opt = "--extract"
  <2>1. args' = [args EXCEPT !.extract = TRUE, !.tui = TRUE]
    BY <1>6 DEF SetFlag
  <2>2. DOMAIN args' = DOMAIN args /\ \A f \in Names \ {"extract", "tui"} : args'[f] = args[f]
    BY <1>2, <2>1
  <2>3. FlagsRead(m)'
    BY <1>1, <1>2, <1>6, <2>1, OthersRead DEF AsRead, FlagsRead, Names, FlagNames
  <2>4. {"extract", "tui"} \subseteq FlagNames /\ opt \in Flags
    BY <1>6 DEF FlagNames, Flags
  <2>5. QED
    <3> DEFINE D == {"extract", "tui"}
    <3> HIDE DEF D
    <3>1. D \in SUBSET Names /\ "program" \notin D
      BY <2>4 DEF D, Names, FlagNames
    <3>2. QED BY <2>2, <2>3, <2>4, <3>1, AllSet DEF D
<1>7. CASE opt = "--extract-structural"
  <2>1. args' = [args EXCEPT !.extract = TRUE, !.structural = TRUE, !.tui = TRUE]
    BY <1>7 DEF SetFlag
  <2>2. DOMAIN args' = DOMAIN args /\ \A f \in Names \ {"extract", "structural", "tui"} : args'[f] = args[f]
    BY <1>2, <2>1
  <2>3. FlagsRead(m)'
    BY <1>1, <1>2, <1>7, <2>1, OthersRead DEF AsRead, FlagsRead, Names, FlagNames
  <2>4. {"extract", "structural", "tui"} \subseteq FlagNames /\ opt \in Flags
    BY <1>7 DEF FlagNames, Flags
  <2>5. QED
    <3> DEFINE D == {"extract", "structural", "tui"}
    <3> HIDE DEF D
    <3>1. D \in SUBSET Names /\ "program" \notin D
      BY <2>4 DEF D, Names, FlagNames
    <3>2. QED BY <2>2, <2>3, <2>4, <3>1, AllSet DEF D
<1>8. CASE opt = "--no-transcript-read"
  <2>1. args' = [args EXCEPT !.transcriptOff = TRUE]
    BY <1>8 DEF SetFlag
  <2>2. DOMAIN args' = DOMAIN args /\ \A f \in Names \ {"transcriptOff"} : args'[f] = args[f]
    BY <1>2, <2>1
  <2>3. FlagsRead(m)'
    BY <1>1, <1>2, <1>8, <2>1, OthersRead DEF AsRead, FlagsRead, Names, FlagNames
  <2>4. {"transcriptOff"} \subseteq FlagNames /\ opt \in Flags
    BY <1>8 DEF FlagNames, Flags
  <2>5. QED
    <3> DEFINE D == {"transcriptOff"}
    <3> HIDE DEF D
    <3>1. D \in SUBSET Names /\ "program" \notin D
      BY <2>4 DEF D, Names, FlagNames
    <3>2. QED BY <2>2, <2>3, <2>4, <3>1, AllSet DEF D
<1>9. CASE opt = "--no-jitter"
  <2>1. args' = [args EXCEPT !.burst = TRUE]
    BY <1>9 DEF SetFlag
  <2>2. DOMAIN args' = DOMAIN args /\ \A f \in Names \ {"burst"} : args'[f] = args[f]
    BY <1>2, <2>1
  <2>3. FlagsRead(m)'
    BY <1>1, <1>2, <1>9, <2>1, OthersRead DEF AsRead, FlagsRead, Names, FlagNames
  <2>4. {"burst"} \subseteq FlagNames /\ opt \in Flags
    BY <1>9 DEF FlagNames, Flags
  <2>5. QED
    <3> DEFINE D == {"burst"}
    <3> HIDE DEF D
    <3>1. D \in SUBSET Names /\ "program" \notin D
      BY <2>4 DEF D, Names, FlagNames
    <3>2. QED BY <2>2, <2>3, <2>4, <3>1, AllSet DEF D
<1>10. CASE opt = "--paste-input"
  <2>1. args' = [args EXCEPT !.paste = TRUE]
    BY <1>10 DEF SetFlag
  <2>2. DOMAIN args' = DOMAIN args /\ \A f \in Names \ {"paste"} : args'[f] = args[f]
    BY <1>2, <2>1
  <2>3. FlagsRead(m)'
    BY <1>1, <1>2, <1>10, <2>1, OthersRead DEF AsRead, FlagsRead, Names, FlagNames
  <2>4. {"paste"} \subseteq FlagNames /\ opt \in Flags
    BY <1>10 DEF FlagNames, Flags
  <2>5. QED
    <3> DEFINE D == {"paste"}
    <3> HIDE DEF D
    <3>1. D \in SUBSET Names /\ "program" \notin D
      BY <2>4 DEF D, Names, FlagNames
    <3>2. QED BY <2>2, <2>3, <2>4, <3>1, AllSet DEF D
<1>11. QED BY <1>3, <1>4, <1>5, <1>6, <1>7, <1>8, <1>9, <1>10 DEF Flags

\* A number that is given now replaces the one given before.
LEMMA NumberSets ==
  ASSUME NEW n \in Nat, NEW m \in Nat, NEW opt \in NumberOptions, NEW v,
         AsRead(n), OptionRead(opt, n, m), Numbers[v] \in Nat, Last(GivenUpTo(opt, m)') = v,
         args' = SetNumber(opt, Numbers[v])
  PROVE  AsRead(m)'
<1>1. HasUpTo(opt, m)' /\ HardOfEnv' = HardOfEnv /\ ColsOfEnv' = ColsOfEnv
  BY DEF OptionRead, HardOfEnv, ColsOfEnv
<1>2. DOMAIN args = Names
  BY DEF AsRead, NoArgs, Names, CommandNames, FlagNames, NumberNames, PathNames
<1> DEFINE k == Numbers[v]
<1>3. k \in Nat /\ k # Off /\ \A d : NumberUpTo(opt, m, d)' = k
  BY <1>1 DEF NumberUpTo, Off
<1>4. args' = SetNumber(opt, k)
  OBVIOUS
<1> HIDE DEF k
<1>5. CASE opt = "--timeout-ms"
  <2>1. args' = [args EXCEPT !.exec = k]
    BY <1>4, <1>5 DEF SetNumber
  <2>2. DOMAIN args' = DOMAIN args /\ \A f \in Names \ {"exec"} : args'[f] = args[f]
    BY <1>2, <2>1
  <2>3. NumbersRead(m)'
    BY <1>3, <1>1, <1>2, <1>5, <2>1, OthersRead DEF AsRead, NumbersRead, Names, NumberNames
  <2>4. {"exec"} \subseteq NumberNames /\ opt \in NumberOptions
    BY <1>5 DEF NumberNames, NumberOptions
  <2>5. QED
    <3> DEFINE D == {"exec"}
    <3> HIDE DEF D
    <3>1. D \in SUBSET Names /\ "program" \notin D
      BY <2>4 DEF D, Names, NumberNames
    <3>2. QED BY <2>2, <2>3, <2>4, <3>1, AllSet DEF D
<1>6. CASE opt = "--hard-timeout-ms"
  <2>1. args' = [args EXCEPT !.hard = k]
    BY <1>4, <1>6 DEF SetNumber
  <2>2. DOMAIN args' = DOMAIN args /\ \A f \in Names \ {"hard"} : args'[f] = args[f]
    BY <1>2, <2>1
  <2>3. NumbersRead(m)'
    BY <1>3, <1>1, <1>2, <1>6, <2>1, OthersRead DEF AsRead, NumbersRead, Names, NumberNames
  <2>4. {"hard"} \subseteq NumberNames /\ opt \in NumberOptions
    BY <1>6 DEF NumberNames, NumberOptions
  <2>5. QED
    <3> DEFINE D == {"hard"}
    <3> HIDE DEF D
    <3>1. D \in SUBSET Names /\ "program" \notin D
      BY <2>4 DEF D, Names, NumberNames
    <3>2. QED BY <2>2, <2>3, <2>4, <3>1, AllSet DEF D
<1>7. CASE opt = "--idle-ms"
  <2>1. args' = [args EXCEPT !.idle = k]
    BY <1>4, <1>7 DEF SetNumber
  <2>2. DOMAIN args' = DOMAIN args /\ \A f \in Names \ {"idle"} : args'[f] = args[f]
    BY <1>2, <2>1
  <2>3. NumbersRead(m)'
    BY <1>3, <1>1, <1>2, <1>7, <2>1, OthersRead DEF AsRead, NumbersRead, Names, NumberNames
  <2>4. {"idle"} \subseteq NumberNames /\ opt \in NumberOptions
    BY <1>7 DEF NumberNames, NumberOptions
  <2>5. QED
    <3> DEFINE D == {"idle"}
    <3> HIDE DEF D
    <3>1. D \in SUBSET Names /\ "program" \notin D
      BY <2>4 DEF D, Names, NumberNames
    <3>2. QED BY <2>2, <2>3, <2>4, <3>1, AllSet DEF D
<1>8. CASE opt = "--extract-grace-ms"
  <2>1. args' = [args EXCEPT !.grace = k]
    BY <1>4, <1>8 DEF SetNumber
  <2>2. DOMAIN args' = DOMAIN args /\ \A f \in Names \ {"grace"} : args'[f] = args[f]
    BY <1>2, <2>1
  <2>3. NumbersRead(m)'
    BY <1>3, <1>1, <1>2, <1>8, <2>1, OthersRead DEF AsRead, NumbersRead, Names, NumberNames
  <2>4. {"grace"} \subseteq NumberNames /\ opt \in NumberOptions
    BY <1>8 DEF NumberNames, NumberOptions
  <2>5. QED
    <3> DEFINE D == {"grace"}
    <3> HIDE DEF D
    <3>1. D \in SUBSET Names /\ "program" \notin D
      BY <2>4 DEF D, Names, NumberNames
    <3>2. QED BY <2>2, <2>3, <2>4, <3>1, AllSet DEF D
<1>9. CASE opt = "--cols"
  <2>1. args' = [args EXCEPT !.cols = k]
    BY <1>4, <1>9 DEF SetNumber
  <2>2. DOMAIN args' = DOMAIN args /\ \A f \in Names \ {"cols"} : args'[f] = args[f]
    BY <1>2, <2>1
  <2>3. NumbersRead(m)'
    BY <1>3, <1>1, <1>2, <1>9, <2>1, OthersRead DEF AsRead, NumbersRead, Names, NumberNames
  <2>4. {"cols"} \subseteq NumberNames /\ opt \in NumberOptions
    BY <1>9 DEF NumberNames, NumberOptions
  <2>5. QED
    <3> DEFINE D == {"cols"}
    <3> HIDE DEF D
    <3>1. D \in SUBSET Names /\ "program" \notin D
      BY <2>4 DEF D, Names, NumberNames
    <3>2. QED BY <2>2, <2>3, <2>4, <3>1, AllSet DEF D
<1>10. CASE opt = "--wrap-input"
  <2>1. args' = [args EXCEPT !.wrap = k]
    BY <1>4, <1>10 DEF SetNumber
  <2>2. DOMAIN args' = DOMAIN args /\ \A f \in Names \ {"wrap"} : args'[f] = args[f]
    BY <1>2, <2>1
  <2>3. NumbersRead(m)'
    BY <1>3, <1>1, <1>2, <1>10, <2>1, OthersRead DEF AsRead, NumbersRead, Names, NumberNames
  <2>4. {"wrap"} \subseteq NumberNames /\ opt \in NumberOptions
    BY <1>10 DEF NumberNames, NumberOptions
  <2>5. QED
    <3> DEFINE D == {"wrap"}
    <3> HIDE DEF D
    <3>1. D \in SUBSET Names /\ "program" \notin D
      BY <2>4 DEF D, Names, NumberNames
    <3>2. QED BY <2>2, <2>3, <2>4, <3>1, AllSet DEF D
<1>11. QED BY <1>5, <1>6, <1>7, <1>8, <1>9, <1>10 DEF NumberOptions

\* A text that is given now is appended or replaces the one given before.
LEMMA TextSets ==
  ASSUME argv \in Seq(STRING), NEW n \in Nat, n <= Split - 1, NEW m \in Nat,
         NEW opt \in ValueOptions \ NumberOptions, NEW v,
         AsRead(n), OptionRead(opt, n, m), ~Conflicts(opt),
         GivenUpTo(opt, m)' = Append(GivenUpTo(opt, n), v), Last(GivenUpTo(opt, m)') = v,
         args' = SetText(opt, v)
  PROVE  AsRead(m)'
<1>1. HasUpTo(opt, m)' /\ env' = env /\ ResultFileOfEnv' = ResultFileOfEnv
  BY DEF OptionRead, ResultFileOfEnv
<1>2. DOMAIN args = Names
  BY DEF AsRead, NoArgs, Names, CommandNames, FlagNames, NumberNames, PathNames
<1>3. \A d : PathUpTo(opt, m, d)' = <<v>>
  BY <1>1 DEF PathUpTo
<1>4. \A o : ~HasUpTo(o, n) => GivenUpTo(o, n) = <<>>
  <2>1. n \in 0 .. Split - 1
    BY OptionsAre
  <2>2. QED BY <2>1, NotGiven
<1>5. /\ opt = "--cmd" => ~HasUpTo("--cmd-file", n) /\ args.cmds = GivenUpTo("--cmd", n)
      /\ opt = "--cmd-file" => ~HasUpTo("--cmd", n) /\ args.cmds = GivenUpTo("--cmd-file", n)
      /\ opt = "--prompt" => args.prompts = GivenUpTo("--prompt", n)
  BY <1>4 DEF Conflicts, AsRead, CommandsRead
<1>6. CASE opt = "--cmd"
  <2>1. args' = [args EXCEPT !.hasCmd = TRUE, !.cmds = Append(@, v)]
    BY <1>6 DEF SetText
  <2>2. DOMAIN args' = DOMAIN args /\ \A f \in Names \ {"hasCmd", "cmds"} : args'[f] = args[f]
    BY <1>2, <2>1
  <2>3. CommandsRead(m)'
    BY <1>5, <1>1, <1>2, <1>6, <2>1, OthersRead DEF AsRead, CommandsRead, Names, CommandNames
  <2>4. {"hasCmd", "cmds"} \subseteq CommandNames /\ opt \in CommandOptions
    BY <1>6 DEF CommandNames, CommandOptions
  <2>5. QED
    <3> DEFINE D == {"hasCmd", "cmds"}
    <3> HIDE DEF D
    <3>1. D \in SUBSET Names /\ "program" \notin D
      BY <2>4 DEF D, Names, CommandNames
    <3>2. QED BY <2>2, <2>3, <2>4, <3>1, AllSet DEF D
<1>7. CASE opt = "--cmd-file"
  <2>1. args' = [args EXCEPT !.hasCmdFile = TRUE, !.cmds = Append(@, v)]
    BY <1>7 DEF SetText
  <2>2. DOMAIN args' = DOMAIN args /\ \A f \in Names \ {"hasCmdFile", "cmds"} : args'[f] = args[f]
    BY <1>2, <2>1
  <2>3. CommandsRead(m)'
    BY <1>5, <1>1, <1>2, <1>7, <2>1, OthersRead DEF AsRead, CommandsRead, Names, CommandNames
  <2>4. {"hasCmdFile", "cmds"} \subseteq CommandNames /\ opt \in CommandOptions
    BY <1>7 DEF CommandNames, CommandOptions
  <2>5. QED
    <3> DEFINE D == {"hasCmdFile", "cmds"}
    <3> HIDE DEF D
    <3>1. D \in SUBSET Names /\ "program" \notin D
      BY <2>4 DEF D, Names, CommandNames
    <3>2. QED BY <2>2, <2>3, <2>4, <3>1, AllSet DEF D
<1>8. CASE opt = "--prompt"
  <2>1. args' = [args EXCEPT !.prompts = Append(@, v)]
    BY <1>8 DEF SetText
  <2>2. DOMAIN args' = DOMAIN args /\ \A f \in Names \ {"prompts"} : args'[f] = args[f]
    BY <1>2, <2>1
  <2>3. CommandsRead(m)'
    BY <1>5, <1>1, <1>2, <1>8, <2>1, OthersRead DEF AsRead, CommandsRead, Names, CommandNames
  <2>4. {"prompts"} \subseteq CommandNames /\ opt \in CommandOptions
    BY <1>8 DEF CommandNames, CommandOptions
  <2>5. QED
    <3> DEFINE D == {"prompts"}
    <3> HIDE DEF D
    <3>1. D \in SUBSET Names /\ "program" \notin D
      BY <2>4 DEF D, Names, CommandNames
    <3>2. QED BY <2>2, <2>3, <2>4, <3>1, AllSet DEF D
<1>9. CASE opt = "--cwd"
  <2>1. args' = [args EXCEPT !.cwd = <<v>>]
    BY <1>9 DEF SetText
  <2>2. DOMAIN args' = DOMAIN args /\ \A f \in Names \ {"cwd"} : args'[f] = args[f]
    BY <1>2, <2>1
  <2>3. PathsRead(m)'
    BY <1>3, <1>1, <1>2, <1>9, <2>1, OthersRead DEF AsRead, PathsRead, Names, PathNames
  <2>4. {"cwd"} \subseteq PathNames /\ opt \in PathOptions
    BY <1>9 DEF PathNames, PathOptions
  <2>5. QED
    <3> DEFINE D == {"cwd"}
    <3> HIDE DEF D
    <3>1. D \in SUBSET Names /\ "program" \notin D
      BY <2>4 DEF D, Names, PathNames
    <3>2. QED BY <2>2, <2>3, <2>4, <3>1, AllSet DEF D
<1>10. CASE opt = "--transcript-dir"
  <2>1. args' = [args EXCEPT !.transcriptDir = <<v>>]
    BY <1>10 DEF SetText
  <2>2. DOMAIN args' = DOMAIN args /\ \A f \in Names \ {"transcriptDir"} : args'[f] = args[f]
    BY <1>2, <2>1
  <2>3. PathsRead(m)'
    BY <1>3, <1>1, <1>2, <1>10, <2>1, OthersRead DEF AsRead, PathsRead, Names, PathNames
  <2>4. {"transcriptDir"} \subseteq PathNames /\ opt \in PathOptions
    BY <1>10 DEF PathNames, PathOptions
  <2>5. QED
    <3> DEFINE D == {"transcriptDir"}
    <3> HIDE DEF D
    <3>1. D \in SUBSET Names /\ "program" \notin D
      BY <2>4 DEF D, Names, PathNames
    <3>2. QED BY <2>2, <2>3, <2>4, <3>1, AllSet DEF D
<1>11. CASE opt = "--result-file"
  <2>1. args' = [args EXCEPT !.resultFile = <<v>>]
    BY <1>11 DEF SetText
  <2>2. DOMAIN args' = DOMAIN args /\ \A f \in Names \ {"resultFile"} : args'[f] = args[f]
    BY <1>2, <2>1
  <2>3. PathsRead(m)'
    BY <1>3, <1>1, <1>2, <1>11, <2>1, OthersRead DEF AsRead, PathsRead, Names, PathNames
  <2>4. {"resultFile"} \subseteq PathNames /\ opt \in PathOptions
    BY <1>11 DEF PathNames, PathOptions
  <2>5. QED
    <3> DEFINE D == {"resultFile"}
    <3> HIDE DEF D
    <3>1. D \in SUBSET Names /\ "program" \notin D
      BY <2>4 DEF D, Names, PathNames
    <3>2. QED BY <2>2, <2>3, <2>4, <3>1, AllSet DEF D
<1>12. QED BY <1>6, <1>7, <1>8, <1>9, <1>10, <1>11 DEF ValueOptions

-----------------------------------------------------------------------------
\* The invariant: in the loop, what has been parsed is what the options so far say.
ReadInv ==
    /\ argv \in Seq(STRING)
    /\ mode = "head" => at = 1
    /\ mode = "loop" =>
          /\ Split < Len(argv) /\ EnvIsValid
          /\ \E n \in Nat : /\ at = n + 1 /\ at <= Split
                            /\ at < Split => IsOption[at]
                            /\ AsRead(n)
    /\ ParsedAsGiven

\* The command line stays as it is while it is parsed.
LEMMA SameLine ==
  ASSUME UNCHANGED <<argv, env>>
  PROVE  /\ Split' = Split /\ Options' = Options /\ EnvIsValid' = EnvIsValid
         /\ ResultFileOfEnv' = ResultFileOfEnv
         /\ \A i : IsOption[i]' = IsOption[i]
         /\ \A o, n : HasUpTo(o, n)' = HasUpTo(o, n) /\ GivenUpTo(o, n)' = GivenUpTo(o, n)
  BY DEF Split, SplitOf, IsOption, Options, HasUpTo, GivenUpTo, ResultFileOfEnv, EnvIsValid

\* Before the loop: the environment only.
LEMMA ReadHead == ASSUME ReadInv, ParseHead PROVE ReadInv'
<1> USE DEF ReadInv
<1>1. /\ UNCHANGED <<argv, env, at>> /\ mode = "head" /\ at = 1
      /\ mode' = CASE WantsHelp          -> "help"
                   [] WantsVersion       -> "version"
                   [] Split >= Len(argv) -> "error"
                   [] ~EnvIsValid        -> "error"
                   [] OTHER              -> "loop"
      /\ args' = IF mode' = "loop" THEN [FromEnv EXCEPT !.program = argv[Split + 1]] ELSE args
  BY DEF ParseHead
<1>2. /\ Len(argv) \in Nat /\ Split \in 1 .. Len(argv) + 1 /\ DOMAIN Options = 1 .. Split - 1
      /\ \A i \in 1 .. Split - 1 : Options[i] = argv[i]
  BY OptionsAre
<1>3. CASE mode' \in {"help", "version"}
  <2>1. WantsHelp \/ WantsVersion
    BY <1>1, <1>3
  <2>2. Split <= Len(argv) =>
          \E i \in 1 .. Split - 1 : argv[i] \in {"-h", "--help", "-V", "--version"}
    BY <1>2, <2>1 DEF WantsHelp, WantsVersion, Asks
  <2>3. ParsedAsGiven'
    BY <1>1, <1>3, <2>2, SameLine DEF ParsedAsGiven
  <2>4. QED BY <1>1, <1>3, <2>3
<1>4. CASE mode' = "error"
  BY <1>1, <1>4 DEF ParsedAsGiven
<1>5. CASE mode' = "loop"
  <2>1. EnvIsValid /\ Split < Len(argv)
    BY <1>1, <1>2, <1>5
  <2>2. 1 < Split => IsOption[1]
    BY <1>2, OptionAt
  <2>3. \A o : ~HasUpTo(o, 0) /\ GivenUpTo(o, 0) = <<>>
    <3>1. ASSUME NEW o PROVE GivenUpTo(o, 0) = <<>>
      BY GivenAt
    <3>2. ASSUME NEW o PROVE ~HasUpTo(o, 0)
      BY DEF HasUpTo
    <3>3. QED BY <3>1, <3>2
  <2> DEFINE p == argv[Split + 1]
  <2>4. args' = [FromEnv EXCEPT !.program = p]
    BY <1>1, <1>5
  <2> HIDE DEF p
  <2>5. /\ DOMAIN FromEnv = Names /\ "program" \in Names
        /\ FromEnv.cols = ColsOfEnv /\ FromEnv.hard = HardOfEnv
        /\ FromEnv.resultFile = ResultFileOfEnv
        /\ \A f \in Names \ {"cols", "hard", "resultFile"} : FromEnv[f] = NoArgs[f]
        /\ DOMAIN NoArgs = Names
    <3> DEFINE r == ResultFileOfEnv
    <3>1. FromEnv = [NoArgs EXCEPT !.cols = IF env.cols = "unset" THEN @ ELSE Numbers[env.cols],
                                   !.hard = IF env.hard = "unset" THEN @ ELSE Numbers[env.hard],
                                   !.resultFile = r]
      BY DEF FromEnv
    <3> HIDE DEF r
    <3>2. /\ DOMAIN NoArgs = Names /\ {"program", "cols", "hard", "resultFile"} \subseteq Names
          /\ NoArgs.cols = DefaultCols /\ NoArgs.hard = Off
      BY DEF NoArgs, Names, CommandNames, FlagNames, NumberNames, PathNames
    <3>3. QED BY <3>1, <3>2 DEF r, ColsOfEnv, HardOfEnv
  <2>6. /\ DOMAIN args' = Names /\ args'.program = p
        /\ \A f \in Names \ {"program"} : args'[f] = FromEnv[f]
    BY <2>4, <2>5
  <2>7. /\ args'.cols = ColsOfEnv /\ args'.hard = HardOfEnv /\ args'.resultFile = ResultFileOfEnv
        /\ \A f \in Names \ {"program", "cols", "hard", "resultFile"} : args'[f] = NoArgs[f]
    BY <2>5, <2>6 DEF Names, NumberNames, PathNames
  <2>8. \A o : ~HasUpTo(o, 0)' /\ GivenUpTo(o, 0)' = <<>>
    BY <1>1, <2>3, SameLine
  <2>9. CommandsRead(0)'
    <3>1. /\ args'.hasCmd = FALSE /\ args'.hasCmdFile = FALSE
          /\ args'.cmds = <<>> /\ args'.prompts = <<>>
      BY <2>7 DEF NoArgs, Names, CommandNames
    <3>2. QED BY <2>8, <3>1 DEF CommandsRead
  <2>10. FlagsRead(0)'
    <3>1. /\ args'.extract = FALSE /\ args'.structural = FALSE /\ args'.tui = FALSE
          /\ args'.confirm = TRUE /\ args'.approve = FALSE /\ args'.burst = FALSE
          /\ args'.paste = FALSE /\ args'.transcriptOff = FALSE
      BY <2>7 DEF NoArgs, Names, FlagNames
    <3>2. QED BY <2>8, <3>1 DEF FlagsRead
  <2>11. NumbersRead(0)'
    <3>1. /\ args'.exec = DefaultExec /\ args'.idle = DefaultIdle /\ args'.wrap = 0
          /\ args'.grace = Off
      BY <2>7 DEF NoArgs, Names, NumberNames
    <3>2. HardOfEnv' = HardOfEnv /\ ColsOfEnv' = ColsOfEnv
      BY <1>1 DEF HardOfEnv, ColsOfEnv
    <3>3. QED BY <2>7, <2>8, <3>1, <3>2 DEF NumbersRead, NumberUpTo
  <2>12. PathsRead(0)'
    <3>1. args'.cwd = Absent /\ args'.transcriptDir = Absent
      BY <2>7 DEF NoArgs, Names, PathNames
    <3>2. ResultFileOfEnv' = ResultFileOfEnv
      BY <1>1 DEF ResultFileOfEnv
    <3>3. QED BY <2>7, <2>8, <3>1, <3>2 DEF PathsRead, PathUpTo
  <2>13. AsRead(0)'
    <3>1. p = argv'[Split' + 1]
      BY <1>1, SameLine DEF p
    <3>2. QED BY <2>5, <2>6, <2>9, <2>10, <2>11, <2>12, <3>1 DEF AsRead
  <2>14. /\ Split' < Len(argv') /\ EnvIsValid' /\ at' = 0 + 1 /\ at' <= Split'
         /\ at' < Split' => IsOption[at]'
    BY <1>1, <1>2, <2>1, <2>2, SameLine
  <2>15. ParsedAsGiven'
    BY <1>5 DEF ParsedAsGiven
  <2>16. QED BY <1>1, <1>5, <2>13, <2>14, <2>15
<1>6. QED
  <2>1. mode' \in {"help", "version", "error", "loop"}
    BY <1>1
  <2>2. QED BY <1>3, <1>4, <1>5, <2>1

\* One option without a value.
LEMMA ReadFlag == ASSUME ReadInv, TakeFlag PROVE ReadInv'
<1> USE DEF ReadInv
<1> PICK opt : opt = argv[at]
  OBVIOUS
<1>1. /\ mode = "loop" /\ at < Split /\ opt \in Flags /\ args' = SetFlag(opt) /\ at' = at + 1
      /\ UNCHANGED <<argv, env, mode>>
  BY DEF TakeFlag
<1>2. PICK n \in Nat : at = n + 1 /\ at <= Split /\ IsOption[at] /\ AsRead(n)
  BY <1>1
<1>3. Split \in Nat /\ opt \notin ValueOptions
  BY <1>1, OptionsAre DEF Flags, ValueOptions, NumberOptions
<1>4. /\ n + 2 < Split => IsOption[n + 2]
      /\ \A o : HasUpTo(o, n + 1) <=> HasUpTo(o, n) \/ o = opt
      /\ \A o : o # opt => GivenUpTo(o, n + 1) = GivenUpTo(o, n)
  BY <1>1, <1>2, <1>3, FlagRead
<1>6. OptionRead(opt, n, n + 1)
  <2>1. \A o : HasUpTo(o, n + 1)' <=> HasUpTo(o, n) \/ o = opt
    BY <1>1, <1>4, SameLine
  <2>2. \A o : o # opt => GivenUpTo(o, n + 1)' = GivenUpTo(o, n)
    BY <1>1, <1>4, SameLine
  <2>3. QED BY <1>1, <2>1, <2>2, SameLine DEF OptionRead
<1>7. AsRead(n + 1)'
  <2> DEFINE m == n + 1
  <2>1. m \in Nat
    OBVIOUS
  <2> HIDE DEF m
  <2>2. OptionRead(opt, n, m) /\ args' = SetFlag(opt) /\ opt \in Flags
    BY <1>1, <1>6 DEF m
  <2>3. AsRead(m)'
    BY <1>2, <2>1, <2>2, FlagSets
  <2>4. QED BY <2>3 DEF m
<1>8. /\ n + 1 \in Nat /\ at' = (n + 1) + 1 /\ at' <= Split' /\ (at < Split => IsOption[at])'
      /\ Split' < Len(argv') /\ EnvIsValid'
  BY <1>1, <1>2, <1>3, <1>4, SameLine
<1>9. ParsedAsGiven'
  <2>1. mode' = "loop"
    BY <1>1
  <2>2. QED BY <2>1 DEF ParsedAsGiven
<1>10. QED
  <2> DEFINE m == n + 1
  <2>1. m \in Nat /\ at' = m + 1 /\ at' <= Split' /\ (at < Split => IsOption[at])' /\ AsRead(m)'
    BY <1>7, <1>8
  <2> HIDE DEF m
  <2>2. (\E k \in Nat : at = k + 1 /\ at <= Split /\ (at < Split => IsOption[at]) /\ AsRead(k))'
    BY <2>1
  <2>3. QED BY <1>1, <1>8, <1>9, <2>2

\* One option with its value.
LEMMA ReadValue == ASSUME ReadInv, TakeValue PROVE ReadInv'
<1> USE DEF ReadInv
<1> PICK opt, v : opt = argv[at] /\ v = argv[at + 1]
  OBVIOUS
<1>1. /\ mode = "loop" /\ at + 1 < Split /\ opt \in ValueOptions
      /\ ~Conflicts(opt) /\ Fits(opt, v)
      /\ args' = IF opt \in NumberOptions THEN SetNumber(opt, Numbers[v]) ELSE SetText(opt, v)
      /\ at' = at + 2
      /\ UNCHANGED <<argv, env, mode>>
  BY DEF TakeValue
<1>2. PICK n \in Nat : at = n + 1 /\ at <= Split /\ (at < Split => IsOption[at]) /\ AsRead(n)
  BY <1>1
<1>3. Split \in Nat /\ n + 1 < Split /\ n + 2 < Split /\ at + 1 = n + 2 /\ n <= Split - 1
  BY <1>1, <1>2, OptionsAre
<1>4. /\ n + 3 < Split => IsOption[n + 3]
      /\ \A o : HasUpTo(o, n + 2) <=> HasUpTo(o, n) \/ o = opt
      /\ \A o : o # opt => GivenUpTo(o, n + 2) = GivenUpTo(o, n)
      /\ GivenUpTo(opt, n + 2) = Append(GivenUpTo(opt, n), v)
      /\ Last(GivenUpTo(opt, n + 2)) = v
  BY <1>1, <1>2, <1>3, ValueRead
<1>5. /\ OptionRead(opt, n, n + 2)
      /\ GivenUpTo(opt, n + 2)' = Append(GivenUpTo(opt, n), v)
      /\ Last(GivenUpTo(opt, n + 2)') = v
  <2>1. \A o : HasUpTo(o, n + 2)' <=> HasUpTo(o, n) \/ o = opt
    BY <1>1, <1>4, SameLine
  <2>2. \A o : GivenUpTo(o, n + 2)' = GivenUpTo(o, n + 2)
    BY <1>1, SameLine
  <2>3. QED BY <1>1, <1>4, <2>1, <2>2, SameLine DEF OptionRead
<1>6. AsRead(n + 2)'
  <2> DEFINE m == n + 2
  <2>1. m \in Nat
    OBVIOUS
  <2> HIDE DEF m
  <2>2. /\ OptionRead(opt, n, m) /\ opt \in ValueOptions /\ ~Conflicts(opt) /\ Fits(opt, v)
        /\ GivenUpTo(opt, m)' = Append(GivenUpTo(opt, n), v)
        /\ Last(GivenUpTo(opt, m)') = v
    BY <1>1, <1>5 DEF m
  <2>3. CASE opt \in NumberOptions
    <3>1. Numbers[v] \in Nat /\ args' = SetNumber(opt, Numbers[v])
      BY <1>1, <2>2, <2>3, CommandLineAssumption DEF Fits, IsNumber
    <3>2. AsRead(m)'
      BY <1>2, <2>1, <2>2, <2>3, <3>1, NumberSets
    <3>3. QED BY <3>2 DEF m
  <2>4. CASE opt \notin NumberOptions
    <3>1. args' = SetText(opt, v) /\ opt \in ValueOptions \ NumberOptions
      BY <1>1, <2>2, <2>4
    <3>2. AsRead(m)'
      BY <1>2, <1>3, <2>1, <2>2, <3>1, TextSets
    <3>3. QED BY <3>2 DEF m
  <2>5. QED BY <2>3, <2>4
<1>7. /\ n + 2 \in Nat /\ at' = (n + 2) + 1 /\ at' <= Split' /\ (at < Split => IsOption[at])'
      /\ Split' < Len(argv') /\ EnvIsValid'
  BY <1>1, <1>2, <1>3, <1>4, SameLine
<1>8. ParsedAsGiven'
  <2>1. mode' = "loop"
    BY <1>1
  <2>2. QED BY <2>1 DEF ParsedAsGiven
<1>9. QED
  <2> DEFINE m == n + 2
  <2>1. m \in Nat /\ at' = m + 1 /\ at' <= Split' /\ (at < Split => IsOption[at])' /\ AsRead(m)'
    BY <1>6, <1>7
  <2> HIDE DEF m
  <2>2. (\E k \in Nat : at = k + 1 /\ at <= Split /\ (at < Split => IsOption[at]) /\ AsRead(k))'
    BY <2>1
  <2>3. QED BY <1>1, <1>7, <1>8, <2>2

\* After the loop: what is derived.
LEMMA ReadFinish == ASSUME ReadInv, FinishParsing PROVE ReadInv'
<1> USE DEF ReadInv
<1>1. /\ mode = "loop" /\ at = Split /\ UNCHANGED <<argv, env, at>>
      /\ \/ mode' = "error"
         \/ /\ mode' = "run" /\ ~(args.resultFile # Absent /\ ~args.extract)
            /\ args' = [args EXCEPT !.hard = HardTimeoutOf(args),
                                    !.transcriptDir = TranscriptDirOf(args)]
  BY DEF FinishParsing
<1>2. CASE mode' = "error"
  BY <1>1, <1>2 DEF ParsedAsGiven
<1>3. CASE mode' = "run"
  <2>1. PICK n \in Nat : at = n + 1 /\ AsRead(n)
    BY <1>1
  <2>2. /\ Len(Options) = n /\ Split' = Split /\ argv' = argv /\ env' = env
        /\ \A o : /\ Has(o)' <=> HasUpTo(o, n)
                  /\ Given(o)' = GivenUpTo(o, n)
    <3>1. Len(Options) = n
      BY <1>1, <2>1, OptionsAre
    <3>2. \A o : /\ HasUpTo(o, n)' <=> HasUpTo(o, n)
                 /\ GivenUpTo(o, n)' = GivenUpTo(o, n)
      BY <1>1, SameLine
    <3>3. Len(Options)' = n
      BY <1>1, <3>1, SameLine
    <3>4. QED BY <1>1, <3>1, <3>2, <3>3, SameLine DEF Has, Given
  <2> DEFINE h == HardTimeoutOf(args)
             t == TranscriptDirOf(args)
  <2>3. args' = [args EXCEPT !.hard = h, !.transcriptDir = t]
    BY <1>1, <1>3
  <2> HIDE DEF h, t
  <2>4. DOMAIN args = Names /\ "hard" \in Names /\ "transcriptDir" \in Names
    BY <2>1 DEF AsRead, NoArgs, Names, CommandNames, FlagNames, NumberNames, PathNames
  <2>5. /\ args'.hard = h /\ args'.transcriptDir = t
        /\ \A f \in Names \ {"hard", "transcriptDir"} : args'[f] = args[f]
    BY <2>3, <2>4
  <2>6. /\ args'.program = argv[Split + 1]
        /\ Has("--cmd")' /\ ~Has("--cmd-file")' => args'.cmds = Given("--cmd")'
        /\ ~Has("--cmd")' => args'.cmds = Given("--cmd-file")'
        /\ args'.prompts = Given("--prompt")'
    <3>1. /\ args'.program = args.program /\ args'.cmds = args.cmds /\ args'.prompts = args.prompts
      BY <2>5 DEF Names, CommandNames
    <3>2. CommandsRead(n) /\ args.program = argv[Split + 1]
      BY <2>1 DEF AsRead
    <3>3. QED BY <2>2, <3>1, <3>2 DEF CommandsRead
  <2>7. /\ args'.extract <=> Has("--extract")' \/ Has("--extract-structural")'
        /\ args'.structural <=> Has("--extract-structural")'
        /\ args'.tui <=> args'.extract \/ Has("--tui")'
        /\ args'.confirm <=> ~Has("--no-confirm")'
        /\ args'.approve <=> Has("--auto-approve")'
        /\ args'.burst <=> Has("--no-jitter")'
        /\ args'.paste <=> Has("--paste-input")'
        /\ args.transcriptOff <=> Has("--no-transcript-read")'
    <3>1. /\ args'.extract = args.extract /\ args'.structural = args.structural
          /\ args'.tui = args.tui /\ args'.confirm = args.confirm
          /\ args'.approve = args.approve /\ args'.burst = args.burst /\ args'.paste = args.paste
      BY <2>5 DEF Names, FlagNames
    <3>2. FlagsRead(n)
      BY <2>1 DEF AsRead
    <3>3. QED BY <2>2, <3>1, <3>2 DEF FlagsRead
  <2> DEFINE number(opt, v) == IF Has(opt)' THEN Numbers[Last(Given(opt)')] ELSE v
             fromEnv(v, default) == IF v = "unset" THEN default ELSE Numbers[v]
  <2>8. /\ args'.exec = number("--timeout-ms", DefaultExec)
        /\ args'.hard = number("--hard-timeout-ms", fromEnv(env'.hard, args'.exec))
        /\ args'.idle = number("--idle-ms", DefaultIdle)
        /\ args'.cols = number("--cols", fromEnv(env'.cols, DefaultCols))
        /\ args'.wrap = number("--wrap-input", 0)
        /\ args'.grace = number("--extract-grace-ms", Off)
    <3>1. /\ args'.exec = args.exec /\ args'.idle = args.idle /\ args'.cols = args.cols
          /\ args'.wrap = args.wrap /\ args'.grace = args.grace
      BY <2>5 DEF Names, NumberNames
    <3>2. NumbersRead(n)
      BY <2>1 DEF AsRead
    <3>3. /\ args.exec = number("--timeout-ms", DefaultExec)
          /\ args.idle = number("--idle-ms", DefaultIdle)
          /\ args.wrap = number("--wrap-input", 0)
          /\ args.grace = number("--extract-grace-ms", Off)
      BY <2>2, <3>2 DEF NumbersRead, NumberUpTo
    <3>4. args.cols = number("--cols", fromEnv(env'.cols, DefaultCols))
      BY <2>2, <3>2 DEF NumbersRead, NumberUpTo, ColsOfEnv
    <3>5. h = number("--hard-timeout-ms", fromEnv(env'.hard, args.exec))
      <4>1. CASE HasUpTo("--hard-timeout-ms", n)
        <5>1. args.hard # Off
          BY <3>2, <4>1 DEF NumbersRead
        <5>2. h = args.hard
          BY <5>1 DEF h, HardTimeoutOf
        <5>3. args.hard = Numbers[Last(GivenUpTo("--hard-timeout-ms", n))]
          BY <3>2, <4>1 DEF NumbersRead, NumberUpTo
        <5>4. QED BY <2>2, <4>1, <5>2, <5>3
      <4>2. CASE ~HasUpTo("--hard-timeout-ms", n)
        <5>1. args.hard = HardOfEnv
          BY <3>2, <4>2 DEF NumbersRead, NumberUpTo
        <5>2. env.hard # "unset" => Numbers[env.hard] # Off
          BY <1>1, CommandLineAssumption DEF EnvIsValid, IsNumber, Off
        <5>3. h = fromEnv(env.hard, args.exec)
          BY <5>1, <5>2 DEF h, HardTimeoutOf, HardOfEnv
        <5>4. QED BY <2>2, <4>2, <5>3
      <4>3. QED BY <4>1, <4>2
    <3>6. QED BY <2>5, <3>1, <3>3, <3>4, <3>5
  <2>9. /\ args'.resultFile = Latest("--result-file", ResultFileOfEnv)'
        /\ args'.resultFile # Absent => args'.extract
        /\ args'.cwd = Latest("--cwd", Absent)'
        /\ args'.transcriptDir =
             IF Has("--no-transcript-read")' THEN Absent
             ELSE IF Has("--transcript-dir")' THEN <<Last(Given("--transcript-dir")')>>
             ELSE IF args'.extract /\ env'.home THEN HomeDir ELSE Absent
    <3>1. /\ args'.resultFile = args.resultFile /\ args'.cwd = args.cwd
          /\ args'.extract = args.extract
      BY <2>5 DEF Names, FlagNames, PathNames
    <3>2. PathsRead(n)
      BY <2>1 DEF AsRead
    <3>3. ResultFileOfEnv' = ResultFileOfEnv
      BY <2>2 DEF ResultFileOfEnv
    <3>4. args'.resultFile = Latest("--result-file", ResultFileOfEnv)'
      BY <2>2, <3>1, <3>2, <3>3 DEF PathsRead, PathUpTo, Latest
    <3>5. args'.cwd = Latest("--cwd", Absent)'
      BY <2>2, <3>1, <3>2 DEF PathsRead, PathUpTo, Latest
    <3>6. args.transcriptDir # Absent <=> Has("--transcript-dir")'
      BY <2>2, <3>2 DEF PathsRead, PathUpTo, Absent
    <3>7. Has("--transcript-dir")' => args.transcriptDir = <<Last(Given("--transcript-dir")')>>
      BY <2>2, <3>2 DEF PathsRead, PathUpTo
    <3>8. QED BY <1>1, <1>3, <2>2, <2>5, <2>7, <3>1, <3>4, <3>5, <3>6, <3>7 DEF t, TranscriptDirOf
  <2> HIDE DEF number, fromEnv
  <2>10. /\ args'.resultFile = Latest("--result-file", ResultFileOfEnv)'
         /\ Latest("--result-file", ResultFileOfEnv)' # Absent => args'.extract
         /\ args'.transcriptDir = IF Has("--no-transcript-read")' THEN Absent
                                  ELSE Latest("--transcript-dir",
                                         IF args.extract /\ env.home THEN HomeDir ELSE Absent)'
    BY <2>9 DEF Latest
  <2>11. mode' = "run" /\ argv'[Split' + 1] = argv[Split + 1]
    BY <1>3, <2>2
  <2>12. ParsedAsGiven'
    BY <2>6, <2>7, <2>8, <2>9, <2>10, <2>11 DEF ParsedAsGiven, number, fromEnv
  <2>13. QED BY <1>1, <1>3, <2>12
<1>4. QED BY <1>1, <1>2, <1>3

\* What is known of the command line while nothing of it changes, and when it is dropped.
LEMMA ReadQuiet == ASSUME ReadInv, UNCHANGED parseVars \/ ForgetCommandLine PROVE ReadInv'
<1> USE DEF ReadInv
<1>1. CASE UNCHANGED parseVars
  <2>1. UNCHANGED <<argv, env, at, mode, args>>
    BY <1>1 DEF parseVars
  <2>2. ParsedAsGiven' <=> ParsedAsGiven
    <3>1. /\ \A o : (Has(o)' <=> Has(o)) /\ Given(o)' = Given(o)
          /\ Split' = Split /\ ResultFileOfEnv' = ResultFileOfEnv
      BY <2>1, SameLine DEF Has, Given
    <3>2. QED BY <2>1, <3>1 DEF ParsedAsGiven, Latest
  <2>3. \A n : AsRead(n)' <=> AsRead(n)
    <3> SUFFICES ASSUME NEW n PROVE AsRead(n)' <=> AsRead(n)
      OBVIOUS
    <3>1. /\ \A o : (HasUpTo(o, n)' <=> HasUpTo(o, n)) /\ GivenUpTo(o, n)' = GivenUpTo(o, n)
          /\ Split' = Split /\ ResultFileOfEnv' = ResultFileOfEnv
          /\ HardOfEnv' = HardOfEnv /\ ColsOfEnv' = ColsOfEnv
      BY <2>1, SameLine DEF HardOfEnv, ColsOfEnv
    <3>2. CommandsRead(n)' <=> CommandsRead(n)
      BY <2>1, <3>1 DEF CommandsRead
    <3>3. FlagsRead(n)' <=> FlagsRead(n)
      BY <2>1, <3>1 DEF FlagsRead
    <3>4. NumbersRead(n)' <=> NumbersRead(n)
      BY <2>1, <3>1 DEF NumbersRead, NumberUpTo
    <3>5. PathsRead(n)' <=> PathsRead(n)
      BY <2>1, <3>1 DEF PathsRead, PathUpTo
    <3>6. QED BY <2>1, <3>1, <3>2, <3>3, <3>4, <3>5 DEF AsRead
  <2>4. QED BY <2>1, <2>2, <2>3, SameLine
<1>2. CASE ForgetCommandLine
  <2>1. /\ argv' = <<>> /\ at' = 1 /\ mode' = "head"
    BY <1>2 DEF ForgetCommandLine
  <2>2. ParsedAsGiven'
    BY <2>1 DEF ParsedAsGiven
  <2>3. argv' \in Seq(STRING)
    BY <2>1
  <2>4. mode' # "loop"
    BY <2>1
  <2>5. QED BY <2>1, <2>2, <2>3, <2>4
<1>3. QED BY <1>1, <1>2

\* At first there is a command line, of which nothing has been read.
LEMMA ReadInit == Init => ReadInv
<1> SUFFICES ASSUME Init PROVE ReadInv
  OBVIOUS
<1>1. argv \in CommandLines /\ at = 1 /\ mode = "head"
  BY DEF Init, ParseInit
<1>2. ParsedAsGiven
  BY <1>1 DEF ParsedAsGiven
<1>3. QED BY <1>1, <1>2, ArgumentsAssumption DEF ReadInv

\* What has been read of a command line is what the options so far say, in the state
\* before each turn of the loop of parse_from.
THEOREM ReadInvHolds == Spec => []ReadInv
<1>1. ASSUME ReadInv, [Next]_cliVars PROVE ReadInv'
  <2>1. CASE UNCHANGED cliVars
    BY <1>1, <2>1, ReadQuiet DEF cliVars
  <2>2. CASE DispatchUpdate \/ SendsCommand
    BY <1>1, <2>2, ReadQuiet DEF DispatchUpdate, SendsCommand
  <2>3. CASE DispatchParse \/ Updates \/ Types
    BY <1>1, <2>3, ReadQuiet DEF DispatchParse, Updates, Types
  <2>4. CASE Parses
    <3>1. CASE RejectOption
      <4>1. mode' = "error" /\ UNCHANGED <<argv, env>>
        BY <3>1 DEF RejectOption
      <4>2. ParsedAsGiven'
        BY <4>1 DEF ParsedAsGiven
      <4>3. QED BY <1>1, <4>1, <4>2 DEF ReadInv
    <3>2. QED
      BY <1>1, <2>4, <3>1, ReadHead, ReadFlag, ReadValue, ReadFinish DEF Parses, ParseStep
  <2>5. QED BY <1>1, <2>1, <2>2, <2>3, <2>4 DEF Next
<1>2. QED BY <1>1, ReadInit, PTL DEF Spec

\* What is parsed depends on which options are given and not on their order, for every
\* command line and environment: each option takes effect wherever it stands, the last
\* value of one wins over the earlier ones and over the environment, what is derived is
\* derived from the final values, and nothing behind the first `--` is taken for an option.
THEOREM ArgumentsAreAsGiven == Spec => []ParsedAsGiven
<1>1. ReadInv => ParsedAsGiven
  BY DEF ReadInv
<1>2. QED BY <1>1, ReadInvHolds, PTL
=============================================================================
