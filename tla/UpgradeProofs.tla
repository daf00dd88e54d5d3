---------------------------- MODULE UpgradeProofs ----------------------------
(***************************************************************************)
(* UpdateAgent implements AtomicUpdate, and an update only moves forward:  *)
(* as long as no kill and no file system error falls in a fragile phase,   *)
(* and for a host that never goes back to an older release.                *)
(***************************************************************************)
EXTENDS WholeReleaseProofs

Moving == proc \in {"swap", "track", "clear"}

\* The release a root runs, as AtomicUpdate counts it.
RunningCode(r) == IF Displaced(r) THEN backup[r].code ELSE live[r].code

\* What a cycle fetched, it fetched from a host that only moves forward.
ForwardInv(t) ==
    LET c == cyc[t]
    IN  /\ c.stage # "idle" => c.cur = LocalVersion
        /\ c.stage \notin {"idle", "version"} => c.ver <= remote
        /\ c.stage \notin {"idle", "version", "manifest"} =>
               c.cur < c.ver /\ c.ver <= c.man /\ c.man <= remote

\* What was recorded is at least the version it is filed under, and published.
RecordedInv ==
    \A v \in Release :
        manifest[v] \in Release => v <= manifest[v] /\ manifest[v] <= remote

\* One whole release runs, older than the one being moved in.
RunsInv ==
    LET old == RunningCode(ConfigRoot)
    IN  /\ old \in Release
        /\ \A r \in Root : RunningCode(r) = old
        /\ Moving => old < manifest[pending]

UpgradeInv ==
    /\ LocalVersion <= remote
    /\ RecordedInv
    /\ RunsInv
    /\ pending # None /\ ~Moving => LocalVersion < pending
    /\ proc = "deps" \/ Moving => Applicable(pending)
    /\ \A t \in Task : ForwardInv(t)

UpgradeHyp == WholeHyp /\ Withdrawals = FALSE /\ UpgradeInv

LEMMA UpgradeInit == Init => UpgradeInv
<1> SUFFICES ASSUME Init
             PROVE  UpgradeInv
  OBVIOUS
<1>1. \A r \in Root : live[r].code = 1 /\ RunningCode(r) = 1
  BY DEF Init, Installed, RunningCode, Displaced
<1>2. LocalVersion <= remote
  BY <1>1, RootAssumption DEF Init, LocalVersion
<1>3. RunsInv
  BY <1>1, RootAssumption, ConstantFacts DEF Init, RunsInv, Moving
<1>4. RecordedInv
  BY ConstantFacts DEF Init, RecordedInv
<1>5. QED
  BY <1>2, <1>3, <1>4, NoCycleFacts DEF Init, UpgradeInv, Moving, ForwardInv

\* The two moves of the swap are the only steps that change what a root holds.
LEMMA CodesKept ==
    ASSUME WholeHyp, [Next]_vars, ~MoveOut, ~MoveIn, NEW r \in Root
    PROVE  /\ live'[r].code = live[r].code
           /\ ~DiscardBackup => backup' = backup
<1> USE DEF install
<1>t. live \in [Root -> Tree] /\ live[ConfigRoot] \in Tree /\ proc # "rollback"
  BY RootAssumption DEF WholeHyp, WholeInv, TypeInv, TypeOK
<1>1. CASE UNCHANGED vars
  BY <1>1 DEF vars
<1>2. CASE EditPrefs
  BY <1>2, <1>t DEF EditPrefs, Tree
<1>3. CASE SaveRegistry
  BY <1>3, <1>t DEF SaveRegistry, Tree
<1>4. CASE (\E s \in Release : Publish(s)) \/ Crash \/ Start \/ BeginScheduled
           \/ SkipScheduled \/ \E t \in Task : BeginTriggered(t)
  BY <1>4 DEF Publish, Crash, Kill, Start, BeginScheduled, SkipScheduled,
     BeginTriggered, Enter
<1>5. CASE BootStep
  <2>1. CASE WriteTrackingFiles
    BY <2>1, <1>t DEF WriteTrackingFiles, Tree
  <2>2. CASE DiscardBackup
    BY <2>2 DEF DiscardBackup
  <2>3. CASE RollbackDiscard \/ RollbackRestore
    BY <2>3, <1>t DEF RollbackDiscard, RollbackRestore
  <2>4. QED
    BY <1>5, <2>1, <2>2, <2>3 DEF BootStep, NothingPending, DropUnusable, BeginApply,
       SyncDependencies, SyncFails, SwapFault, BootError, FileError, SwapFails, TrackingFails,
       ClearPendingUpdate, ReportApplied
<1>6. ASSUME NEW t \in Task, CycleStep(t)
      PROVE  UNCHANGED install
  BY <1>6 DEF CycleStep, FetchVersion, NetworkError, DiskError, ManifestWithoutFiles, SkipDrift,
     NoChange, BeginStaging, PurgeManifest, Purged, PurgeTree, Download, RetryDownload,
     GiveUpDownload, Downloaded, CopyLive, Overlay, RecordManifest, FillManifest,
     WritePendingUpdate, ReportStaged, Raise, Fail
<1>7. QED
  BY <1>1, <1>2, <1>3, <1>4, <1>5, <1>6 DEF Next

\* Only the host changes what it serves, and only upwards.
LEMMA HostMovesUp ==
    ASSUME WholeHyp, Withdrawals = FALSE, [Next]_vars
    PROVE  /\ remote' \in Release /\ remote <= remote'
           /\ remote' # remote => \E r \in Release : Publish(r)
<1>t. remote \in Release /\ Release \subseteq Nat
  BY DEF WholeHyp, TypeInv, TypeOK, Release
<1>1. CASE \E r \in Release : Publish(r)
  <2> PICK r \in Release : Publish(r)
    BY <1>1
  <2>1. r > remote /\ remote' = r
    BY DEF Publish
  <2>2. QED
    BY <1>1, <1>t, <2>1
<1>2. ASSUME NEW t \in Task, CycleStep(t)
      PROVE  remote' = remote
  BY <1>2 DEF CycleStep, FetchVersion, NetworkError, DiskError, ManifestWithoutFiles, SkipDrift,
     NoChange, BeginStaging, PurgeManifest, Purged, PurgeTree, Download, RetryDownload,
     GiveUpDownload, Downloaded, CopyLive, Overlay, RecordManifest, FillManifest,
     WritePendingUpdate, ReportStaged, Raise, Fail
<1>3. ASSUME BootStep
      PROVE  remote' = remote
  BY <1>3 DEF BootStep, NothingPending, DropUnusable, BeginApply,
     SyncDependencies, SyncFails, DiscardBackup, MoveOut, MoveIn, SwapFault, BootError, FileError,
     RollbackDiscard, RollbackRestore, SwapFails, WriteTrackingFiles, TrackingFails,
     ClearPendingUpdate, ReportApplied
<1>4. ASSUME \/ EditPrefs \/ SaveRegistry \/ Crash \/ Start \/ BeginScheduled
             \/ SkipScheduled \/ \E t \in Task : BeginTriggered(t)
      PROVE  remote' = remote
  BY <1>4 DEF EditPrefs, SaveRegistry, Crash, Kill, Start, BeginScheduled,
     SkipScheduled, BeginTriggered, Enter
<1>5. ASSUME UNCHANGED vars
      PROVE  remote' = remote
  BY <1>5 DEF vars
<1>6. remote' # remote => \E r \in Release : Publish(r)
  BY <1>2, <1>3, <1>4, <1>5 DEF Next
<1>7. QED
  BY <1>t, <1>1, <1>6

\* What a root runs changes only when the marker is cleared.
LEMMA RunningKept ==
    ASSUME WholeHyp, [Next]_vars, ~ClearPendingUpdate, NEW r \in Root
    PROVE  RunningCode(r)' = RunningCode(r)
<1> DEFINE k == at.root
<1>t. /\ live \in [Root -> Tree] /\ backup \in [Root -> Tree]
      /\ at \in [root : 0 .. NumRoots, step : {"discard", "out", "in"}]
      /\ proc = "swap" => k \in Root
      /\ proc # "rollback" /\ Root \subseteq Nat /\ NumRoots \in Nat
      /\ r <= NumRoots /\ ~(r < 1)
  BY ConstantFacts DEF WholeHyp, WholeInv, TypeInv, TypeOK, Root
<1>1. CASE MoveOut
  <2>1. /\ proc = "swap" /\ proc' = "swap" /\ at.step = "out"
        /\ at'.root = k /\ at'.step = "in"
        /\ backup' = [backup EXCEPT ![k] = live[k]] /\ live' = [live EXCEPT ![k] = NoTree]
    BY <1>1, <1>t DEF MoveOut, AtSwap
  <2>2. CASE r = k
    BY <1>t, <2>1, <2>2 DEF RunningCode, Displaced
  <2>3. CASE r # k
    BY <1>t, <2>1, <2>3 DEF RunningCode, Displaced
  <2>4. QED
    BY <2>2, <2>3
<1>2. CASE MoveIn
  <2>1. /\ proc = "swap" /\ at.step = "in" /\ backup' = backup
        /\ r # k => live'[r] = live[r]
    BY <1>2, <1>t DEF MoveIn, AtSwap
  <2>2. Displaced(r) <=> r <= k
    BY <1>t, <2>1 DEF Displaced
  <2>3. Displaced(r)' <=> r <= k
    <3>1. CASE k = NumRoots
      BY <1>2, <1>t, <3>1 DEF MoveIn, Displaced
    <3>2. CASE k # NumRoots
      <4>1. proc' = "swap" /\ at'.root = k + 1 /\ at'.step = "discard"
        BY <1>2, <3>2 DEF MoveIn
      <4>2. k \in Nat /\ r \in Nat
        BY <1>t, <2>1
      <4>3. QED
        BY <4>1, <4>2 DEF Displaced
    <3>3. QED
      BY <3>1, <3>2
  <2>4. ~(r <= k) => live'[r] = live[r]
    BY <1>t, <2>1
  <2>5. CASE r <= k
    BY <2>1, <2>2, <2>3, <2>5 DEF RunningCode
  <2>6. CASE ~(r <= k)
    BY <2>2, <2>3, <2>4, <2>6 DEF RunningCode
  <2>7. QED
    BY <2>5, <2>6
<1>3. CASE DiscardBackup
  <2>1. /\ proc = "swap" /\ proc' = "swap" /\ at.step = "discard" /\ live' = live
        /\ at'.root = k /\ at'.step = "out"
        /\ r # k => backup'[r] = backup[r]
    BY <1>3, <1>t DEF DiscardBackup, AtSwap
  <2>2. (Displaced(r) <=> r < k) /\ (Displaced(r)' <=> r < k)
    BY <2>1 DEF Displaced
  <2>3. r < k => backup'[r] = backup[r]
    BY <1>t, <2>1
  <2>4. CASE r < k
    BY <2>2, <2>3, <2>4 DEF RunningCode
  <2>5. CASE ~(r < k)
    BY <2>1, <2>2, <2>5 DEF RunningCode
  <2>6. QED
    BY <2>4, <2>5
<1>4. ASSUME ~MoveOut, ~MoveIn, ~DiscardBackup, Displaced(r)' <=> Displaced(r)
      PROVE  RunningCode(r)' = RunningCode(r)
  BY <1>4, CodesKept DEF RunningCode
<1>5. ASSUME ~Moving, ~Moving', ~DiscardBackup, ~MoveOut, ~MoveIn
      PROVE  RunningCode(r)' = RunningCode(r)
  BY <1>4, <1>5 DEF Moving, Displaced
<1>6. ASSUME proc' = proc, at' = at, ~DiscardBackup, ~MoveOut, ~MoveIn
      PROVE  RunningCode(r)' = RunningCode(r)
  BY <1>4, <1>6 DEF Displaced
<1>7. CASE BootStep
  <2>1. CASE SyncDependencies
    BY <2>1, <1>4, <1>t DEF SyncDependencies, Displaced, WholeHyp, TypeInv, DiscardBackup,
       MoveOut, MoveIn, AtSwap
  <2>2. CASE WriteTrackingFiles
    BY <2>2, <1>4 DEF WriteTrackingFiles, Displaced, DiscardBackup, MoveOut, MoveIn, AtSwap
  <2>3. CASE NothingPending \/ DropUnusable \/ BeginApply \/ SyncFails \/ ReportApplied
    BY <2>3, <1>5 DEF NothingPending, DropUnusable, BeginApply, SyncFails, ReportApplied,
       Moving, DiscardBackup, MoveOut, MoveIn, AtSwap
  <2>4. CASE TrackingFails
    BY <1>7, <2>4, BootIdle DEF TrackingFails, WholeHyp, TypeInv, Applying
  <2>5. CASE SwapFault \/ RollbackDiscard \/ RollbackRestore \/ SwapFails
    BY <2>5, <1>t, CalmError DEF RollbackDiscard, RollbackRestore, SwapFails, WholeHyp, WholeInv
  <2>6. CASE BootError
    <3>1. ~Moving /\ ~Moving' /\ ~DiscardBackup /\ ~MoveOut /\ ~MoveIn
      BY <2>6, CalmError DEF Moving, DiscardBackup, MoveOut, MoveIn, AtSwap
    <3>2. QED
      BY <1>5, <3>1
  <2>7. QED
    BY <1>1, <1>2, <1>3, <1>7, <2>1, <2>2, <2>3, <2>4, <2>5, <2>6 DEF BootStep
<1>8. CASE Crash
  <2>1. ~Moving /\ proc' = "down" /\ ~DiscardBackup /\ ~MoveOut /\ ~MoveIn
    BY <1>8 DEF Crash, Kill, Moving, Phase, FragilePhases, WholeHyp, Undisturbed,
       DiscardBackup, MoveOut, MoveIn, AtSwap
  <2>2. QED
    BY <1>5, <2>1 DEF Moving
<1>9. CASE (\E s \in Release : Publish(s)) \/ EditPrefs \/ SaveRegistry
  <2>1. UNCHANGED <<proc, at>> /\ ~DiscardBackup /\ ~MoveOut /\ ~MoveIn
    <3>1. UNCHANGED <<proc, at>>
      BY <1>9 DEF Publish, EditPrefs, SaveRegistry
    <3>2. ~DiscardBackup /\ ~MoveOut
      BY <1>t, <3>1 DEF DiscardBackup, MoveOut, AtSwap
    <3>3. ~MoveIn
      BY <1>t, <3>1, ConstantFacts DEF MoveIn, AtSwap
    <3>4. QED
      BY <3>1, <3>2, <3>3
  <2>2. QED
    BY <1>6, <2>1
<1>10. CASE Start \/ BeginScheduled \/ SkipScheduled \/ \E t \in Task : BeginTriggered(t)
  BY <1>5, <1>10 DEF Start, BeginScheduled, SkipScheduled, BeginTriggered, Enter, Moving,
     DiscardBackup, MoveOut, MoveIn, AtSwap
<1>11. ASSUME NEW t \in Task, CycleStep(t)
       PROVE  RunningCode(r)' = RunningCode(r)
  <2>1. proc = "run" /\ proc' = "run"
    BY <1>11, CycleStepShape DEF WholeHyp
  <2>2. QED
    BY <1>5, <2>1 DEF Moving, DiscardBackup, MoveOut, MoveIn, AtSwap
<1>12. CASE UNCHANGED vars
  BY <1>12 DEF vars, RunningCode, Displaced
<1>13. QED
  BY <1>7, <1>8, <1>9, <1>10, <1>11, <1>12 DEF Next

LEMMA UpgradeTypes ==
    ASSUME WholeHyp
    PROVE  /\ remote \in Release /\ Release \subseteq Nat /\ Release \subseteq 0 .. MaxRelease
           /\ \A r \in Root : live[r].code \in 0 .. MaxRelease
           /\ LocalVersion \in 0 .. MaxRelease /\ pending \in 0 .. MaxRelease
           /\ pending # None => pending \in Release
           /\ \A t \in Task : /\ cyc[t].cur \in Nat /\ cyc[t].ver \in Nat
                              /\ cyc[t].man \in Nat
<1>1. /\ Release \subseteq Nat /\ Release \subseteq 0 .. MaxRelease
      /\ 0 .. MaxRelease \subseteq Nat
      /\ \A m \in 0 .. MaxRelease : m # None => m \in Release
  BY ConstantFacts DEF Release, None
<1>2. /\ remote \in Release /\ live \in [Root -> Tree] /\ pending \in 0 .. MaxRelease
      /\ cyc \in [Task -> CycleRecord]
  BY DEF WholeHyp, TypeInv, TypeOK
<1>3. \A r \in Root : live[r].code \in 0 .. MaxRelease
  BY <1>2 DEF Tree
<1>4. \A t \in Task : /\ cyc[t].cur \in 0 .. MaxRelease /\ cyc[t].ver \in 0 .. MaxRelease
                      /\ cyc[t].man \in 0 .. MaxRelease
  BY <1>2 DEF CycleRecord
<1>5. QED
  BY <1>1, <1>2, <1>3, <1>4, RootAssumption DEF LocalVersion

LEMMA RunsKept ==
    ASSUME UpgradeHyp, [Next]_vars, ~ClearPendingUpdate,
           Moving' => (Moving \/ SyncDependencies) /\ UNCHANGED <<manifest, pending>>
    PROVE  RunsInv'
<1>1. \A r \in Root : RunningCode(r)' = RunningCode(r)
  BY RunningKept DEF UpgradeHyp
<1>2. RunsInv
  BY DEF UpgradeHyp, UpgradeInv
<1>3. SUFFICES ASSUME Moving'
               PROVE  RunningCode(ConfigRoot)' < manifest'[pending']
  BY <1>1, <1>2, RootAssumption DEF RunsInv
<1>4. CASE Moving
  BY <1>1, <1>2, <1>3, <1>4, RootAssumption DEF RunsInv
<1>5. CASE SyncDependencies
  <2>1. proc = "deps"
    BY <1>5 DEF SyncDependencies
  <2>2. RunningCode(ConfigRoot) = LocalVersion
    BY <2>1 DEF RunningCode, Displaced, LocalVersion
  <2>3. pending \in Release /\ manifest[pending] \in Release
    BY <2>1 DEF UpgradeHyp, WholeHyp, WholeInv, SwapInv, TypeInv, Applying
  <2>4. LocalVersion < pending
    BY <2>1, <2>3, ConstantFacts DEF UpgradeHyp, UpgradeInv, Moving
  <2>5. pending <= manifest[pending]
    BY <2>3 DEF UpgradeHyp, UpgradeInv, RecordedInv
  <2>6. LocalVersion \in Nat /\ pending \in Nat /\ manifest[pending] \in Nat
    BY <2>3, UpgradeTypes DEF UpgradeHyp
  <2>7. LocalVersion < manifest[pending]
    BY <2>4, <2>5, <2>6
  <2>8. QED
    BY <1>1, <1>3, <2>2, <2>7, RootAssumption
<1>6. QED
  BY <1>3, <1>4, <1>5

Environment ==
    \/ \E r \in Release : Publish(r)
    \/ EditPrefs \/ SaveRegistry \/ Crash \/ Start
    \/ BeginScheduled \/ SkipScheduled
    \/ \E t \in Task : BeginTriggered(t)

LEMMA EnvironmentShape ==
    ASSUME WholeHyp, Environment
    PROVE  /\ UNCHANGED <<manifest, pending, built>>
           /\ \A r \in Root : live'[r].code = live[r].code
           /\ \/ proc' = proc /\ at' = at
              \/ ~Moving /\ proc' \in {"down", "boot"}
           /\ ~ClearPendingUpdate
           /\ [Next]_vars
<1> USE DEF install, staging, records, tasks
<1>0. Next
  BY DEF Environment, Next
<1>1. CASE Crash
  <2>1. /\ UNCHANGED <<manifest, pending, built, live>>
        /\ ~Moving /\ proc' = "down"
    BY <1>1 DEF Crash, Kill, Moving, Phase, FragilePhases, WholeHyp, Undisturbed
  <2>2. QED
    BY <1>0, <2>1 DEF Moving, ClearPendingUpdate
<1>2. CASE Start
  <2>1. /\ UNCHANGED <<manifest, pending, built, live>>
        /\ ~Moving /\ proc' = "boot"
    BY <1>2 DEF Start, Moving
  <2>2. QED
    BY <1>0, <2>1 DEF Moving, ClearPendingUpdate
<1>3. CASE (\E r \in Release : Publish(r)) \/ EditPrefs \/ SaveRegistry
  <2>1. UNCHANGED <<manifest, pending, built, proc, at>>
    BY <1>3 DEF Publish, EditPrefs, SaveRegistry
  <2>2. ~ClearPendingUpdate
    BY <2>1 DEF ClearPendingUpdate
  <2>t. live \in [Root -> Tree] /\ live[ConfigRoot] \in Tree
    BY RootAssumption DEF WholeHyp, TypeInv, TypeOK
  <2>3. \A r \in Root : live'[r].code = live[r].code
    BY <1>3, <2>t DEF Publish, EditPrefs, SaveRegistry, Tree
  <2>4. QED
    BY <1>0, <2>1, <2>2, <2>3
<1>4. CASE BeginScheduled \/ SkipScheduled \/ \E t \in Task : BeginTriggered(t)
  <2>1. UNCHANGED <<manifest, pending, built, proc, at, live>>
    BY <1>4 DEF BeginScheduled, SkipScheduled, BeginTriggered, Enter
  <2>2. QED
    BY <1>0, <2>1 DEF ClearPendingUpdate
<1>5. QED
  BY <1>1, <1>2, <1>3, <1>4 DEF Environment

\* What the environment does to a cycle: nothing, or it ends or begins it.
LEMMA EnvironmentCycles ==
    ASSUME WholeHyp, Environment, NEW t \in Task
    PROVE  \/ cyc'[t] = cyc[t]
           \/ cyc'[t].stage = "idle"
           \/ cyc'[t].stage = "version" /\ cyc'[t].cur = LocalVersion
<1> USE DEF tasks
<1>1. ASSUME NEW u \in Task, Enter(u)
      PROVE  \/ cyc'[t] = cyc[t]
             \/ cyc'[t].stage = "version" /\ cyc'[t].cur = LocalVersion
  BY <1>1 DEF Enter, WholeHyp, TypeInv, TypeOK, NoCycle
<1>2. CASE BeginScheduled
  BY <1>1, <1>2, ConstantFacts DEF BeginScheduled
<1>3. CASE \E u \in Task : BeginTriggered(u)
  BY <1>1, <1>3 DEF BeginTriggered
<1>4. CASE Crash
  BY <1>4, NoCycleFacts DEF Crash, Kill
<1>5. CASE (\E r \in Release : Publish(r)) \/ EditPrefs \/ SaveRegistry \/ Start
           \/ SkipScheduled
  BY <1>5 DEF Publish, EditPrefs, SaveRegistry, Start, SkipScheduled
<1>6. QED
  BY <1>2, <1>3, <1>4, <1>5 DEF Environment

LEMMA EnvironmentUpgrade ==
    ASSUME UpgradeHyp, Environment
    PROVE  UpgradeInv'
<1>0. WholeHyp /\ UpgradeInv
  BY DEF UpgradeHyp
<1>1. remote' \in Release /\ remote <= remote'
  BY EnvironmentShape, HostMovesUp DEF UpgradeHyp
<1>2. LocalVersion' = LocalVersion /\ remote' \in Nat /\ remote \in Nat
  BY <1>0, <1>1, EnvironmentShape, UpgradeTypes, RootAssumption DEF LocalVersion
<1>3. LocalVersion' <= remote'
  BY <1>0, <1>1, <1>2, UpgradeTypes DEF UpgradeInv
<1>4. RecordedInv'
  <2> SUFFICES ASSUME NEW v \in Release, manifest'[v] \in Release
               PROVE  v <= manifest'[v] /\ manifest'[v] <= remote'
    BY DEF RecordedInv
  <2>1. manifest' = manifest /\ manifest[v] \in Nat
    BY <1>0, EnvironmentShape, UpgradeTypes
  <2>2. v <= manifest[v] /\ manifest[v] <= remote
    BY <1>0, <2>1 DEF UpgradeInv, RecordedInv
  <2>3. QED
    BY <1>1, <1>2, <2>1, <2>2
<1>5. RunsInv'
  BY <1>0, EnvironmentShape, RunsKept DEF Moving
<1>6. pending' # None /\ ~Moving' => LocalVersion' < pending'
  BY <1>0, <1>2, EnvironmentShape DEF UpgradeInv, Moving
<1>7. proc' = "deps" \/ Moving' => Applicable(pending)'
  BY <1>0, EnvironmentShape DEF UpgradeInv, Moving, Applicable
<1>8. ASSUME NEW t \in Task
      PROVE  ForwardInv(t)'
  <2>1. CASE cyc'[t] = cyc[t]
    <3>1. cyc[t].ver \in Nat /\ cyc[t].man \in Nat
      BY <1>0, UpgradeTypes
    <3>2. QED
      BY <1>0, <1>1, <1>2, <2>1, <3>1 DEF UpgradeInv, ForwardInv
  <2>2. CASE cyc'[t].stage = "idle"
    BY <2>2 DEF ForwardInv
  <2>3. CASE cyc'[t].stage = "version" /\ cyc'[t].cur = LocalVersion
    BY <1>2, <2>3 DEF ForwardInv
  <2>4. QED
    BY <1>0, <2>1, <2>2, <2>3, EnvironmentCycles
<1>9. QED
  BY <1>3, <1>4, <1>5, <1>6, <1>7, <1>8 DEF UpgradeInv

\* What the boot path does to the records, and how it enters and leaves the swap.
LEMMA BootShape ==
    ASSUME WholeHyp, BootStep
    PROVE  /\ built' = built /\ pending' \in {pending, None}
           /\ Moving' => pending' = pending /\ (Moving \/ SyncDependencies)
           /\ Moving /\ ~Moving' => ClearPendingUpdate
           /\ proc' = "deps" => Applicable(pending) /\ pending' = pending
           /\ Moving /\ ~ClearPendingUpdate => pending' = pending
<1> USE DEF staging, records, Moving
<1>1. CASE MoveOut \/ MoveIn \/ DiscardBackup
  BY <1>1 DEF MoveOut, MoveIn, DiscardBackup, AtSwap
<1>2. CASE SwapFault \/ RollbackDiscard \/ RollbackRestore \/ SwapFails \/ BootError
  BY <1>2, CalmError DEF RollbackDiscard, RollbackRestore, SwapFails, WholeHyp, WholeInv
<1>3. CASE TrackingFails
  BY <1>3, BootIdle DEF TrackingFails, WholeHyp, TypeInv, Applying
<1>4. CASE NothingPending \/ DropUnusable \/ BeginApply \/ SyncDependencies \/ SyncFails
  BY <1>4 DEF NothingPending, DropUnusable, BeginApply, SyncDependencies, SyncFails
<1>5. CASE WriteTrackingFiles \/ ClearPendingUpdate \/ ReportApplied
  BY <1>5 DEF WriteTrackingFiles, ClearPendingUpdate, ReportApplied
<1>6. QED
  BY <1>1, <1>2, <1>3, <1>4, <1>5 DEF BootStep

\* What a step of the swap leaves in config/ is the old release, or nothing, or
\* the new one.
LEMMA BootVersion ==
    ASSUME UpgradeHyp, BootStep
    PROVE  /\ LocalVersion' <= remote
           /\ ~Moving => LocalVersion' = LocalVersion
<1>0. WholeHyp /\ UpgradeInv /\ [Next]_vars
  BY DEF UpgradeHyp, Next
<1>t. /\ live \in [Root -> Tree] /\ remote \in Nat /\ ConfigRoot \in Root
      /\ LocalVersion <= remote /\ None <= remote
  BY <1>0, UpgradeTypes, RootAssumption DEF UpgradeInv, WholeHyp, TypeInv, TypeOK, None
<1>1. CASE ~MoveOut /\ ~MoveIn
  BY <1>0, <1>1, <1>t, CodesKept DEF LocalVersion
<1>2. CASE MoveOut
  <2>1. LocalVersion' \in {LocalVersion, None}
    BY <1>2, <1>t DEF MoveOut, LocalVersion, NoTree
  <2>2. QED
    BY <1>2, <1>t, <2>1 DEF MoveOut, AtSwap, Moving
<1>3. CASE MoveIn
  <2> DEFINE k == at.root
  <2>1. /\ proc = "swap" /\ k \in Root /\ pending \in Release /\ k \in Nat
    BY <1>0, <1>3, ConstantFacts DEF MoveIn, AtSwap, WholeHyp, TypeInv, Applying
  <2>2. manifest[pending] \in Release /\ shadow[pending][k].dir
        /\ shadow[pending][k].code = manifest[pending]
    <3>1. ~(k < k)
      BY <2>1
    <3>2. QED
      BY <1>0, <2>1, <3>1 DEF WholeHyp, WholeInv, SwapInv
  <2>3. LocalVersion' \in {LocalVersion, manifest[pending]}
    BY <1>3, <1>t, <2>1, <2>2 DEF MoveIn, LocalVersion
  <2>4. manifest[pending] <= remote
    BY <1>0, <2>1, <2>2 DEF UpgradeInv, RecordedInv
  <2>5. QED
    BY <1>t, <2>1, <2>3, <2>4 DEF Moving
<1>4. QED
  BY <1>1, <1>2, <1>3

LEMMA BootUpgrade ==
    ASSUME UpgradeHyp, BootStep
    PROVE  UpgradeInv'
<1>0. WholeHyp /\ UpgradeInv /\ [Next]_vars
  BY DEF UpgradeHyp, Next
<1>1. /\ remote' = remote /\ manifest' = manifest /\ cyc' = cyc
      /\ \A t \in Task : cyc'[t].stage = "idle"
  <2>1. ~\E r \in Release : Publish(r)
    BY BootIdle, <1>0, BootShape DEF Publish, BootStep, NothingPending, DropUnusable,
       BeginApply, SyncDependencies, SyncFails, DiscardBackup, MoveOut, MoveIn, AtSwap,
       SwapFault, BootError, FileError, RollbackDiscard, RollbackRestore, SwapFails, WriteTrackingFiles,
       TrackingFails, ClearPendingUpdate, ReportApplied
  <2>2. QED
    BY <1>0, <2>1, BootIdle, HostMovesUp DEF UpgradeHyp
<1>2. LocalVersion' <= remote'
  BY <1>1, BootVersion
<1>3. RecordedInv'
  BY <1>0, <1>1 DEF UpgradeInv, RecordedInv
<1>4. RunsInv'
  <2>1. CASE ClearPendingUpdate
    <3>1. ~Moving' /\ live' = live /\ LiveWhole
      BY <2>1, <1>0 DEF ClearPendingUpdate, Moving, install, WholeHyp, WholeInv
    <3>2. \A r \in Root : RunningCode(r)' = live[r].code
      BY <2>1, <3>1 DEF ClearPendingUpdate, RunningCode, Displaced
    <3>3. QED
      BY <3>1, <3>2, RootAssumption DEF RunsInv, LiveWhole
  <2>2. CASE ~ClearPendingUpdate
    BY <1>0, <1>1, <2>2, BootShape, RunsKept
  <2>3. QED
    BY <2>1, <2>2
<1>5. pending' # None /\ ~Moving' => LocalVersion' < pending'
  <2> SUFFICES ASSUME pending' # None, ~Moving'
               PROVE  LocalVersion' < pending'
    OBVIOUS
  <2>1. ~ClearPendingUpdate
    BY DEF ClearPendingUpdate
  <2>2. ~Moving
    BY <1>0, <2>1, BootShape
  <2>3. QED
    BY <1>0, <2>2, BootShape, BootVersion DEF UpgradeInv
<1>6. proc' = "deps" \/ Moving' => Applicable(pending)'
  <2>1. proc' = "deps" \/ Moving' => Applicable(pending) /\ pending' = pending
    <3>1. SyncDependencies => proc = "deps"
      BY DEF SyncDependencies
    <3>2. QED
      BY <1>0, <3>1, BootShape DEF UpgradeInv
  <2>2. QED
    BY <1>0, <1>1, <2>1, BootShape DEF Applicable
<1>7. QED
  BY <1>1, <1>2, <1>3, <1>4, <1>5, <1>6 DEF UpgradeInv, ForwardInv

\* A step of a cycle touches neither the install nor the host, and its own
\* record of versions is all it has to keep.
LEMMA CycleUpgradeGoal ==
    ASSUME UpgradeHyp, NEW t \in Task, CycleStep(t),
           ForwardInv(t)', RecordedInv',
           pending' # None => LocalVersion < pending'
    PROVE  UpgradeInv'
<1>0. WholeHyp /\ UpgradeInv /\ [Next]_vars
  BY DEF UpgradeHyp, Next
<1>1. /\ proc = "run" /\ proc' = "run" /\ ~Moving /\ ~Moving'
      /\ \A u \in Task \ {t} : cyc'[u].stage = "idle"
  <2>1. lock = t /\ proc = "run" /\ proc' = "run"
    BY <1>0, CycleStepShape DEF WholeHyp, OneCycleAtATime
  <2>2. QED
    BY <1>0, <2>1, OthersKeepTheirCycle DEF WholeHyp, OneCycleAtATime, Moving
<1>2. /\ ~MoveOut /\ ~MoveIn /\ ~ClearPendingUpdate
  BY <1>1 DEF MoveOut, MoveIn, AtSwap, ClearPendingUpdate
<1>3. LocalVersion' = LocalVersion /\ remote <= remote' /\ remote' \in Nat /\ remote \in Nat
  BY <1>0, <1>2, CodesKept, HostMovesUp, RootAssumption, UpgradeTypes
  DEF LocalVersion, UpgradeHyp
<1>4. LocalVersion' <= remote'
  BY <1>0, <1>3, UpgradeTypes DEF UpgradeInv
<1>5. RunsInv'
  BY <1>0, <1>1, <1>2, RunsKept
<1>6. \A u \in Task : ForwardInv(u)'
  BY <1>1 DEF ForwardInv
<1>7. QED
  BY <1>1, <1>3, <1>4, <1>5, <1>6 DEF UpgradeInv

LEMMA CycleUpgrade ==
    ASSUME UpgradeHyp, NEW t \in Task, CycleStep(t)
    PROVE  UpgradeInv'
<1> USE DEF staging, records, tasks, install
<1> DEFINE c == cyc[t]
<1>0. /\ WholeHyp /\ UpgradeInv /\ ForwardInv(t) /\ RecordedInv /\ c \in CycleRecord
      /\ cyc \in [Task -> CycleRecord] /\ proc = "run" /\ CycleInv(t)
      /\ pending # None => LocalVersion < pending
      /\ manifest \in [Release -> 0 .. Torn]
      /\ None \notin Release /\ Torn \notin Release
  <2>1. Torn \notin Release
    BY ReleaseAssumption DEF Torn, Release
  <2>2. QED
    BY <2>1, ConstantFacts, CycleStepShape
    DEF UpgradeHyp, UpgradeInv, WholeHyp, TypeInv, TypeOK, RebootInv, Moving
<1>t. /\ remote \in Nat /\ c.cur \in Nat /\ c.ver \in Nat /\ c.man \in Nat
  BY <1>0, UpgradeTypes
<1>1. ASSUME UNCHANGED <<manifest, pending>>, ForwardInv(t)', remote' = remote
      PROVE  UpgradeInv'
  BY <1>0, <1>1, CycleUpgradeGoal DEF RecordedInv
<1>2. CASE \/ NetworkError(t) \/ DiskError(t) \/ GiveUpDownload(t)
           \/ ManifestWithoutFiles(t)
           \/ SkipDrift(t) \/ NoChange(t) \/ ReportStaged(t)
  <2>1. cyc'[t] = NoCycle /\ UNCHANGED <<manifest, pending>> /\ remote' = remote
    BY <1>0, <1>2 DEF NetworkError, DiskError, GiveUpDownload, ManifestWithoutFiles, SkipDrift,
       NoChange, ReportStaged, Raise, Fail, Return, Leave
  <2>2. QED
    BY <1>1, <2>1, NoCycleFacts DEF ForwardInv
\* A step within the cycle that keeps the versions it has noted.
<1>3. ASSUME cyc'[t].cur = c.cur, cyc'[t].ver = c.ver, cyc'[t].man = c.man,
             c.stage \notin {"idle", "version", "manifest"},
             remote' = remote, live' = live
      PROVE  ForwardInv(t)'
  BY <1>0, <1>3 DEF ForwardInv, LocalVersion
<1>4. CASE FetchVersion(t)
  <2>1. /\ c.stage = "version" /\ cyc'[t].cur = c.cur /\ cyc'[t].ver = remote
        /\ cyc'[t].stage = "manifest"
        /\ UNCHANGED <<manifest, pending, live>> /\ remote' = remote
    BY <1>0, <1>4 DEF FetchVersion, InCycle, CycleRecord
  <2>2. QED
    BY <1>0, <1>1, <1>t, <2>1 DEF ForwardInv, LocalVersion
<1>5. CASE BeginStaging(t)
  <2>1. /\ c.stage = "manifest" /\ cyc'[t].cur = c.cur /\ cyc'[t].ver = c.ver
        /\ cyc'[t].man = remote /\ cyc'[t].stage = "purge" /\ c.ver > c.cur
        /\ UNCHANGED <<manifest, pending, live>> /\ remote' = remote
    BY <1>0, <1>5 DEF BeginStaging, InCycle, CycleRecord, HasNewerVersion
  <2>2. QED
    BY <1>0, <1>1, <1>t, <2>1 DEF ForwardInv, LocalVersion
<1>6. CASE \E r \in Root : PurgeTree(t, r) \/ Download(t, r)
  <2> PICK r \in Root : PurgeTree(t, r) \/ Download(t, r)
    BY <1>6
  <2>1. CASE PurgeTree(t, r)
    BY <2>1, <1>1, <1>3 DEF PurgeTree, InCycle
  <2>2. CASE Download(t, r)
    <3>1. cyc'[t] = [c EXCEPT !.todo = @ \ {r}, !.got[r] = remote, !.tries = 0]
      BY <1>0, <2>2 DEF Download
    <3>2. cyc'[t].cur = c.cur /\ cyc'[t].ver = c.ver /\ cyc'[t].man = c.man
      BY <1>0, <3>1 DEF CycleRecord
    <3>3. QED
      BY <2>2, <1>1, <1>3, <3>2 DEF Download, InCycle
  <2>3. QED
    BY <2>1, <2>2
<1>7. CASE RetryDownload(t)
  <2>1. cyc'[t] = [c EXCEPT !.tries = c.tries + 1]
    BY <1>0, <1>7 DEF RetryDownload
  <2>2. cyc'[t].cur = c.cur /\ cyc'[t].ver = c.ver /\ cyc'[t].man = c.man
    BY <1>0, <2>1 DEF CycleRecord
  <2>3. QED
    BY <1>7, <1>1, <1>3, <2>2 DEF RetryDownload, InCycle
<1>8. CASE Purged(t) \/ Downloaded(t) \/ CopyLive(t) \/ Overlay(t)
  <2>1. /\ \E stage \in Stages : cyc'[t] = [c EXCEPT !.stage = stage]
        /\ c.stage \in {"purge", "download", "copy", "overlay"}
        /\ remote' = remote /\ UNCHANGED <<live, manifest, pending>>
    <3>1. CASE Purged(t)
      BY <1>0, <3>1 DEF Purged, InCycle, Stages
    <3>2. CASE Downloaded(t)
      BY <1>0, <3>2 DEF Downloaded, InCycle, Stages
    <3>3. CASE CopyLive(t)
      BY <1>0, <3>3 DEF CopyLive, InCycle, Stages
    <3>4. CASE Overlay(t)
      BY <1>0, <3>4 DEF Overlay, InCycle, Stages
    <3>5. QED
      BY <1>8, <3>1, <3>2, <3>3, <3>4
  <2>2. cyc'[t].cur = c.cur /\ cyc'[t].ver = c.ver /\ cyc'[t].man = c.man
    BY <1>0, <2>1 DEF CycleRecord
  <2>3. QED
    BY <1>1, <1>3, <2>1, <2>2
<1>9. CASE PurgeManifest(t) \/ RecordManifest(t) \/ FillManifest(t)
  <2>1. /\ cyc'[t].cur = c.cur /\ cyc'[t].ver = c.ver /\ cyc'[t].man = c.man
        /\ c.stage \in {"purge", "record", "fill"}
        /\ remote' = remote /\ UNCHANGED <<live, pending>>
    BY <1>0, <1>9 DEF PurgeManifest, RecordManifest, FillManifest, InCycle, CycleRecord
  <2>2. ForwardInv(t)'
    BY <1>3, <2>1
  <2>3. c.ver \in Release /\ c.ver <= c.man /\ c.man <= remote
    BY <1>0, <2>1 DEF ForwardInv, CycleInv
  <2>4. \A v \in Release : \/ manifest'[v] = manifest[v]
                           \/ manifest'[v] \notin Release
                           \/ v = c.ver /\ manifest'[v] = c.man
    BY <1>0, <1>9 DEF PurgeManifest, RecordManifest, FillManifest
  <2>5. RecordedInv'
    BY <1>0, <2>1, <2>3, <2>4 DEF RecordedInv
  <2>6. QED
    BY <1>0, <2>1, <2>2, <2>5, CycleUpgradeGoal
<1>10. CASE WritePendingUpdate(t)
  <2>1. /\ cyc'[t].cur = c.cur /\ cyc'[t].ver = c.ver /\ cyc'[t].man = c.man
        /\ c.stage = "marker" /\ pending' = c.ver
        /\ remote' = remote /\ UNCHANGED <<live, manifest>>
    BY <1>0, <1>10 DEF WritePendingUpdate, InCycle, CycleRecord
  <2>2. ForwardInv(t)'
    BY <1>3, <2>1
  <2>3. LocalVersion < c.ver
    BY <1>0, <2>1 DEF ForwardInv
  <2>4. RecordedInv'
    BY <1>0, <2>1 DEF RecordedInv
  <2>5. QED
    BY <2>1, <2>2, <2>3, <2>4, CycleUpgradeGoal
<1>11. QED
  BY <1>2, <1>4, <1>5, <1>6, <1>7, <1>8, <1>9, <1>10 DEF CycleStep

LEMMA UpgradeStep ==
    ASSUME UpgradeHyp, [Next]_vars
    PROVE  UpgradeInv'
<1>1. CASE UNCHANGED vars
  BY <1>1 DEF vars, UpgradeHyp, UpgradeInv, RecordedInv, RunsInv, RunningCode, Displaced,
     Moving, Applicable, ForwardInv, LocalVersion
<1>2. QED
  BY <1>1, EnvironmentUpgrade, BootUpgrade, CycleUpgrade DEF Next, Environment

LEMMA UpgradeInvariant ==
    ASSUME Undisturbed, Withdrawals = FALSE
    PROVE  Spec => [](WholeHyp /\ UpgradeInv)
<1>1. WholeHyp /\ UpgradeInv /\ [Next]_vars => UpgradeInv'
  BY UpgradeStep DEF UpgradeHyp
<1>2. TypeInv /\ OneCycleAtATime /\ RebootInv /\ WholeInv => WholeHyp
  BY DEF WholeHyp
<1>3. QED
  BY <1>1, <1>2, UpgradeInit, WholeInvariant, RebootInvariant, TypeInvariant, OneCycle,
     PTL DEF Spec

\* What the swap has put aside is older, root by root, than what it installed,
\* although the marker names a version and the manifest recorded beside it may
\* be that of a later release.
THEOREM OnlyForward ==
    ASSUME Undisturbed, Withdrawals = FALSE
    PROVE  Spec => []OnlyUpgrades
<1>1. WholeHyp /\ UpgradeInv => OnlyUpgrades
  <2> SUFFICES ASSUME WholeHyp, UpgradeInv, proc \in {"track", "clear"}, NEW r \in Root
               PROVE  backup[r].code < live[r].code
    BY DEF OnlyUpgrades
  <2>1. Moving /\ RunningCode(r) = backup[r].code
    BY DEF Moving, RunningCode, Displaced
  <2>2. RunningCode(r) < manifest[pending]
    BY <2>1 DEF UpgradeInv, RunsInv
  <2>3. live[r].code = manifest[pending]
    BY DEF WholeHyp, WholeInv, SwapInv, LiveWhole
  <2>4. QED
    BY <2>1, <2>2, <2>3
<1>2. QED
  BY <1>1, UpgradeInvariant, PTL

(***************************************************************************)
(* The refinement.  The install and the marker are two variables of        *)
(* AtomicUpdate; clearing the marker is its Install, emptying a release's  *)
(* directory is its GiveUp, recording a release is its Stage, and the      *)
(* moves of the swap are stuttering steps.                                 *)
(***************************************************************************)

LEMMA RunningShown ==
    ASSUME RunsInv
    PROVE  RunningRelease = RunningCode(ConfigRoot)
<1>1. \A r \in Root : Running[r].code = RunningCode(r)
  BY DEF Running, RunningCode
<1>2. WholeRelease(Running)
  BY <1>1, ConstantFacts DEF RunsInv, WholeRelease
<1>3. QED
  BY <1>1, <1>2, RootAssumption DEF RunningRelease

LEMMA RunningShownNext == RunsInv' => RunningRelease' = RunningCode(ConfigRoot)'
<1> SUFFICES ASSUME RunsInv'
             PROVE  RunningRelease' = RunningCode(ConfigRoot)'
  OBVIOUS
<1>1. \A r \in Root : Running'[r].code = RunningCode(r)'
  BY DEF Running, RunningCode
<1>2. WholeRelease(Running)'
  BY <1>1, ConstantFacts DEF RunsInv, WholeRelease
<1>3. QED
  BY <1>1, <1>2, RootAssumption DEF RunningRelease

LEMMA PromiseInit == Init => Promise!Init
<1> SUFFICES ASSUME Init
             PROVE  Promise!Init
  OBVIOUS
<1>1. UpgradeInv /\ LocalVersion = 1
  BY UpgradeInit, RootAssumption DEF Init, LocalVersion, Installed
<1>2. RunningRelease = 1
  BY <1>1, RunningShown DEF UpgradeInv, RunningCode, Displaced, Init, LocalVersion
<1>3. StagedRelease = None
  BY DEF Init, StagedRelease
<1>4. QED
  BY <1>2, <1>3 DEF Init, Promise!Init, None, Promise!None

\* Any step but Publish and Install: what runs stays, and what is staged stays,
\* is given up, or is a newer release than the one that runs.
LEMMA StagingRefines ==
    ASSUME UpgradeHyp, UpgradeInv', [Next]_vars, ~ClearPendingUpdate, remote' = remote,
           \/ StagedRelease' \in {StagedRelease, None}
           \/ ~Moving /\ LocalVersion < StagedRelease' /\ StagedRelease' <= remote
              /\ StagedRelease' \in Nat
    PROVE  [Promise!Next]_(Promise!vars)
<1>0. WholeHyp /\ UpgradeInv
  BY DEF UpgradeHyp
<1>1. RunningRelease' = RunningRelease
  BY <1>0, RunningKept, RunningShown, RunningShownNext, RootAssumption DEF UpgradeInv
<1>2. CASE StagedRelease' \in {StagedRelease, None}
  BY <1>1, <1>2 DEF Promise!Next, Promise!GiveUp, Promise!vars, None, Promise!None
<1>3. CASE /\ ~Moving /\ LocalVersion < StagedRelease' /\ StagedRelease' <= remote
           /\ StagedRelease' \in Nat
  <2>1. RunningRelease = LocalVersion /\ LocalVersion \in Nat /\ remote \in Nat
    <3>1. RunningCode(ConfigRoot) = LocalVersion
      BY <1>3 DEF RunningCode, Displaced, Moving, LocalVersion
    <3>2. LocalVersion \in Nat /\ remote \in Nat
      BY <1>0, UpgradeTypes
    <3>3. QED
      BY <1>0, <3>1, <3>2, RunningShown DEF UpgradeInv
  <2>2. StagedRelease' \in (RunningRelease + 1) .. remote
    BY <1>3, <2>1
  <2>3. QED
    BY <1>1, <2>2 DEF Promise!Next, Promise!Stage
<1>4. QED
  BY <1>2, <1>3

LEMMA EnvironmentRefines ==
    ASSUME UpgradeHyp, UpgradeInv', Environment
    PROVE  [Promise!Next]_(Promise!vars)
<1>0. WholeHyp /\ UpgradeInv /\ [Next]_vars /\ ~ClearPendingUpdate
  BY EnvironmentShape DEF UpgradeHyp
<1>1. StagedRelease' = StagedRelease
  BY <1>0, EnvironmentShape DEF StagedRelease, Applicable
<1>2. CASE remote' = remote
  BY <1>0, <1>1, <1>2, StagingRefines
<1>3. CASE remote' # remote
  <2>1. RunningRelease' = RunningRelease
    BY <1>0, RunningKept, RunningShown, RunningShownNext, RootAssumption DEF UpgradeInv
  <2>2. remote' \in Release /\ remote <= remote' /\ remote \in Nat
    BY <1>0, HostMovesUp, UpgradeTypes DEF UpgradeHyp
  <2>3. remote' \in (remote + 1) .. MaxRelease
    BY <1>3, <2>2, ReleaseAssumption DEF Release
  <2>4. QED
    BY <1>1, <2>1, <2>3 DEF Promise!Next, Promise!Publish
<1>4. QED
  BY <1>2, <1>3

LEMMA BootRefines ==
    ASSUME UpgradeHyp, UpgradeInv', BootStep
    PROVE  [Promise!Next]_(Promise!vars)
<1>0. WholeHyp /\ UpgradeInv /\ [Next]_vars
  BY DEF UpgradeHyp, Next
<1>1. remote' = remote
  BY DEF BootStep, NothingPending, DropUnusable, BeginApply,
     SyncDependencies, SyncFails, DiscardBackup, MoveOut, MoveIn, SwapFault, BootError, FileError,
     RollbackDiscard, RollbackRestore, SwapFails, WriteTrackingFiles, TrackingFails,
     ClearPendingUpdate, ReportApplied
<1>2. CASE ~ClearPendingUpdate
  <2>1. pending' = pending => StagedRelease' = StagedRelease
    BY <1>0, BootShape, BootIdle DEF StagedRelease, Applicable
  <2>2. pending' = None => StagedRelease' = None
    BY DEF StagedRelease
  <2>3. QED
    BY <1>0, <1>1, <1>2, <2>1, <2>2, BootShape, StagingRefines
<1>3. CASE ClearPendingUpdate
  <2>1. proc = "clear" /\ pending' = None /\ live' = live /\ proc' = "report"
    BY <1>3 DEF ClearPendingUpdate, install
  <2>2. /\ Applicable(pending) /\ pending \in Release
        /\ manifest[pending] \in Release /\ LocalVersion = manifest[pending]
    BY <1>0, <2>1 DEF UpgradeInv, Moving, WholeHyp, WholeInv, SwapInv, TypeInv, Applying
  <2>3. manifest[pending] \notin {None, Torn} /\ pending # None
    BY <2>2, ConstantFacts, ReleaseAssumption DEF Torn, Release
  <2>4. StagedRelease = LocalVersion /\ StagedRelease # None /\ StagedRelease' = None
    BY <2>1, <2>2, <2>3 DEF StagedRelease
  <2>5. RunningRelease' = LocalVersion
    BY <2>1, RunningShownNext DEF UpgradeInv, RunningCode, Displaced, LocalVersion
  <2>6. QED
    BY <1>1, <2>4, <2>5 DEF Promise!Next, Promise!Install, None, Promise!None
<1>4. QED
  BY <1>2, <1>3

LEMMA CycleRefines ==
    ASSUME UpgradeHyp, UpgradeInv', NEW t \in Task, CycleStep(t)
    PROVE  [Promise!Next]_(Promise!vars)
<1> USE DEF staging, records
<1> DEFINE c == cyc[t]
<1>0. /\ WholeHyp /\ UpgradeInv /\ [Next]_vars /\ proc = "run" /\ ~Moving
      /\ ~ClearPendingUpdate /\ CycleInv(t) /\ ForwardInv(t) /\ StagingInv(t)
      /\ manifest \in [Release -> 0 .. Torn] /\ built \in [Release -> BOOLEAN]
      /\ pending # None => pending \in Release
  BY CycleStepShape, UpgradeTypes
  DEF UpgradeHyp, UpgradeInv, Next, WholeHyp, WholeInv, RebootInv, ClearPendingUpdate,
      Moving, TypeInv, TypeOK
<1>1. remote' = remote
  BY DEF CycleStep, FetchVersion, NetworkError, DiskError, ManifestWithoutFiles, SkipDrift,
     NoChange, BeginStaging, PurgeManifest, Purged, PurgeTree, Download, RetryDownload,
     GiveUpDownload, Downloaded, CopyLive, Overlay, RecordManifest, FillManifest,
     WritePendingUpdate, ReportStaged, Raise, Fail
<1>g. SUFFICES \/ StagedRelease' \in {StagedRelease, None}
               \/ LocalVersion < StagedRelease' /\ StagedRelease' <= remote
                  /\ StagedRelease' \in Nat
  BY <1>0, <1>1, StagingRefines
<1>2. CASE \/ FetchVersion(t) \/ NetworkError(t) \/ DiskError(t)
           \/ ManifestWithoutFiles(t)
           \/ SkipDrift(t) \/ NoChange(t) \/ BeginStaging(t)
           \/ (\E r \in Root : PurgeTree(t, r) \/ Download(t, r))
           \/ RetryDownload(t) \/ GiveUpDownload(t) \/ Downloaded(t) \/ Overlay(t)
           \/ ReportStaged(t)
  <2>1. UNCHANGED <<pending, built, manifest>>
    BY <1>2 DEF FetchVersion, NetworkError, DiskError, ManifestWithoutFiles, SkipDrift, NoChange,
       BeginStaging, PurgeTree, Download, RetryDownload, GiveUpDownload, Downloaded,
       Overlay, ReportStaged, Raise, Fail
  <2>2. QED
    BY <2>1 DEF StagedRelease, Applicable
<1>3. CASE PurgeManifest(t)
  <2>1. /\ pending' = pending /\ built' = built /\ c.ver \in Release
        /\ manifest' = [manifest EXCEPT ![c.ver] = None]
    BY <1>0, <1>3 DEF PurgeManifest, InCycle, CycleInv
  <2>2. QED
    BY <1>0, <2>1 DEF StagedRelease, Applicable
<1>4. CASE Purged(t) \/ CopyLive(t)
  <2>1. /\ UNCHANGED <<pending, manifest>> /\ c.ver \in Release /\ manifest[c.ver] = None
        /\ \A v \in Release \ {c.ver} : built'[v] = built[v]
    <3>1. CASE Purged(t)
      BY <1>0, <3>1 DEF Purged, InCycle, CycleInv
    <3>2. CASE CopyLive(t)
      BY <1>0, <3>2 DEF CopyLive, InCycle, CycleInv, StagingInv
    <3>3. QED
      BY <1>4, <3>1, <3>2
  <2>2. QED
    BY <1>0, <2>1 DEF StagedRelease, Applicable
<1>5. CASE RecordManifest(t)
  <2>1. /\ UNCHANGED <<pending, built>> /\ c.ver \in Release /\ manifest[c.ver] = None
        /\ manifest' = [manifest EXCEPT ![c.ver] = Torn]
    BY <1>0, <1>5 DEF RecordManifest, InCycle, CycleInv, StagingInv
  <2>2. QED
    BY <1>0, <2>1 DEF StagedRelease, Applicable
\* What a newly readable record adds is the release this cycle is staging.
<1>6. c.stage \in {"fill", "marker"} =>
          /\ LocalVersion < c.man /\ c.man <= remote /\ c.man \in Nat
          /\ c.ver \in Release
  <2>1. c.cur \in Nat /\ c.ver \in Nat /\ c.man \in Nat
    BY <1>0, UpgradeTypes
  <2>2. QED
    BY <1>0, <2>1 DEF ForwardInv, CycleInv
<1>7. CASE FillManifest(t)
  <2>1. /\ UNCHANGED <<pending, built>> /\ c.stage = "fill"
        /\ manifest' = [manifest EXCEPT ![c.ver] = c.man]
    BY <1>7 DEF FillManifest, InCycle
  <2>2. CASE pending = c.ver
    <3>1. StagedRelease' \in {None, c.man}
      BY <1>0, <1>6, <2>1, <2>2 DEF StagedRelease, Applicable
    <3>2. QED
      BY <1>6, <2>1, <3>1
  <2>3. CASE pending # c.ver
    BY <1>0, <1>6, <2>1, <2>3 DEF StagedRelease, Applicable
  <2>4. QED
    BY <2>2, <2>3
<1>8. CASE WritePendingUpdate(t)
  <2>1. /\ UNCHANGED <<manifest, built>> /\ c.stage = "marker" /\ pending' = c.ver
        /\ manifest[c.ver] = c.man
    BY <1>0, <1>8 DEF WritePendingUpdate, InCycle, CycleInv
  <2>2. StagedRelease' \in {None, c.man}
    BY <2>1 DEF StagedRelease
  <2>3. QED
    BY <1>6, <2>1, <2>2
<1>9. QED
  BY <1>2, <1>3, <1>4, <1>5, <1>7, <1>8 DEF CycleStep

\* The agent implements AtomicUpdate: the release that runs changes in one step,
\* to the whole one that was staged, and what is staged is always newer than what
\* runs and was published by the host.
THEOREM AgentKeepsPromise ==
    ASSUME Undisturbed, Withdrawals = FALSE
    PROVE  Spec => KeepsPromise
<1>1. /\ WholeHyp /\ UpgradeInv /\ (WholeHyp /\ UpgradeInv)' /\ [Next]_vars
         => [Promise!Next]_(Promise!vars)
  <2> SUFFICES ASSUME UpgradeHyp, UpgradeInv', [Next]_vars
               PROVE  [Promise!Next]_(Promise!vars)
    BY DEF UpgradeHyp
  <2>1. CASE UNCHANGED vars
    <3>1. /\ remote' = remote /\ StagedRelease' = StagedRelease
          /\ RunningRelease' = RunningRelease
      BY <2>1 DEF vars, StagedRelease, Applicable, RunningRelease, WholeRelease, Running,
         Displaced
    <3>2. QED
      BY <3>1 DEF Promise!vars
  <2>2. QED
    BY <2>1, EnvironmentRefines, BootRefines, CycleRefines DEF Next, Environment
<1>2. QED
  BY <1>1, PromiseInit, UpgradeInvariant, PTL DEF Spec, KeepsPromise, Promise!Spec

\* What follows for the device.  Outside the swap it always runs one release, that
\* the host has published, and what startup would apply is a newer one; inside the
\* swap the same is true of what was put aside.
THEOREM RunsWhatWasPublished ==
    ASSUME Undisturbed, Withdrawals = FALSE
    PROVE  Spec => []Promise!InOrder
<1> USE ReleaseAssumption
<1>1. Promise!Init => Promise!InOrder
  BY DEF Promise!Init, Promise!InOrder, Promise!None
<1>2. Promise!InOrder /\ [Promise!Next]_(Promise!vars) => Promise!InOrder'
  <2> SUFFICES ASSUME Promise!InOrder, [Promise!Next]_(Promise!vars)
               PROVE  Promise!InOrder'
    OBVIOUS
  <2>1. CASE UNCHANGED Promise!vars
    BY <2>1 DEF Promise!vars, Promise!InOrder
  <2>2. CASE Promise!Publish \/ Promise!Stage \/ Promise!GiveUp
    BY <2>2 DEF Promise!Publish, Promise!Stage, Promise!GiveUp, Promise!InOrder,
       Promise!None
  <2>3. CASE Promise!Install
    BY <2>3 DEF Promise!Install, Promise!InOrder, Promise!None
  <2>4. QED
    BY <2>1, <2>2, <2>3 DEF Promise!Next
<1>3. QED
  BY <1>1, <1>2, AgentKeepsPromise, PTL DEF KeepsPromise, Promise!Spec

\* No poll, restart or publication ever takes the device back to an older release:
\* what it runs changes only to the newer one that was staged.
THEOREM NeverGoesBack ==
    ASSUME Undisturbed, Withdrawals = FALSE
    PROVE  Spec => Promise!NeverBack
<1> DEFINE Onward ==
        /\ RunningRelease' >= RunningRelease
        /\ RunningRelease' # RunningRelease => RunningRelease' = StagedRelease
<1>1. Promise!InOrder /\ [Promise!Next]_(Promise!vars) => [Onward]_(Promise!vars)
  BY DEF Promise!InOrder, Promise!Next, Promise!Publish, Promise!Stage, Promise!GiveUp,
     Promise!Install, Promise!None
<1>2. QED
  BY <1>1, RunsWhatWasPublished, AgentKeepsPromise, PTL
  DEF KeepsPromise, Promise!Spec, Promise!NeverBack

==============================================================================
