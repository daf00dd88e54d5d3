-------------------------- MODULE UpdateAgentProofs --------------------------
(***************************************************************************)
(* Theorems about UpdateAgent, for every value of its constants.           *)
(***************************************************************************)
EXTENDS UpdateAgent, FiniteSetTheorems, TLAPS

LEMMA ConstantFacts ==
    /\ Root \subseteq Nat /\ 1 \in Root /\ NumRoots \in Root /\ NumRoots \in Nat
    /\ 1 \in Release /\ Release \subseteq 0 .. MaxRelease /\ None \in 0 .. MaxRelease
    /\ None \notin Release /\ MaxRelease \in Nat
    /\ 0 .. MaxRelease \subseteq 0 .. Torn /\ Torn \in 0 .. Torn /\ Torn # None
    /\ \A m \in 0 .. Torn : m # Torn => m \in 0 .. MaxRelease
    /\ Scheduler \in Task /\ Triggers \subseteq Task /\ NoTask \notin Task
    /\ Attempts \in Nat /\ Attempts >= 2
    /\ MaxRetries \in Nat \ {0} /\ 1 \in 1 .. MaxRetries
BY RootAssumption, ReleaseAssumption, TaskAssumption, BoundAssumption
DEF Root, Release, None, Torn, Task, Attempts

LEMMA TreeFacts ==
    /\ NoTree \in Tree
    /\ EmptyTree \in Tree
    /\ \A r \in Root : Installed(r) \in Tree
    /\ \A tree \in Tree : Prune(tree) \in Tree
    /\ \A tree \in Tree, c \in 0 .. MaxRelease :
         /\ [tree EXCEPT !.code = c] \in Tree
         /\ [tree EXCEPT !.tracking = c, !.dir = TRUE] \in Tree
BY ConstantFacts DEF NoTree, EmptyTree, Installed, Prune, Tree, Release, None

LEMMA LessTreeFacts == \A tree \in Tree : LessOf(tree) \subseteq Tree
<1> SUFFICES ASSUME NEW tree \in Tree
             PROVE  LessOf(tree) \subseteq Tree
  OBVIOUS
<1>1. [tree EXCEPT !.code = None] \in Tree
  BY TreeFacts, ConstantFacts
<1>2. [tree EXCEPT !.prefs = 0] \in Tree
  BY DEF Tree
<1>3. QED
  BY <1>1, <1>2, TreeFacts DEF LessOf

LEMMA NoCycleFacts == NoCycle \in CycleRecord /\ NoCycle.stage = "idle"
BY ConstantFacts DEF NoCycle, CycleRecord, Stages

(***************************************************************************)
(* Type correctness.  The boot path reads the release that "pending" names *)
(* without looking again whether there is one, so the types alone are not  *)
(* inductive.                                                              *)
(***************************************************************************)

Applying == proc \in {"deps", "swap", "rollback", "track", "clear"}

TypeInv ==
    /\ TypeOK
    /\ Applying => pending \in Release
    /\ proc = "swap" => at.root \in Root
    /\ proc \notin {"swap", "rollback"} => at = [root |-> 1, step |-> "discard"]

LEMMA KillType ==
    ASSUME TypeInv, Kill,
           crashes' \in Nat /\ faults' \in Nat /\ edits' \in Nat
    PROVE  TypeInv'
<1>1. cyc' \in [Task -> CycleRecord]
  BY NoCycleFacts DEF Kill
<1>2. QED
  BY <1>1, ConstantFacts
  DEF TypeInv, Applying, TypeOK, Kill, install, staging, records, Root

LEMMA EnvironmentType ==
    ASSUME TypeInv,
           (\E r \in Release : Publish(r)) \/ EditPrefs \/ SaveRegistry
           \/ Crash \/ Start
    PROVE  TypeInv'
<1>1. CASE \E r \in Release : Publish(r)
  BY <1>1 DEF TypeInv, Applying, TypeOK, Publish, install, staging, records, tasks, bounds
<1>2. CASE EditPrefs
  <2> DEFINE edited == [live[ConfigRoot] EXCEPT !.prefs = @ + 1]
  <2>a. live[ConfigRoot] \in Tree /\ live[ConfigRoot].prefs \in Nat
    BY RootAssumption DEF TypeInv, TypeOK, Tree
  <2>b. edited \in Tree
    BY <2>a DEF Tree
  <2>c. live' = [live EXCEPT ![ConfigRoot] = edited]
    BY <1>2 DEF EditPrefs
  <2>1. live' \in [Root -> Tree]
    BY <2>b, <2>c, RootAssumption DEF TypeInv, TypeOK
  <2>2. TypeOK'
    BY <1>2, <2>1 DEF TypeInv, TypeOK, EditPrefs, staging, records, tasks
  <2>3. QED
    BY <1>2, <2>2 DEF TypeInv, Applying, EditPrefs, records
<1>3. CASE SaveRegistry
  <2> DEFINE edited == [live[ConfigRoot] EXCEPT !.registry = @ + 1]
  <2>a. live[ConfigRoot] \in Tree /\ live[ConfigRoot].registry \in Nat
    BY RootAssumption DEF TypeInv, TypeOK, Tree
  <2>b. edited \in Tree
    BY <2>a DEF Tree
  <2>c. live' = [live EXCEPT ![ConfigRoot] = edited]
    BY <1>3 DEF SaveRegistry
  <2>1. live' \in [Root -> Tree]
    BY <2>b, <2>c, RootAssumption DEF TypeInv, TypeOK
  <2>2. TypeOK'
    BY <1>3, <2>1 DEF TypeInv, TypeOK, SaveRegistry, staging, records, tasks
  <2>3. QED
    BY <1>3, <2>2 DEF TypeInv, Applying, SaveRegistry, records
<1>4. CASE Crash
  BY <1>4, KillType DEF Crash, TypeInv, TypeOK
<1>5. CASE Start
  BY <1>5 DEF TypeInv, Applying, TypeOK, Start, BootPhases, install, staging, records, tasks, bounds
<1>6. QED
  BY <1>1, <1>2, <1>3, <1>4, <1>5

LEMMA BootType ==
    ASSUME TypeInv, BootStep
    PROVE  TypeInv'
<1> USE DEF BootPhases, install, staging, records, tasks, bounds
<1>1. CASE NothingPending
  BY <1>1 DEF TypeInv, Applying, TypeOK, NothingPending
<1>2. CASE DropUnusable
  BY <1>2, ConstantFacts DEF TypeInv, Applying, TypeOK, DropUnusable
<1>3. CASE BeginApply
  <2>1. pending \in Release
    BY <1>3, ConstantFacts DEF TypeInv, TypeOK, BeginApply, Release, None
  <2>2. QED
    BY <1>3, <2>1 DEF TypeInv, Applying, TypeOK, BeginApply, WriteState, States
<1>4. CASE SyncDependencies
  BY <1>4, ConstantFacts DEF TypeInv, Applying, TypeOK, SyncDependencies
<1>5. CASE SyncFails
  BY <1>5 DEF TypeInv, Applying, TypeOK, SyncFails, WriteState, States, Results
<1>6. CASE DiscardBackup
  BY <1>6, TreeFacts DEF TypeInv, Applying, TypeOK, DiscardBackup, AtSwap
<1>7. CASE MoveOut
  BY <1>7, TreeFacts DEF TypeInv, Applying, TypeOK, MoveOut, AtSwap
<1>8. CASE MoveIn
  <2> DEFINE tree == shadow[pending][at.root]
  <2>1. pending \in Release /\ at.root \in Root /\ tree \in Tree
    BY <1>8 DEF TypeInv, Applying, TypeOK, MoveIn, AtSwap
  <2>2. live' \in [Root -> Tree]
    BY <1>8, <2>1, TreeFacts DEF TypeInv, TypeOK, MoveIn
  <2>3. shadow' \in [Release -> [Root -> Tree]]
    BY <1>8, <2>1, TreeFacts DEF TypeInv, TypeOK, MoveIn
  <2>4. /\ at' \in [root : 0 .. NumRoots, step : {"discard", "out", "in"}]
        /\ proc' = "swap" => at'.root \in Root
        /\ proc' # "swap" => at' = [root |-> 1, step |-> "discard"]
        /\ proc' \in {"swap", "track"}
    BY <1>8, <2>1, ConstantFacts DEF MoveIn, Root
  <2>5. TypeOK'
    BY <1>8, <2>2, <2>3, <2>4 DEF TypeInv, TypeOK, MoveIn
  <2>6. QED
    BY <1>8, <2>1, <2>4, <2>5 DEF TypeInv, Applying, MoveIn
<1>9. CASE SwapFault
  BY <1>9, ConstantFacts DEF TypeInv, Applying, TypeOK, SwapFault, FileError, Root
<1>10. CASE RollbackDiscard
  BY <1>10, TreeFacts DEF TypeInv, Applying, TypeOK, RollbackDiscard
<1>11. CASE RollbackRestore
  <2>1. at.root \in Root
    BY <1>11 DEF TypeInv, TypeOK, RollbackRestore, RolledBack, Root
  <2>2. live' \in [Root -> Tree] /\ backup' \in [Root -> Tree]
    BY <1>11, <2>1, TreeFacts DEF TypeInv, TypeOK, RollbackRestore
  <2>3. at' \in [root : 0 .. NumRoots, step : {"discard", "out", "in"}]
    BY <1>11, <2>1, ConstantFacts DEF RollbackRestore, Root
  <2>4. TypeOK'
    BY <1>11, <2>2, <2>3 DEF TypeInv, TypeOK, RollbackRestore
  <2>5. QED
    BY <1>11, <2>4 DEF TypeInv, Applying, RollbackRestore
<1>12. CASE SwapFails
  BY <1>12, ConstantFacts DEF TypeInv, Applying, TypeOK, SwapFails, Root
<1>13. CASE WriteTrackingFiles
  <2> DEFINE tracked == [live[ConfigRoot] EXCEPT !.tracking = manifest[pending],
                                                 !.dir = TRUE]
  <2>1. pending \in Release /\ manifest[pending] \in 0 .. MaxRelease
    BY <1>13, ConstantFacts DEF TypeInv, TypeOK, Applying, WriteTrackingFiles
  <2>2. tracked \in Tree
    BY <2>1, TreeFacts, RootAssumption DEF TypeInv, TypeOK
  <2>3. live' = [live EXCEPT ![ConfigRoot] = tracked]
    BY <1>13 DEF WriteTrackingFiles, TrackedRelease
  <2>4. live' \in [Root -> Tree]
    BY <2>2, <2>3, RootAssumption DEF TypeInv, TypeOK
  <2>5. TypeOK'
    BY <1>13, <2>4 DEF TypeInv, TypeOK, WriteTrackingFiles
  <2>6. QED
    BY <1>13, <2>1, <2>5 DEF TypeInv, Applying, WriteTrackingFiles
<1>14. CASE ClearPendingUpdate
  BY <1>14, ConstantFacts DEF TypeInv, Applying, TypeOK, ClearPendingUpdate
<1>15. CASE ReportApplied
  BY <1>15 DEF TypeInv, Applying, TypeOK, ReportApplied, WriteState, States, Results
<1>16. CASE TrackingFails
  BY <1>16 DEF TypeInv, Applying, TypeOK, TrackingFails
<1>17. CASE BootError
  BY <1>17, ConstantFacts DEF TypeInv, Applying, TypeOK, BootError, FileError, Root
<1>18. QED
  BY <1>1, <1>2, <1>3, <1>4, <1>5, <1>6, <1>7, <1>8, <1>9, <1>10, <1>11,
     <1>12, <1>13, <1>14, <1>15, <1>16, <1>17 DEF BootStep

LEMMA LeaveType ==
    ASSUME TypeInv, NEW t \in Task, Return(t) \/ Fail(t)
    PROVE  /\ lock' \in Task \cup {NoTask}
           /\ cyc' \in [Task -> CycleRecord]
           /\ sched' \in {"start", "cycle", "retry", "poll"}
           /\ attempt' \in 1 .. MaxRetries
<1>1. CASE Return(t)
  BY <1>1, NoCycleFacts, ConstantFacts DEF Return, Leave, TypeInv, TypeOK
<1>2. CASE Fail(t)
  <2>1. attempt' \in 1 .. MaxRetries
    BY <1>2, ConstantFacts DEF Fail, TypeInv, TypeOK
  <2>2. QED
    BY <1>2, <2>1, NoCycleFacts DEF Fail, Leave, AfterFailure, TypeInv, TypeOK
<1>3. QED
  BY <1>1, <1>2

LEMMA FailType ==
    ASSUME TypeInv, NEW t \in Task, Fail(t),
           crashes' \in Nat /\ faults' \in Nat /\ edits' \in Nat
    PROVE  TypeInv'
<1>1. TypeOK'
  BY LeaveType
  DEF TypeInv, TypeOK, Fail, WriteState, States, Results, install, staging
<1>2. QED
  BY <1>1 DEF TypeInv, Applying, Fail

LEMMA RaiseType ==
    ASSUME TypeInv, NEW t \in Task, Raise(t)
    PROVE  TypeInv'
BY FailType DEF Raise, TypeInv, TypeOK, bounds

LEMMA EnterType ==
    ASSUME TypeInv, proc = "run", NEW t \in Task, Enter(t),
           sched' \in {"start", "cycle", "retry", "poll"}, UNCHANGED attempt
    PROVE  TypeInv'
<1>1. LocalVersion \in 0 .. MaxRelease
  BY RootAssumption DEF TypeInv, TypeOK, LocalVersion, Tree
<1>2. cyc' \in [Task -> CycleRecord]
  <2>1. [NoCycle EXCEPT !.stage = "version", !.cur = LocalVersion] \in CycleRecord
    BY <1>1, NoCycleFacts DEF CycleRecord, Stages
  <2>2. QED
    BY <2>1 DEF Enter, TypeInv, TypeOK
<1>3. TypeOK'
  BY <1>2
  DEF TypeInv, TypeOK, Enter, CheckingState, States, install, staging, bounds
<1>4. QED
  BY <1>3 DEF TypeInv, Applying, Enter

LEMMA StageNames ==
    {"idle", "version", "manifest", "purge", "download", "copy", "overlay",
     "record", "fill", "marker", "finish"} \subseteq Stages
BY DEF Stages

LEMMA CycleUpdate ==
    ASSUME TypeInv, NEW t \in Task, NEW new \in CycleRecord,
           cyc' = [cyc EXCEPT ![t] = new]
    PROVE  cyc' \in [Task -> CycleRecord]
BY DEF TypeInv, TypeOK

LEMMA StageUpdate ==
    ASSUME TypeInv, NEW t \in Task, NEW s \in Stages,
           cyc' = [cyc EXCEPT ![t].stage = s]
    PROVE  cyc' \in [Task -> CycleRecord]
<1> DEFINE new == [cyc[t] EXCEPT !.stage = s]
<1>1. cyc[t] \in CycleRecord
  BY DEF TypeInv, TypeOK
<1>2. new \in CycleRecord
  BY <1>1 DEF CycleRecord
<1>3. cyc' = [cyc EXCEPT ![t] = new]
  OBVIOUS
<1>4. QED
  BY <1>2, <1>3, CycleUpdate

LEMMA CycleType ==
    ASSUME TypeInv, NEW t \in Task,
           BeginScheduled \/ SkipScheduled \/ BeginTriggered(t) \/ CycleStep(t)
    PROVE  TypeInv'
<1> USE DEF install, staging, records, tasks, bounds
<1>1. CASE BeginScheduled
  BY <1>1, EnterType, ConstantFacts DEF BeginScheduled
<1>2. CASE SkipScheduled
  BY <1>2, ConstantFacts DEF SkipScheduled, TypeInv, Applying, TypeOK
<1>3. CASE BeginTriggered(t)
  <2>1. proc = "run" /\ Enter(t) /\ UNCHANGED <<sched, attempt>>
    BY <1>3 DEF BeginTriggered
  <2>2. QED
    BY <2>1, EnterType DEF TypeInv, TypeOK
<1>4. CASE FetchVersion(t)
  <2> DEFINE new == [cyc[t] EXCEPT !.ver = remote, !.stage = "manifest"]
  <2>a. cyc[t] \in CycleRecord /\ remote \in 0 .. MaxRelease
    BY ConstantFacts DEF TypeInv, TypeOK
  <2>b. new \in CycleRecord
    BY <2>a, StageNames DEF CycleRecord
  <2>c. cyc' = [cyc EXCEPT ![t] = new]
    BY <1>4, <2>a DEF FetchVersion, TypeInv, TypeOK
  <2>1. cyc' \in [Task -> CycleRecord]
    BY <2>b, <2>c, CycleUpdate
  <2>2. QED
    BY <1>4, <2>1 DEF FetchVersion, InCycle, TypeInv, Applying, TypeOK
<1>5. CASE NetworkError(t)
  BY <1>5, RaiseType DEF NetworkError
<1>6. CASE ManifestWithoutFiles(t)
  <2>1. TypeOK'
    BY <1>6, LeaveType
    DEF ManifestWithoutFiles, TypeInv, TypeOK, WriteState, States, Results
  <2>2. QED
    BY <1>6, <2>1 DEF ManifestWithoutFiles, InCycle, TypeInv, Applying
<1>7. CASE SkipDrift(t)
  <2>1. TypeOK'
    BY <1>7, LeaveType DEF SkipDrift, TypeInv, TypeOK, WriteState, States, Results
  <2>2. QED
    BY <1>7, <2>1 DEF SkipDrift, InCycle, TypeInv, Applying
<1>8. CASE NoChange(t)
  <2>1. TypeOK'
    BY <1>8, LeaveType DEF NoChange, TypeInv, TypeOK, WriteState, States, Results
  <2>2. QED
    BY <1>8, <2>1 DEF NoChange, InCycle, TypeInv, Applying
<1>9. CASE BeginStaging(t)
  <2> DEFINE new == [cyc[t] EXCEPT !.man = remote, !.todo = ChangedFiles(remote),
                                   !.stage = "purge"]
  <2>a. cyc[t] \in CycleRecord /\ remote \in 0 .. MaxRelease
    BY ConstantFacts DEF TypeInv, TypeOK
  <2>b. new \in CycleRecord
    BY <2>a, StageNames DEF CycleRecord, ChangedFiles
  <2>c. cyc' = [cyc EXCEPT ![t] = new]
    BY <1>9, <2>a DEF BeginStaging, TypeInv, TypeOK
  <2>1. cyc' \in [Task -> CycleRecord]
    BY <2>b, <2>c, CycleUpdate
  <2>2. QED
    BY <1>9, <2>1 DEF BeginStaging, InCycle, TypeInv, Applying, TypeOK
<1>10. CASE PurgeManifest(t)
  BY <1>10, ConstantFacts DEF PurgeManifest, InCycle, TypeInv, Applying, TypeOK
<1>11. CASE Purged(t)
  <2>1. cyc' \in [Task -> CycleRecord]
    BY <1>11, StageUpdate, StageNames DEF Purged
  <2>2. QED
    BY <1>11, <2>1
    DEF Purged, InCycle, WriteState, States, TypeInv, Applying, TypeOK
<1>12. CASE \E r \in Root : PurgeTree(t, r) \/ Download(t, r)
  <2> PICK r \in Root : PurgeTree(t, r) \/ Download(t, r)
    BY <1>12
  <2>1. CASE PurgeTree(t, r)
    <3>1. cyc[t].ver \in 0 .. MaxRelease
      BY DEF TypeInv, TypeOK, CycleRecord
    <3>2. shadow' \in [Release -> [Root -> Tree]]
      <4> PICK rest \in LessOf(shadow[cyc[t].ver][r]) :
               shadow' = [shadow EXCEPT ![cyc[t].ver][r] = rest]
        BY <2>1 DEF PurgeTree
      <4>1. CASE cyc[t].ver \in Release
        <5>1. shadow[cyc[t].ver][r] \in Tree
          BY <4>1 DEF TypeInv, TypeOK
        <5>2. rest \in Tree
          BY <5>1, LessTreeFacts
        <5>3. QED
          BY <5>2 DEF TypeInv, TypeOK
      <4>2. CASE cyc[t].ver \notin Release
        BY <4>2 DEF TypeInv, TypeOK
      <4>3. QED
        BY <4>1, <4>2
    <3>3. QED
      BY <2>1, <3>2 DEF PurgeTree, InCycle, TypeInv, Applying, TypeOK
  <2>2. CASE Download(t, r)
    <3> DEFINE new == [cyc[t] EXCEPT !.todo = @ \ {r}, !.got[r] = remote, !.tries = 0]
    <3>a. cyc[t] \in CycleRecord /\ remote \in 0 .. MaxRelease
      BY ConstantFacts DEF TypeInv, TypeOK
    <3> DEFINE got == [cyc[t].got EXCEPT ![r] = remote]
    <3>d. got \in [Root -> 0 .. MaxRelease]
      BY <3>a DEF CycleRecord
    <3>e. cyc[t].todo \ {r} \in SUBSET Root /\ 0 \in 0 .. Attempts
      BY <3>a, ConstantFacts DEF CycleRecord
    <3>f. new = [cyc[t] EXCEPT !.todo = cyc[t].todo \ {r}, !.got = got, !.tries = 0]
      BY <3>a DEF CycleRecord
    <3> HIDE DEF got
    <3>b. new \in CycleRecord
      BY <3>a, <3>d, <3>e, <3>f DEF CycleRecord
    <3>c. cyc' = [cyc EXCEPT ![t] = new]
      BY <2>2 DEF Download
    <3>1. cyc' \in [Task -> CycleRecord]
      BY <3>b, <3>c, CycleUpdate
    <3>2. QED
      BY <2>2, <3>1 DEF Download, InCycle, TypeInv, Applying, TypeOK
  <2>3. QED
    BY <2>1, <2>2
<1>13. CASE RetryDownload(t)
  <2> DEFINE new == [cyc[t] EXCEPT !.tries = @ + 1]
  <2>a. cyc[t] \in CycleRecord
    BY DEF TypeInv, TypeOK
  <2>b. new \in CycleRecord
    BY <1>13, <2>a, ConstantFacts DEF RetryDownload, CanRetry, CycleRecord
  <2>c. cyc' = [cyc EXCEPT ![t] = new]
    BY <1>13 DEF RetryDownload
  <2>1. cyc' \in [Task -> CycleRecord]
    BY <2>b, <2>c, CycleUpdate
  <2>2. QED
    BY <1>13, <2>1 DEF RetryDownload, InCycle, TypeInv, Applying, TypeOK
<1>14. CASE GiveUpDownload(t)
  BY <1>14, RaiseType DEF GiveUpDownload
<1>15. CASE Downloaded(t)
  <2>1. cyc' \in [Task -> CycleRecord]
    BY <1>15, StageUpdate, StageNames DEF Downloaded
  <2>2. QED
    BY <1>15, <2>1
    DEF Downloaded, InCycle, WriteState, States, TypeInv, Applying, TypeOK
<1>16. CASE CopyLive(t)
  <2>1. cyc' \in [Task -> CycleRecord]
    BY <1>16, StageUpdate, StageNames DEF CopyLive
  <2>2. [r \in Root |-> IF live[r].dir THEN live[r] ELSE EmptyTree] \in [Root -> Tree]
    BY TreeFacts DEF TypeInv, TypeOK
  <2>3. QED
    BY <1>16, <2>1, <2>2 DEF CopyLive, InCycle, TypeInv, Applying, TypeOK
<1>17. CASE Overlay(t)
  <2> DEFINE lay(r, tree) ==
          IF cyc[t].got[r] # None THEN [tree EXCEPT !.code = cyc[t].got[r]] ELSE tree
  <2>1. cyc' \in [Task -> CycleRecord]
    BY <1>17, StageUpdate, StageNames DEF Overlay
  <2>2. cyc[t].got \in [Root -> 0 .. MaxRelease]
    BY DEF TypeInv, TypeOK, CycleRecord
  <2>3. ASSUME NEW tree \in Tree, NEW r \in Root
        PROVE  Prune(lay(r, tree)) \in Tree
    <3>1. lay(r, tree) \in Tree
      BY <2>2, TreeFacts
    <3>2. QED
      BY <3>1, TreeFacts
  <2>4. shadow' \in [Release -> [Root -> Tree]]
    BY <1>17, <2>3 DEF Overlay, TypeInv, TypeOK
  <2>5. QED
    BY <1>17, <2>1, <2>4 DEF Overlay, InCycle, TypeInv, Applying, TypeOK
<1>18. CASE RecordManifest(t)
  <2>0. cyc' \in [Task -> CycleRecord]
    BY <1>18, StageUpdate, StageNames DEF RecordManifest
  <2>1. QED
    BY <1>18, <2>0, ConstantFacts DEF RecordManifest, InCycle, TypeInv, Applying, TypeOK
<1>19. CASE WritePendingUpdate(t)
  <2>0. cyc' \in [Task -> CycleRecord]
    BY <1>19, StageUpdate, StageNames DEF WritePendingUpdate
  <2>1. cyc' \in [Task -> CycleRecord] /\ cyc[t].ver \in 0 .. MaxRelease
    BY <2>0 DEF TypeInv, TypeOK, CycleRecord
  <2>2. QED
    BY <1>19, <2>1 DEF WritePendingUpdate, InCycle, TypeInv, Applying, TypeOK
<1>20. CASE ReportStaged(t)
  <2>1. TypeOK'
    BY <1>20, LeaveType
    DEF ReportStaged, TypeInv, TypeOK, WriteState, States, Results
  <2>2. QED
    BY <1>20, <2>1 DEF ReportStaged, InCycle, TypeInv, Applying
<1>21. CASE FillManifest(t)
  <2>0. cyc' \in [Task -> CycleRecord]
    BY <1>21, StageUpdate, StageNames DEF FillManifest
  <2>1. cyc[t].man \in 0 .. Torn
    BY ConstantFacts DEF TypeInv, TypeOK, CycleRecord
  <2>2. QED
    BY <1>21, <2>0, <2>1 DEF FillManifest, InCycle, TypeInv, Applying, TypeOK
<1>22. CASE DiskError(t)
  BY <1>22, FailType DEF DiskError, FileError, TypeInv, TypeOK
<1>23. QED
  BY <1>1, <1>2, <1>3, <1>4, <1>5, <1>6, <1>7, <1>8, <1>9, <1>10, <1>11, <1>12,
     <1>13, <1>14, <1>15, <1>16, <1>17, <1>18, <1>19, <1>20, <1>21, <1>22
  DEF CycleStep

LEMMA TypeInit == Init => TypeInv
<1> SUFFICES ASSUME Init
             PROVE  TypeInv
  OBVIOUS
<1>1. live \in [Root -> Tree] /\ backup \in [Root -> Tree]
  BY TreeFacts DEF Init
<1>2. shadow \in [Release -> [Root -> Tree]] /\ built \in [Release -> BOOLEAN]
  BY TreeFacts DEF Init
<1>3. manifest \in [Release -> 0 .. Torn] /\ cyc \in [Task -> CycleRecord]
  BY ConstantFacts, NoCycleFacts DEF Init
<1>a. at \in [root : 0 .. NumRoots, step : {"discard", "out", "in"}]
  BY ConstantFacts DEF Init, Root
<1>b. st \in [state : States, reboot : BOOLEAN] /\ last \in Results
  BY DEF Init, States, Results
<1>c. remote \in Release /\ pending \in 0 .. MaxRelease /\ attempt \in 1 .. MaxRetries
  BY ConstantFacts DEF Init
<1>4. TypeOK
  BY <1>1, <1>2, <1>3, <1>a, <1>b, <1>c DEF Init, TypeOK
<1>5. QED
  BY <1>4 DEF Init, TypeInv, Applying

LEMMA TypeStep == TypeInv /\ [Next]_vars => TypeInv'
<1> SUFFICES ASSUME TypeInv, [Next]_vars
             PROVE  TypeInv'
  OBVIOUS
<1>1. CASE UNCHANGED vars
  BY <1>1 DEF vars, TypeInv, TypeOK, Applying
<1>2. CASE Next
  BY <1>2, EnvironmentType, BootType, CycleType, ConstantFacts DEF Next
<1>3. QED
  BY <1>1, <1>2

LEMMA TypeInvariant == Spec => []TypeInv
BY TypeInit, TypeStep, PTL DEF Spec

\* Every variable keeps its type, whatever is killed, fails or is edited.
THEOREM TypeCorrect == Spec => []TypeOK
<1>1. TypeInv => TypeOK
  BY DEF TypeInv
<1>2. QED
  BY <1>1, TypeInvariant, PTL

(***************************************************************************)
(* Mutual exclusion.  No action of a cycle tests the lock again, so it has *)
(* to follow from the single test at the entry that the cycle, once inside,*)
(* is alone until it leaves.                                               *)
(***************************************************************************)

\* What a step of t's cycle does to the other tasks: nothing.
LEMMA OthersKeepTheirCycle ==
    ASSUME TypeInv, NEW t \in Task,
           CycleStep(t) \/ Enter(t)
    PROVE  \A u \in Task \ {t} : cyc'[u] = cyc[u]
<1>1. CASE \E r \in Root : PurgeTree(t, r) \/ Download(t, r)
  BY <1>1 DEF PurgeTree, Download, TypeInv, TypeOK, tasks
<1>2. CASE NetworkError(t) \/ DiskError(t) \/ GiveUpDownload(t)
  BY <1>2 DEF NetworkError, DiskError, GiveUpDownload, Raise, Fail, Leave, TypeInv, TypeOK
<1>3. CASE ManifestWithoutFiles(t) \/ SkipDrift(t) \/ NoChange(t) \/ ReportStaged(t)
  BY <1>3 DEF ManifestWithoutFiles, SkipDrift, NoChange, ReportStaged, Return, Leave,
              TypeInv, TypeOK
<1>4. CASE FetchVersion(t) \/ BeginStaging(t) \/ RetryDownload(t)
  BY <1>4 DEF FetchVersion, BeginStaging, RetryDownload, TypeInv, TypeOK
<1>5. CASE PurgeManifest(t) \/ Purged(t) \/ Downloaded(t) \/ CopyLive(t)
  BY <1>5 DEF PurgeManifest, Purged, Downloaded, CopyLive, TypeInv, TypeOK, tasks
<1>6. CASE Overlay(t) \/ RecordManifest(t) \/ FillManifest(t) \/ WritePendingUpdate(t)
  BY <1>6 DEF Overlay, RecordManifest, FillManifest, WritePendingUpdate, TypeInv, TypeOK
<1>7. CASE Enter(t)
  BY <1>7 DEF Enter, TypeInv, TypeOK
<1>8. QED
  BY <1>1, <1>2, <1>3, <1>4, <1>5, <1>6, <1>7 DEF CycleStep

\* A step of t's cycle starts inside the cycle, while the process polls, and
\* keeps the lock unless it is the last one.
LEMMA CycleStepShape ==
    ASSUME TypeInv, NEW t \in Task, CycleStep(t)
    PROVE  /\ cyc[t].stage # "idle" /\ proc = "run" /\ proc' = "run"
           /\ \/ lock' = lock
              \/ lock' = NoTask /\ cyc'[t] = NoCycle
<1>1. CASE \E r \in Root : PurgeTree(t, r) \/ Download(t, r)
  BY <1>1 DEF PurgeTree, Download, InCycle, tasks
<1>2. CASE NetworkError(t) \/ DiskError(t) \/ GiveUpDownload(t)
  BY <1>2 DEF NetworkError, DiskError, GiveUpDownload, InCycle, Raise, Fail, Leave, TypeInv, TypeOK
<1>3. CASE ManifestWithoutFiles(t) \/ SkipDrift(t) \/ NoChange(t) \/ ReportStaged(t)
  BY <1>3 DEF ManifestWithoutFiles, SkipDrift, NoChange, ReportStaged, InCycle, Return,
              Leave, TypeInv, TypeOK
<1>4. CASE FetchVersion(t) \/ BeginStaging(t) \/ RetryDownload(t)
  BY <1>4 DEF FetchVersion, BeginStaging, RetryDownload, InCycle
<1>5. CASE PurgeManifest(t) \/ Purged(t) \/ Downloaded(t) \/ CopyLive(t)
  BY <1>5 DEF PurgeManifest, Purged, Downloaded, CopyLive, InCycle, tasks
<1>6. CASE Overlay(t) \/ RecordManifest(t) \/ FillManifest(t) \/ WritePendingUpdate(t)
  BY <1>6 DEF Overlay, RecordManifest, FillManifest, WritePendingUpdate, InCycle
<1>7. QED
  BY <1>1, <1>2, <1>3, <1>4, <1>5, <1>6 DEF CycleStep

\* Outside the cycles nothing enters one: cyc stays, or a kill empties it.
LEMMA OutsideCycles ==
    ASSUME TypeInv, NEW t \in Task,
           \/ \E r \in Release : Publish(r)
           \/ EditPrefs \/ SaveRegistry \/ Crash \/ Start \/ BootStep \/ SkipScheduled
    PROVE  \/ cyc'[t] = NoCycle
           \/ cyc' = cyc /\ lock' = lock /\ (proc = "run" => proc' = "run")
<1>1. CASE BootStep
  BY <1>1 DEF BootStep, NothingPending, DropUnusable, BeginApply, SyncDependencies,
     SyncFails, DiscardBackup, MoveOut, MoveIn, AtSwap, SwapFault, BootError, FileError, RollbackDiscard,
     RollbackRestore, SwapFails, WriteTrackingFiles, TrackingFails, ClearPendingUpdate,
     ReportApplied, tasks
<1>2. CASE Crash
  BY <1>2 DEF Crash, Kill
<1>3. CASE (\E r \in Release : Publish(r)) \/ EditPrefs \/ SaveRegistry \/ Start
           \/ SkipScheduled
  BY <1>3 DEF Publish, EditPrefs, SaveRegistry, Start, SkipScheduled, tasks
<1>4. QED
  BY <1>1, <1>2, <1>3

LEMMA OneCycleStep ==
    ASSUME TypeInv, OneCycleAtATime, [Next]_vars
    PROVE  OneCycleAtATime'
<1> SUFFICES ASSUME NEW u \in Task, cyc'[u].stage # "idle"
             PROVE  lock' = u /\ proc' = "run"
  BY DEF OneCycleAtATime
<1>1. CASE \/ \E r \in Release : Publish(r)
           \/ EditPrefs \/ SaveRegistry \/ Crash \/ Start \/ BootStep \/ SkipScheduled
  BY <1>1, OutsideCycles, NoCycleFacts DEF OneCycleAtATime
<1>2. ASSUME NEW t \in Task, proc = "run", proc' = "run", Enter(t)
      PROVE  lock' = u /\ proc' = "run"
  <2>1. lock = NoTask /\ lock' = t
    BY <1>2 DEF Enter, LockFree
  <2>2. cyc[u].stage = "idle"
    BY <2>1, ConstantFacts DEF OneCycleAtATime
  <2>3. u = t
    BY <1>2, <2>2, OthersKeepTheirCycle
  <2>4. QED
    BY <1>2, <2>1, <2>3
<1>3. ASSUME NEW t \in Task, CycleStep(t)
      PROVE  lock' = u /\ proc' = "run"
  <2>1. lock = t
    BY <1>3, CycleStepShape DEF OneCycleAtATime
  <2>2. u = t
    BY <1>3, <2>1, OthersKeepTheirCycle DEF OneCycleAtATime
  <2>3. QED
    BY <1>3, <2>1, <2>2, CycleStepShape, NoCycleFacts
<1>4. CASE BeginScheduled
  BY <1>4, <1>2, ConstantFacts DEF BeginScheduled, Enter
<1>5. ASSUME NEW t \in Task, BeginTriggered(t)
      PROVE  lock' = u /\ proc' = "run"
  BY <1>5, <1>2 DEF BeginTriggered, Enter
<1>6. CASE UNCHANGED vars
  BY <1>6 DEF vars, OneCycleAtATime
<1>7. QED
  BY <1>1, <1>3, <1>4, <1>5, <1>6 DEF Next

\* run_update_cycle's "is the lock free?" is enough: at most one update cycle is
\* in flight, and none while the boot path moves the live roots.
THEOREM OneCycle == Spec => []OneCycleAtATime
<1>1. Init => OneCycleAtATime
  BY NoCycleFacts DEF Init, OneCycleAtATime
<1>2. TypeInv /\ OneCycleAtATime /\ [Next]_vars => OneCycleAtATime'
  BY OneCycleStep
<1>3. QED
  BY <1>1, <1>2, TypeInvariant, PTL DEF Spec

(***************************************************************************)
(* The lock and the polling loop.  A step of a cycle goes on with it, or   *)
(* gives the lock back and sends the loop on, if the cycle was the loop's. *)
(***************************************************************************)

LEMMA CycleGoesOnOrEnds ==
    ASSUME TypeInv, NEW t \in Task, CycleStep(t)
    PROVE  \/ lock' = lock /\ sched' = sched /\ cyc'[t].stage # "idle"
           \/ lock' = NoTask /\ IF t = Scheduler THEN sched' \in {"retry", "poll"}
                                ELSE sched' = sched
<1> USE DEF tasks
<1>0. cyc \in [Task -> CycleRecord] /\ cyc[t] \in CycleRecord
  BY DEF TypeInv, TypeOK
<1>1. CASE \E r \in Root : PurgeTree(t, r) \/ Download(t, r)
  <2> PICK r \in Root : PurgeTree(t, r) \/ Download(t, r)
    BY <1>1
  <2>1. CASE PurgeTree(t, r)
    BY <2>1 DEF PurgeTree, InCycle
  <2>2. CASE Download(t, r)
    BY <1>0, <2>2 DEF Download, InCycle, CycleRecord
  <2>3. QED
    BY <2>1, <2>2
<1>2. CASE NetworkError(t) \/ DiskError(t) \/ GiveUpDownload(t)
  BY <1>2 DEF NetworkError, DiskError, GiveUpDownload, Raise, Fail, Leave, AfterFailure
<1>3. CASE ManifestWithoutFiles(t) \/ SkipDrift(t) \/ NoChange(t) \/ ReportStaged(t)
  BY <1>3 DEF ManifestWithoutFiles, SkipDrift, NoChange, ReportStaged, Return, Leave
<1>4. CASE FetchVersion(t) \/ BeginStaging(t)
  BY <1>0, <1>4 DEF FetchVersion, BeginStaging, InCycle, CycleRecord
<1>5. CASE RetryDownload(t)
  <2>1. cyc'[t].stage = cyc[t].stage
    BY <1>0, <1>5 DEF RetryDownload, CycleRecord
  <2>2. QED
    BY <1>5, <2>1 DEF RetryDownload, InCycle
<1>6. CASE PurgeManifest(t)
  BY <1>6 DEF PurgeManifest, InCycle
<1>7. CASE Purged(t) \/ Downloaded(t) \/ CopyLive(t)
  BY <1>0, <1>7 DEF Purged, Downloaded, CopyLive, InCycle, CycleRecord
<1>8. CASE Overlay(t) \/ RecordManifest(t) \/ FillManifest(t) \/ WritePendingUpdate(t)
  BY <1>0, <1>8
  DEF Overlay, RecordManifest, FillManifest, WritePendingUpdate, InCycle, CycleRecord
<1>9. QED
  BY <1>1, <1>2, <1>3, <1>4, <1>5, <1>6, <1>7, <1>8 DEF CycleStep

LEMMA WaitsInit == Init => NobodyWaitsInVain
BY DEF Init, NobodyWaitsInVain

LEMMA KillWaits == Kill => NobodyWaitsInVain'
BY DEF Kill, NobodyWaitsInVain

LEMMA WaitsStep ==
    ASSUME TypeInv, OneCycleAtATime, NobodyWaitsInVain, [Next]_vars
    PROVE  NobodyWaitsInVain'
<1>1. ASSUME UNCHANGED <<lock, cyc, sched>>
      PROVE  NobodyWaitsInVain'
  BY <1>1 DEF NobodyWaitsInVain
<1>2. CASE (\E r \in Release : Publish(r)) \/ EditPrefs \/ SaveRegistry \/ Start
           \/ UNCHANGED vars
  BY <1>1, <1>2 DEF Publish, EditPrefs, SaveRegistry, Start, tasks, vars
<1>3. CASE Crash
  BY <1>3, KillWaits DEF Crash
<1>4. CASE BootStep
  BY <1>1, <1>4 DEF BootStep, NothingPending, DropUnusable, BeginApply, SyncDependencies,
     SyncFails, DiscardBackup, MoveOut, MoveIn, AtSwap, SwapFault, BootError, FileError, RollbackDiscard,
     RollbackRestore, SwapFails, WriteTrackingFiles, TrackingFails, ClearPendingUpdate,
     ReportApplied, tasks
<1>5. CASE SkipScheduled
  BY <1>5 DEF SkipScheduled, NobodyWaitsInVain
<1>6. ASSUME NEW t \in Task, Enter(t)
      PROVE  lock' = t /\ lock = NoTask /\ cyc'[t].stage = "version"
  BY <1>6 DEF Enter, LockFree, TypeInv, TypeOK, NoCycle
<1>7. CASE BeginScheduled
  BY <1>6, <1>7, ConstantFacts DEF BeginScheduled, NobodyWaitsInVain
<1>8. CASE \E t \in Task : BeginTriggered(t)
  <2>1. sched # "cycle"
    BY <1>6, <1>8, ConstantFacts DEF BeginTriggered, NobodyWaitsInVain, OneCycleAtATime
  <2>2. QED
    BY <1>6, <1>8, <2>1 DEF BeginTriggered, NobodyWaitsInVain
<1>9. ASSUME NEW t \in Task, CycleStep(t)
      PROVE  NobodyWaitsInVain'
  <2>1. lock = t
    BY <1>9, CycleStepShape DEF OneCycleAtATime
  <2>2. sched = "cycle" => t = Scheduler
    BY <2>1, ConstantFacts DEF NobodyWaitsInVain, OneCycleAtATime
  <2>3. QED
    BY <1>9, <2>1, <2>2, CycleGoesOnOrEnds, ConstantFacts DEF NobodyWaitsInVain
<1>10. QED
  BY <1>2, <1>3, <1>4, <1>5, <1>7, <1>8, <1>9 DEF Next

\* Whether a cycle returns, raises or is killed, the lock goes with it, and the
\* polling loop is sent on: no later cycle is skipped for one that is over.
THEOREM NoVainWait == Spec => []NobodyWaitsInVain
BY WaitsInit, WaitsStep, TypeInvariant, OneCycle, PTL DEF Spec

(***************************************************************************)
(* The announced reboot.  It is announced by the last step of a staging    *)
(* cycle and by a failed dependency sync; between an announcement and the  *)
(* next start every step that could spoil the staged release is a step of  *)
(* a cycle, and a cycle withdraws the announcement before anything else.   *)
(***************************************************************************)

\* What a staging cycle has made sure of, by the stage it is in.
CycleInv(t) ==
    LET c == cyc[t]
    IN  /\ c.stage \notin {"idle", "version"} => c.ver \in Release
        /\ c.stage \notin {"idle", "version", "manifest"} => c.man \in Release
        /\ c.stage \in {"overlay", "record", "fill", "marker", "finish"} => built[c.ver]
        /\ c.stage \in {"marker", "finish"} => manifest[c.ver] = c.man
        /\ c.stage = "finish" => pending = c.ver

RebootInv ==
    /\ RebootWillApply
    /\ lock # NoTask => ~st.reboot /\ proc = "run"
    /\ proc \in {"deps", "swap", "rollback", "track", "clear", "report"} => ~st.reboot
    /\ proc = "deps" => pending # None /\ Applicable(pending)
    /\ \A t \in Task : CycleInv(t)

RebootHyp == TypeInv /\ OneCycleAtATime /\ RebootInv

\* The booting process and the environment run no cycle.
LEMMA NoCycleNoClaim ==
    ASSUME NEW t \in Task, cyc[t].stage = "idle"
    PROVE  CycleInv(t)
BY DEF CycleInv

LEMMA BootReboot ==
    ASSUME RebootHyp, BootStep
    PROVE  RebootInv'
<1> USE DEF install, staging, records, tasks, RebootWillApply, Applicable
<1>1. \A t \in Task : cyc[t].stage = "idle"
  BY DEF RebootHyp, OneCycleAtATime, BootStep, NothingPending, DropUnusable, BeginApply,
     SyncDependencies, SyncFails, DiscardBackup, MoveOut, MoveIn, AtSwap, SwapFault, BootError, FileError,
     RollbackDiscard, RollbackRestore, SwapFails, WriteTrackingFiles,
     TrackingFails, ClearPendingUpdate, ReportApplied, BootPhases
<1>2. cyc' = cyc /\ lock' = lock /\ proc # "run"
  BY DEF BootStep, NothingPending, DropUnusable, BeginApply,
     SyncDependencies, SyncFails, DiscardBackup, MoveOut, MoveIn, AtSwap, SwapFault, BootError, FileError,
     RollbackDiscard, RollbackRestore, SwapFails, WriteTrackingFiles,
     TrackingFails, ClearPendingUpdate, ReportApplied, BootPhases
<1>3. lock' = NoTask /\ \A t \in Task : CycleInv(t)'
  BY <1>1, <1>2 DEF RebootHyp, RebootInv, CycleInv
<1>4. /\ RebootWillApply'
      /\ proc' \in {"deps", "swap", "rollback", "track", "clear", "report"} => ~st'.reboot
      /\ proc' = "deps" => pending' # None /\ Applicable(pending)'
  <2>1. CASE NothingPending \/ DropUnusable \/ BeginApply \/ SyncDependencies \/ SyncFails
    BY <2>1 DEF RebootHyp, RebootInv, NothingPending, DropUnusable, BeginApply,
       SyncDependencies, SyncFails, WriteState
  <2>2. CASE DiscardBackup \/ MoveOut \/ MoveIn
    BY <2>2 DEF RebootHyp, RebootInv, DiscardBackup, MoveOut, MoveIn, AtSwap
  <2>3. CASE SwapFault \/ RollbackDiscard \/ RollbackRestore \/ SwapFails \/ BootError
    BY <2>3 DEF RebootHyp, RebootInv, SwapFault, BootError, FileError,
       RollbackDiscard, RollbackRestore,
       SwapFails
  <2>4. CASE WriteTrackingFiles \/ TrackingFails \/ ClearPendingUpdate \/ ReportApplied
    BY <2>4 DEF RebootHyp, RebootInv, WriteTrackingFiles, TrackingFails, ClearPendingUpdate,
       ReportApplied, WriteState
  <2>5. QED
    BY <2>1, <2>2, <2>3, <2>4 DEF BootStep
<1>5. QED
  BY <1>3, <1>4 DEF RebootInv

LEMMA KillReboot ==
    ASSUME RebootHyp, Kill
    PROVE  RebootInv'
<1>1. \A t \in Task : CycleInv(t)'
  BY NoCycleFacts DEF CycleInv, Kill
<1>2. QED
  BY <1>1 DEF RebootHyp, RebootInv, RebootWillApply, Applicable, Kill, staging, records

LEMMA EnvironmentReboot ==
    ASSUME RebootHyp,
           \/ \E r \in Release : Publish(r)
           \/ EditPrefs \/ SaveRegistry \/ Crash \/ Start \/ SkipScheduled
    PROVE  RebootInv'
<1> USE DEF install, staging, records, tasks, RebootWillApply, Applicable
<1>1. CASE (\E r \in Release : Publish(r)) \/ EditPrefs \/ SaveRegistry \/ SkipScheduled
  BY <1>1 DEF RebootHyp, RebootInv, CycleInv, Publish, EditPrefs, SaveRegistry,
     SkipScheduled
<1>2. CASE Crash
  BY <1>2, KillReboot DEF Crash
<1>3. CASE Start
  BY <1>3 DEF RebootHyp, RebootInv, CycleInv, Start
<1>4. QED
  BY <1>1, <1>2, <1>3

LEMMA EnterReboot ==
    ASSUME RebootHyp, proc = "run", proc' = "run", NEW t \in Task, Enter(t)
    PROVE  RebootInv'
<1>1. ~st'.reboot /\ UNCHANGED <<built, manifest, pending>>
  BY DEF Enter, CheckingState, staging
<1>2. cyc'[t].stage = "version"
  BY DEF Enter, RebootHyp, TypeInv, TypeOK, NoCycle
<1>3. \A u \in Task : CycleInv(u)'
  BY <1>1, <1>2, OthersKeepTheirCycle DEF RebootHyp, RebootInv, CycleInv
<1>4. QED
  BY <1>1, <1>3 DEF RebootInv, RebootWillApply

\* A cycle that gives the lock back says nothing, or that its release is staged.
LEMMA LeavingReboot ==
    ASSUME RebootHyp, NEW t \in Task, CycleStep(t), cyc'[t] = NoCycle, proc' = "run",
           UNCHANGED <<built, manifest, pending>>, RebootWillApply',
           lock' = NoTask
    PROVE  RebootInv'
<1>1. \A u \in Task : CycleInv(u)'
  BY OthersKeepTheirCycle, NoCycleFacts DEF RebootHyp, RebootInv, CycleInv
<1>2. QED
  BY <1>1 DEF RebootInv

\* A step that stays in the cycle leaves the reboot unannounced.
LEMMA StayingReboot ==
    ASSUME RebootHyp, NEW t \in Task, CycleStep(t), lock' = lock, proc' = "run",
           st' = st \/ ~st'.reboot, CycleInv(t)'
    PROVE  RebootInv'
<1>1. lock = t /\ proc = "run" /\ ~st.reboot /\ t # NoTask
  BY CycleStepShape, ConstantFacts DEF RebootHyp, RebootInv, OneCycleAtATime
<1>2. \A u \in Task \ {t} : cyc'[u].stage = "idle"
  BY <1>1, OthersKeepTheirCycle DEF RebootHyp, OneCycleAtATime
<1>3. \A u \in Task : CycleInv(u)'
  BY <1>2 DEF CycleInv
<1>4. QED
  BY <1>1, <1>3 DEF RebootInv, RebootWillApply

LEMMA CycleReboot ==
    ASSUME RebootHyp, NEW t \in Task, CycleStep(t)
    PROVE  RebootInv'
<1> USE DEF install, staging, records, tasks
<1>0. /\ CycleInv(t)
      /\ TypeOK /\ cyc \in [Task -> CycleRecord] /\ remote \in Release
      /\ manifest \in [Release -> 0 .. Torn] /\ built \in [Release -> BOOLEAN]
  BY DEF RebootHyp, RebootInv, TypeInv, TypeOK
<1>s. /\ cyc[t].stage # "idle" /\ proc = "run" /\ proc' = "run"
      /\ lock' = lock \/ (lock' = NoTask /\ cyc'[t] = NoCycle)
  BY CycleStepShape DEF RebootHyp
<1>1. CASE NetworkError(t) \/ DiskError(t) \/ GiveUpDownload(t)
  <2>1. Fail(t)
    BY <1>1 DEF NetworkError, DiskError, GiveUpDownload, Raise
  <2>2. cyc'[t] = NoCycle /\ lock' = NoTask
    BY <1>0, <2>1 DEF Fail, Leave
  <2>3. QED
    BY <2>1, <2>2, LeavingReboot, <1>s DEF Fail, RebootWillApply, WriteState
<1>2. CASE ManifestWithoutFiles(t) \/ SkipDrift(t) \/ NoChange(t)
  <2>1. cyc'[t] = NoCycle /\ lock' = NoTask
    BY <1>0, <1>2 DEF ManifestWithoutFiles, SkipDrift, NoChange, Return, Leave
  <2>2. ~st'.reboot /\ UNCHANGED <<built, manifest, pending>>
    BY <1>2 DEF ManifestWithoutFiles, SkipDrift, NoChange, WriteState
  <2>3. QED
    BY <2>1, <2>2, LeavingReboot, <1>s DEF RebootWillApply
<1>3. CASE ReportStaged(t)
  <2>1. cyc'[t] = NoCycle /\ lock' = NoTask
    BY <1>0, <1>3 DEF ReportStaged, Return, Leave
  <2>2. UNCHANGED <<built, manifest, pending>>
    BY <1>3 DEF ReportStaged
  <2>3. pending # None /\ Applicable(pending)
    BY <1>0, <1>3, ConstantFacts DEF ReportStaged, InCycle, CycleInv, Applicable
  <2>4. QED
    BY <2>1, <2>2, <2>3, LeavingReboot, <1>s DEF RebootWillApply, Applicable
<1>4. CASE FetchVersion(t)
  BY <1>4, <1>0, StayingReboot, <1>s DEF FetchVersion, CycleInv
<1>5. CASE BeginStaging(t)
  BY <1>5, <1>0, StayingReboot, <1>s DEF BeginStaging, InCycle, CycleInv
<1>6. CASE PurgeManifest(t)
  <2>1. CycleInv(t)'
    BY <1>6, <1>0 DEF PurgeManifest, InCycle, CycleInv
  <2>2. QED
    BY <1>6, <2>1, StayingReboot, <1>s DEF PurgeManifest
<1>7. CASE Purged(t)
  <2>1. CycleInv(t)'
    BY <1>7, <1>0 DEF Purged, InCycle, CycleInv
  <2>2. QED
    BY <1>7, <2>1, StayingReboot, <1>s DEF Purged, WriteState
<1>8. CASE \E r \in Root : PurgeTree(t, r) \/ Download(t, r)
  <2> PICK r \in Root : PurgeTree(t, r) \/ Download(t, r)
    BY <1>8
  <2>1. CASE PurgeTree(t, r)
    BY <2>1, <1>0, StayingReboot, <1>s DEF PurgeTree, CycleInv
  <2>2. CASE Download(t, r)
    BY <2>2, <1>0, StayingReboot, <1>s DEF Download, InCycle, CycleInv
  <2>3. QED
    BY <2>1, <2>2
<1>9. CASE RetryDownload(t)
  BY <1>9, <1>0, StayingReboot, <1>s DEF RetryDownload, InCycle, CycleInv
<1>10. CASE Downloaded(t)
  BY <1>10, <1>0, StayingReboot, <1>s DEF Downloaded, InCycle, CycleInv, WriteState
<1>11. CASE CopyLive(t)
  BY <1>11, <1>0, StayingReboot, <1>s DEF CopyLive, InCycle, CycleInv
<1>12. CASE Overlay(t)
  BY <1>12, <1>0, StayingReboot, <1>s DEF Overlay, InCycle, CycleInv
<1>13. CASE RecordManifest(t)
  BY <1>13, <1>0, StayingReboot, <1>s DEF RecordManifest, InCycle, CycleInv
<1>14. CASE WritePendingUpdate(t)
  BY <1>14, <1>0, StayingReboot, <1>s DEF WritePendingUpdate, InCycle, CycleInv
<1>15. CASE FillManifest(t)
  BY <1>15, <1>0, StayingReboot, <1>s DEF FillManifest, InCycle, CycleInv
<1>16. QED
  BY <1>1, <1>2, <1>3, <1>4, <1>5, <1>6, <1>7, <1>8, <1>9, <1>10, <1>11, <1>12,
     <1>13, <1>14, <1>15 DEF CycleStep

LEMMA RebootInit == Init => RebootInv
BY NoCycleFacts DEF Init, RebootInv, RebootWillApply, CycleInv

LEMMA RebootStep ==
    ASSUME RebootHyp, [Next]_vars
    PROVE  RebootInv'
<1>1. CASE UNCHANGED vars
  BY <1>1 DEF vars, RebootHyp, RebootInv, RebootWillApply, Applicable, CycleInv
<1>2. CASE BeginScheduled
  BY <1>2, EnterReboot, ConstantFacts DEF BeginScheduled, Enter
<1>3. ASSUME NEW t \in Task, BeginTriggered(t)
      PROVE  RebootInv'
  BY <1>3, EnterReboot DEF BeginTriggered, Enter
<1>4. QED
  BY <1>1, <1>2, <1>3, BootReboot, EnvironmentReboot, CycleReboot DEF Next

\* The reboot_pending that state.json shows is never an empty promise, wherever
\* the process is killed and whatever fails: a release is recorded for the next
\* startup and passes the checks startup makes.
THEOREM RebootPromise == Spec => []RebootWillApply
<1>1. TypeInv /\ OneCycleAtATime /\ RebootInv /\ [Next]_vars => RebootInv'
  BY RebootStep DEF RebootHyp
<1>2. RebootInv => RebootWillApply
  BY DEF RebootInv
<1>3. QED
  BY <1>1, <1>2, RebootInit, TypeInvariant, OneCycle, PTL DEF Spec

(***************************************************************************)
(* Termination.  BootLeft and CycleLeft are upper bounds on the steps that *)
(* are left: every step of the activity lowers its bound, and no step of   *)
(* anybody else raises it.                                                 *)
(***************************************************************************)

\* The bound, phase by phase.
BootTable ==
    /\ proc \in {"down", "run"} => BootLeft = 0
    /\ proc = "boot" => BootLeft = 5 * NumRoots + 5
    /\ proc = "deps" => BootLeft = 5 * NumRoots + 4
    /\ proc = "swap" =>
         /\ at.step = "discard" => BootLeft = 5 * NumRoots + 3 - 3 * at.root + 3
         /\ at.step = "out" => BootLeft = 5 * NumRoots + 3 - 3 * at.root + 2
         /\ at.step = "in" => BootLeft = 5 * NumRoots + 3 - 3 * at.root + 1
    /\ proc = "rollback" =>
         BootLeft = 2 * at.root + (IF at.step = "discard" THEN 2 ELSE 1)
    /\ proc = "track" => BootLeft = 3
    /\ proc = "clear" => BootLeft = 2
    /\ proc = "report" => BootLeft = 1

LEMMA BootLeftTable == BootTable /\ BootTable'
<1>1. BootTable
  BY DEF BootTable, BootLeft
<1>2. BootTable'
  BY DEF BootTable, BootLeft
<1>3. QED
  BY <1>1, <1>2

LEMMA BootLeftType == TypeInv => BootLeft \in Nat
<1> SUFFICES ASSUME TypeInv
             PROVE  BootLeft \in Nat
  OBVIOUS
<1>1. /\ NumRoots \in Nat /\ at.root \in 0 .. NumRoots
      /\ at.step \in {"discard", "out", "in"}
      /\ proc \in BootPhases \cup {"down", "run"}
  BY ConstantFacts DEF TypeInv, TypeOK
<1>2. QED
  BY <1>1, BootLeftTable DEF BootTable, BootPhases

\* A step that leaves the boot path ends it, whatever the outcome.
LEMMA BootGoesOn ==
    ASSUME TypeInv, BootStep
    PROVE  BootLeft' \in 0 .. (BootLeft - 1)
<1> USE BootLeftTable DEF BootTable
<1>0. /\ NumRoots \in Nat /\ at.root \in 0 .. NumRoots
      /\ at.step \in {"discard", "out", "in"}
      /\ at = [root |-> at.root, step |-> at.step]
      /\ proc = "swap" => at.root >= 1
      /\ proc \notin {"swap", "rollback"} => at.root = 1 /\ at.step = "discard"
  BY ConstantFacts DEF TypeInv, TypeOK, Root
<1>1. CASE NothingPending \/ DropUnusable \/ BeginApply
  <2>1. proc = "boot" /\ proc' \in {"run", "deps"}
    BY <1>1 DEF NothingPending, DropUnusable, BeginApply
  <2>2. QED
    BY <1>0, <2>1
<1>2. CASE SyncDependencies \/ SyncFails
  <2>1. proc = "deps" /\ proc' \in {"run", "swap"} /\ at' = at
    BY <1>2 DEF SyncDependencies, SyncFails
  <2>2. QED
    BY <1>0, <2>1
<1>3. CASE DiscardBackup
  BY <1>0, <1>3 DEF DiscardBackup, AtSwap
<1>4. CASE MoveOut
  BY <1>0, <1>4 DEF MoveOut, AtSwap
<1>5. CASE MoveIn
  BY <1>0, <1>5 DEF MoveIn, AtSwap
<1>6. CASE SwapFault
  BY <1>0, <1>6 DEF SwapFault
<1>b. CASE BootError
  <2>1. proc \in BootPhases /\ proc # "swap" /\ proc' = "run"
    BY <1>b DEF BootError
  <2>2. QED
    BY <1>0, <2>1 DEF BootPhases
<1>7. CASE RollbackDiscard
  BY <1>0, <1>7 DEF RollbackDiscard
<1>8. CASE RollbackRestore
  BY <1>0, <1>8 DEF RollbackRestore, RolledBack
<1>9. CASE SwapFails
  BY <1>0, <1>9 DEF SwapFails, RolledBack
<1>10. CASE WriteTrackingFiles \/ TrackingFails
  BY <1>0, <1>10 DEF WriteTrackingFiles, TrackingFails
<1>11. CASE ClearPendingUpdate \/ ReportApplied
  <2>1. \/ proc = "clear" /\ proc' = "report"
        \/ proc = "report" /\ proc' = "run"
    BY <1>11 DEF ClearPendingUpdate, ReportApplied
  <2>2. QED
    BY <1>0, <2>1
<1>12. QED
  BY <1>1, <1>2, <1>3, <1>4, <1>5, <1>6, <1>7, <1>8, <1>9, <1>10, <1>11, <1>b
  DEF BootStep

\* Nobody else moves the process along the boot path or back on it.
LEMMA BootNotProlonged ==
    ASSUME TypeInv, [Next]_vars, proc # "down"
    PROVE  BootLeft' \in 0 .. BootLeft
<1>0. BootLeft \in Nat
  BY BootLeftType
<1>1. ASSUME UNCHANGED <<proc, at>>
      PROVE  BootLeft' \in 0 .. BootLeft
  <2>1. BootLeft' = BootLeft
    BY <1>1 DEF BootLeft
  <2>2. QED
    BY <1>0, <2>1
<1>2. ASSUME proc' \in {"down", "run"}
      PROVE  BootLeft' \in 0 .. BootLeft
  BY <1>0, <1>2, BootLeftTable DEF BootTable
<1>3. CASE (\E r \in Release : Publish(r)) \/ EditPrefs \/ SaveRegistry \/ SkipScheduled
           \/ UNCHANGED vars
  BY <1>1, <1>3 DEF Publish, EditPrefs, SaveRegistry, SkipScheduled, vars
<1>4. CASE Crash
  BY <1>2, <1>4 DEF Crash, Kill
<1>5. CASE Start
  BY <1>5 DEF Start
<1>6. CASE BootStep
  BY <1>0, <1>6, BootGoesOn
<1>7. CASE BeginScheduled \/ \E t \in Task : BeginTriggered(t)
  BY <1>1, <1>7 DEF BeginScheduled, BeginTriggered, Enter
<1>8. CASE \E t \in Task : CycleStep(t)
  BY <1>2, <1>8, CycleStepShape
<1>9. QED
  BY <1>3, <1>4, <1>5, <1>6, <1>7, <1>8 DEF Next

LEMMA FileStepsFacts ==
    /\ \A n \in Nat : FileSteps(n) \in Nat
    /\ \A n \in Nat : FileSteps(n + 1) = FileSteps(n) + Attempts + 1
    /\ \A m, n \in Nat : m <= n => FileSteps(m) <= FileSteps(n)
<1> DEFINE k == Attempts + 1
<1>0. k \in Nat
  BY ConstantFacts
<1>1. \A n \in Nat : FileSteps(n) = n * k
  BY DEF FileSteps
<1>k. k = Attempts + 1
  OBVIOUS
<1> HIDE DEF k
<1>2. \A n \in Nat : n * k \in Nat /\ (n + 1) * k = n * k + k
  BY <1>0
<1>3. ASSUME NEW m \in Nat, NEW n \in Nat, m <= n
      PROVE  m * k <= n * k
  <2>1. n - m \in Nat /\ n = m + (n - m)
    BY <1>3
  <2>2. (m + (n - m)) * k = m * k + (n - m) * k
    BY <1>0, <2>1
  <2>3. m * k \in Nat /\ (n - m) * k \in Nat
    BY <1>2, <2>1
  <2>4. QED
    BY <2>1, <2>2, <2>3
<1>4. \A n \in Nat : FileSteps(n) \in Nat /\ FileSteps(n + 1) = FileSteps(n) + k
  BY <1>1, <1>2
<1>5. \A n \in Nat : FileSteps(n + 1) = FileSteps(n) + Attempts + 1
  BY <1>k, <1>4, ConstantFacts
<1>6. \A m, n \in Nat : m <= n => FileSteps(m) <= FileSteps(n)
  BY <1>1, <1>3
<1>7. QED
  BY <1>4, <1>5, <1>6

\* There are NumRoots roots, and no set of them has more.
LEMMA RootSets ==
    \A S \in SUBSET Root :
        /\ IsFiniteSet(S)
        /\ Cardinality(S) \in 0 .. NumRoots
        /\ \A r \in S : Cardinality(S) = Cardinality(S \ {r}) + 1
<1>1. IsFiniteSet(Root) /\ Cardinality(Root) = NumRoots
  <2>1. 1 \in Int /\ NumRoots \in Int /\ NumRoots >= 1
    BY ConstantFacts DEF Root
  <2>2. /\ IsFiniteSet(1 .. NumRoots)
        /\ Cardinality(1 .. NumRoots) =
             IF 1 > NumRoots THEN 0 ELSE NumRoots - 1 + 1
    BY <2>1, FS_Interval, Zenon
  <2>3. QED
    BY <2>1, <2>2 DEF Root
<1>2. ASSUME NEW S \in SUBSET Root
      PROVE  IsFiniteSet(S) /\ Cardinality(S) \in 0 .. NumRoots
  <2>1. IsFiniteSet(S) /\ Cardinality(S) <= NumRoots
    BY <1>1, FS_Subset
  <2>2. Cardinality(S) \in Nat
    BY <2>1, FS_CardinalityType
  <2>3. QED
    BY <2>1, <2>2, ConstantFacts
<1>3. ASSUME NEW S \in SUBSET Root, NEW r \in S
      PROVE  Cardinality(S) = Cardinality(S \ {r}) + 1
  BY <1>2, <1>3, FS_RemoveElement, FS_CardinalityType
<1>4. QED
  BY <1>2, <1>3

\* The files of some roots cost no more than those of all.
LEMMA FilesOfRoots ==
    \A S \in SUBSET Root : FileSteps(Cardinality(S)) \in 0 .. FileSteps(NumRoots)
<1> SUFFICES ASSUME NEW S \in SUBSET Root
             PROVE  FileSteps(Cardinality(S)) \in 0 .. FileSteps(NumRoots)
  OBVIOUS
<1>1. Cardinality(S) \in Nat /\ Cardinality(S) <= NumRoots /\ NumRoots \in Nat
  BY RootSets, ConstantFacts
<1> DEFINE n == Cardinality(S)
<1> HIDE DEF n
<1>2. /\ FileSteps(n) \in Nat /\ FileSteps(NumRoots) \in Nat
      /\ FileSteps(n) <= FileSteps(NumRoots)
  BY <1>1, FileStepsFacts DEF n
<1>3. QED
  BY <1>2 DEF n

\* A set of roots that lost some, and one that lost r.
LEMMA FewerRoots ==
    ASSUME NEW S \in SUBSET Root, NEW T \in SUBSET S
    PROVE  /\ Cardinality(T) <= Cardinality(S)
           /\ \A r \in S : r \notin T => Cardinality(T) <= Cardinality(S) - 1
<1>1. Cardinality(T) <= Cardinality(S)
  BY RootSets, FS_Subset
<1>2. ASSUME NEW r \in S, r \notin T
      PROVE  Cardinality(T) <= Cardinality(S) - 1
  <2>1. T \subseteq S \ {r} /\ IsFiniteSet(S \ {r})
    BY <1>2, RootSets
  <2>2. Cardinality(T) <= Cardinality(S \ {r})
    BY <2>1, FS_Subset
  <2>3. /\ Cardinality(S) = Cardinality(S \ {r}) + 1
        /\ Cardinality(S) \in Nat /\ Cardinality(S \ {r}) \in Nat /\ Cardinality(T) \in Nat
    BY RootSets, ConstantFacts
  <2>4. QED
    BY <2>2, <2>3
<1>3. QED
  BY <1>1, <1>2

LEMMA EntriesBound == \A v : Entries(v) \in 0 .. 3 * NumRoots /\ Entries(v)' \in 0 .. 3 * NumRoots
<1>1. \A S \in SUBSET Root : Cardinality(S) \in 0 .. NumRoots
  BY RootSets
<1>2. \A a, b, c \in 0 .. NumRoots : a + b + c \in 0 .. 3 * NumRoots
  BY ConstantFacts
<1>3. ASSUME NEW v
      PROVE  Entries(v) \in 0 .. 3 * NumRoots /\ Entries(v)' \in 0 .. 3 * NumRoots
  <2>1. Entries(v) \in 0 .. 3 * NumRoots
    <3>1. /\ {r \in Root : shadow[v][r].dir} \in SUBSET Root
          /\ {r \in Root : shadow[v][r].code # None} \in SUBSET Root
          /\ {r \in Root : shadow[v][r].prefs # 0} \in SUBSET Root
      OBVIOUS
    <3>2. QED
      BY <1>1, <1>2, <3>1 DEF Entries
  <2>2. Entries(v)' \in 0 .. 3 * NumRoots
    <3>1. /\ {r \in Root : shadow'[v][r].dir} \in SUBSET Root
          /\ {r \in Root : shadow'[v][r].code # None} \in SUBSET Root
          /\ {r \in Root : shadow'[v][r].prefs # 0} \in SUBSET Root
      OBVIOUS
    <3>2. QED
      BY <1>1, <1>2, <3>1 DEF Entries
  <2>3. QED
    BY <2>1, <2>2
<1>4. QED
  BY <1>3

\* Each call of rmtree leaves less of the staged release.
LEMMA PurgeTreeDeletes ==
    ASSUME TypeInv, NEW t \in Task, NEW r \in Root, PurgeTree(t, r),
           NEW v \in Release, v = cyc[t].ver
    PROVE  Entries(v)' <= Entries(v) - 1
<1> DEFINE dirs == {q \in Root : shadow[v][q].dir}
           code == {q \in Root : shadow[v][q].code # None}
           prefs == {q \in Root : shadow[v][q].prefs # 0}
           dirs2 == {q \in Root : shadow'[v][q].dir}
           code2 == {q \in Root : shadow'[v][q].code # None}
           prefs2 == {q \in Root : shadow'[v][q].prefs # 0}
           tree == shadow[v][r]
<1>1. tree \in Tree /\ tree.dir
  BY DEF TypeInv, TypeOK, PurgeTree
<1>2. PICK rest \in LessOf(tree) : shadow' = [shadow EXCEPT ![v][r] = rest]
  BY DEF PurgeTree
<1>3. /\ shadow'[v][r] = rest
      /\ \A q \in Root : q # r => shadow'[v][q] = shadow[v][q]
  BY <1>2 DEF TypeInv, TypeOK
<1>4. /\ rest.dir => tree.dir
      /\ rest.code # None => tree.code # None
      /\ rest.prefs # 0 => tree.prefs # 0
      /\ \/ ~rest.dir
         \/ tree.code # None /\ rest.code = None
         \/ tree.prefs # 0 /\ rest.prefs = 0
  <2>1. CASE rest = NoTree
    BY <2>1 DEF NoTree, None
  <2>2. CASE rest = [tree EXCEPT !.code = None] /\ rest # tree
    BY <1>1, <2>2 DEF Tree, None
  <2>3. CASE rest = [tree EXCEPT !.prefs = 0] /\ rest # tree
    BY <1>1, <2>3 DEF Tree, None
  <2>4. QED
    BY <2>1, <2>2, <2>3 DEF LessOf
<1>5. /\ dirs2 \in SUBSET dirs /\ code2 \in SUBSET code /\ prefs2 \in SUBSET prefs
      /\ dirs \in SUBSET Root /\ code \in SUBSET Root /\ prefs \in SUBSET Root
  BY <1>3, <1>4
<1>6. \/ r \in dirs /\ r \notin dirs2
      \/ r \in code /\ r \notin code2
      \/ r \in prefs /\ r \notin prefs2
  BY <1>1, <1>3, <1>4
<1>e. /\ Entries(v) = Cardinality(dirs) + Cardinality(code) + Cardinality(prefs)
      /\ Entries(v)' = Cardinality(dirs2) + Cardinality(code2) + Cardinality(prefs2)
  BY DEF Entries
<1> HIDE DEF dirs, code, prefs, dirs2, code2, prefs2
<1>7. /\ Cardinality(dirs) \in Nat /\ Cardinality(code) \in Nat /\ Cardinality(prefs) \in Nat
      /\ Cardinality(dirs2) \in Nat /\ Cardinality(code2) \in Nat /\ Cardinality(prefs2) \in Nat
  <2>1. \A S \in SUBSET Root : Cardinality(S) \in Nat
    BY RootSets, ConstantFacts
  <2>2. dirs2 \in SUBSET Root /\ code2 \in SUBSET Root /\ prefs2 \in SUBSET Root
    BY <1>5
  <2>3. QED
    BY <1>5, <2>1, <2>2
<1>8. /\ Cardinality(dirs2) <= Cardinality(dirs)
      /\ Cardinality(code2) <= Cardinality(code)
      /\ Cardinality(prefs2) <= Cardinality(prefs)
  BY <1>5, FewerRoots
<1>9. \/ Cardinality(dirs2) <= Cardinality(dirs) - 1
      \/ Cardinality(code2) <= Cardinality(code) - 1
      \/ Cardinality(prefs2) <= Cardinality(prefs) - 1
  BY <1>5, <1>6, FewerRoots
<1>10. QED
  BY <1>7, <1>8, <1>9, <1>e

\* The bound, stage by stage.
CycleTable(t) ==
    LET c == cyc[t]
        all == FileSteps(NumRoots) + Attempts
    IN  /\ c.stage = "idle" => CycleLeft(t) = 0
        /\ c.stage = "version" => CycleLeft(t) = all + 3 * NumRoots + 11
        /\ c.stage = "manifest" => CycleLeft(t) = all + 3 * NumRoots + 10
        /\ c.stage = "purge" =>
             CycleLeft(t) = all + 8 + (IF manifest[c.ver] # None THEN 1 ELSE 0)
                              + Entries(c.ver)
        /\ c.stage = "download" =>
             CycleLeft(t) = 7 + FileSteps(Cardinality(c.todo)) + (Attempts - c.tries)
        /\ c.stage = "copy" => CycleLeft(t) = 6
        /\ c.stage = "overlay" => CycleLeft(t) = 5
        /\ c.stage = "record" => CycleLeft(t) = 4
        /\ c.stage = "fill" => CycleLeft(t) = 3
        /\ c.stage = "marker" => CycleLeft(t) = 2
        /\ c.stage = "finish" => CycleLeft(t) = 1

LEMMA CycleLeftTable == \A t \in Task : CycleTable(t) /\ CycleTable(t)'
<1> SUFFICES ASSUME NEW t \in Task
             PROVE  CycleTable(t) /\ CycleTable(t)'
  OBVIOUS
<1>1. CycleTable(t)
  BY DEF CycleTable, CycleLeft
<1>2. CycleTable(t)'
  BY DEF CycleTable, CycleLeft
<1>3. QED
  BY <1>1, <1>2

\* What the table's numbers are.
LEMMA CycleNumbers ==
    ASSUME TypeInv, NEW t \in Task
    PROVE  /\ cyc[t] \in CycleRecord /\ cyc[t].stage \in Stages
           /\ cyc[t].todo \in SUBSET Root /\ cyc[t].tries \in 0 .. Attempts
           /\ Entries(cyc[t].ver) \in 0 .. 3 * NumRoots
           /\ FileSteps(Cardinality(cyc[t].todo)) \in 0 .. FileSteps(NumRoots)
           /\ FileSteps(NumRoots) \in Nat /\ Attempts \in Nat /\ NumRoots \in Nat
<1>1. /\ cyc[t] \in CycleRecord /\ cyc[t].stage \in Stages
      /\ cyc[t].todo \in SUBSET Root /\ cyc[t].tries \in 0 .. Attempts
  BY DEF TypeInv, TypeOK, CycleRecord
<1>2. Entries(cyc[t].ver) \in 0 .. 3 * NumRoots
  BY EntriesBound
<1>3. FileSteps(Cardinality(cyc[t].todo)) \in 0 .. FileSteps(NumRoots)
  BY <1>1, FilesOfRoots
<1>4. QED
  BY <1>1, <1>2, <1>3, FileStepsFacts, ConstantFacts

LEMMA CycleLeftType ==
    ASSUME TypeInv, NEW t \in Task
    PROVE  /\ CycleLeft(t) \in Nat
           /\ cyc[t].stage # "idle" => CycleLeft(t) >= 1
BY CycleNumbers, CycleLeftTable DEF CycleTable, Stages

\* Every step of a cycle lowers its bound: a step that stays in the stage uses up
\* an attempt, a file or an entry to delete, and the others go one stage on.
LEMMA CycleGoesOn ==
    ASSUME TypeInv, TypeInv', NEW t \in Task, CycleInv(t), CycleStep(t)
    PROVE  CycleLeft(t)' \in 0 .. (CycleLeft(t) - 1)
<1> USE DEF tasks, staging
<1>0. cyc \in [Task -> CycleRecord] /\ cyc[t] \in CycleRecord /\ remote \in Release
  BY DEF TypeInv, TypeOK
<1>s. cyc[t].stage # "idle"
  BY CycleStepShape
<1>a. /\ CycleLeft(t) \in Nat /\ CycleLeft(t) >= 1
      /\ Attempts \in Nat /\ NumRoots \in Nat /\ FileSteps(NumRoots) \in Nat
      /\ cyc[t].todo \in SUBSET Root
      /\ cyc[t].tries \in 0 .. Attempts
      /\ Entries(cyc[t].ver) \in 0 .. 3 * NumRoots
      /\ FileSteps(Cardinality(cyc[t].todo)) \in 0 .. FileSteps(NumRoots)
  BY <1>s, CycleLeftType, CycleNumbers
<1>b. /\ cyc'[t].todo \in SUBSET Root
      /\ cyc'[t].tries \in 0 .. Attempts
      /\ Entries(cyc[t].ver)' \in 0 .. 3 * NumRoots
      /\ FileSteps(Cardinality(cyc'[t].todo)) \in 0 .. FileSteps(NumRoots)
  <2>1. Entries(cyc[t].ver)' \in 0 .. 3 * NumRoots
    BY EntriesBound
  <2>2. cyc'[t].todo \in SUBSET Root /\ cyc'[t].tries \in 0 .. Attempts
    BY DEF TypeInv, TypeOK, CycleRecord
  <2>3. FileSteps(Cardinality(cyc'[t].todo)) \in 0 .. FileSteps(NumRoots)
    BY <2>2, FilesOfRoots
  <2>4. QED
    BY <2>1, <2>2, <2>3
<1>t. CycleTable(t) /\ CycleTable(t)'
  BY CycleLeftTable
<1>c. CycleLeft(t)' \in Nat
  <2>1. cyc'[t].stage \in Stages
    BY DEF TypeInv, TypeOK, CycleRecord
  <2>2. QED
    BY <1>a, <1>b, <1>t, <2>1 DEF CycleTable, Stages
<1>l. ASSUME CycleLeft(t)' < CycleLeft(t)
      PROVE  CycleLeft(t)' \in 0 .. (CycleLeft(t) - 1)
  BY <1>l, <1>a, <1>c
<1>e. ASSUME cyc'[t] = NoCycle
      PROVE  CycleLeft(t)' \in 0 .. (CycleLeft(t) - 1)
  BY <1>a, <1>e, <1>t, NoCycleFacts DEF CycleTable
<1>1. CASE NetworkError(t) \/ DiskError(t) \/ GiveUpDownload(t)
  BY <1>0, <1>1, <1>e DEF NetworkError, DiskError, GiveUpDownload, Raise, Fail, Leave
<1>2. CASE ManifestWithoutFiles(t) \/ SkipDrift(t) \/ NoChange(t) \/ ReportStaged(t)
  BY <1>0, <1>2, <1>e
  DEF ManifestWithoutFiles, SkipDrift, NoChange, ReportStaged, Return, Leave
<1>3. CASE FetchVersion(t)
  <2>1. cyc[t].stage = "version" /\ cyc'[t].stage = "manifest"
    BY <1>0, <1>3 DEF FetchVersion, InCycle, CycleRecord
  <2>2. QED
    BY <1>a, <1>l, <1>t, <2>1 DEF CycleTable
<1>4. CASE BeginStaging(t)
  <2>1. /\ cyc[t].stage = "manifest" /\ cyc'[t].stage = "purge"
        /\ cyc'[t].ver = cyc[t].ver
    BY <1>0, <1>4 DEF BeginStaging, InCycle, CycleRecord
  <2>2. CycleLeft(t)' <= FileSteps(NumRoots) + Attempts + 9 + 3 * NumRoots
    BY <1>a, <1>b, <1>t, <2>1 DEF CycleTable
  <2>3. QED
    BY <1>a, <1>b, <1>l, <1>t, <2>1, <2>2 DEF CycleTable
<1>5. CASE PurgeManifest(t)
  <2>1. /\ cyc[t].stage = "purge" /\ cyc' = cyc /\ shadow' = shadow
        /\ manifest[cyc[t].ver] # None /\ manifest'[cyc[t].ver] = None
    BY <1>5 DEF PurgeManifest, InCycle, CycleInv, TypeInv, TypeOK
  <2>2. Entries(cyc[t].ver)' = Entries(cyc[t].ver)
    BY <2>1 DEF Entries
  <2>3. QED
    BY <1>a, <1>l, <1>t, <2>1, <2>2 DEF CycleTable
<1>6. CASE \E r \in Root : PurgeTree(t, r)
  <2> PICK r \in Root : PurgeTree(t, r)
    BY <1>6
  <2>1. /\ cyc[t].stage = "purge" /\ cyc' = cyc /\ manifest' = manifest
        /\ cyc[t].ver \in Release
    BY DEF PurgeTree, InCycle, CycleInv
  <2>2. Entries(cyc[t].ver)' <= Entries(cyc[t].ver) - 1
    BY <2>1, PurgeTreeDeletes
  <2>3. QED
    BY <1>a, <1>b, <1>l, <1>t, <2>1, <2>2 DEF CycleTable
<1>7. CASE Purged(t)
  <2>1. cyc[t].stage = "purge" /\ cyc'[t].stage = "download"
    BY <1>0, <1>7 DEF Purged, InCycle, CycleRecord
  <2>2. QED
    BY <1>a, <1>b, <1>l, <1>t, <2>1 DEF CycleTable
<1>8. CASE \E r \in Root : Download(t, r)
  <2> PICK r \in Root : Download(t, r)
    BY <1>8
  <2>1. /\ cyc[t].stage = "download" /\ cyc'[t].stage = "download"
        /\ r \in cyc[t].todo /\ cyc'[t].todo = cyc[t].todo \ {r} /\ cyc'[t].tries = 0
    BY <1>0 DEF Download, InCycle, IsNext, CycleRecord
  <2>2. /\ Cardinality(cyc[t].todo) = Cardinality(cyc'[t].todo) + 1
        /\ Cardinality(cyc'[t].todo) \in Nat
    BY <1>a, <1>b, <2>1, RootSets, ConstantFacts
  <2>3. FileSteps(Cardinality(cyc[t].todo))
          = FileSteps(Cardinality(cyc'[t].todo)) + Attempts + 1
    BY <2>2, FileStepsFacts
  <2>4. QED
    BY <1>a, <1>b, <1>l, <1>t, <2>1, <2>3 DEF CycleTable
<1>9. CASE RetryDownload(t)
  <2>1. /\ cyc[t].stage = "download" /\ cyc'[t].stage = "download"
        /\ cyc'[t].todo = cyc[t].todo /\ cyc'[t].tries = cyc[t].tries + 1
    BY <1>0, <1>9 DEF RetryDownload, InCycle, CycleRecord
  <2>2. QED
    BY <1>a, <1>b, <1>l, <1>t, <2>1 DEF CycleTable
<1>10. CASE Downloaded(t)
  <2>1. cyc[t].stage = "download" /\ cyc'[t].stage = "copy"
    BY <1>0, <1>10 DEF Downloaded, InCycle, CycleRecord
  <2>2. QED
    BY <1>a, <1>l, <1>t, <2>1 DEF CycleTable
<1>11. CASE CopyLive(t) \/ Overlay(t) \/ RecordManifest(t)
  <2>1. \/ cyc[t].stage = "copy" /\ cyc'[t].stage = "overlay"
        \/ cyc[t].stage = "overlay" /\ cyc'[t].stage = "record"
        \/ cyc[t].stage = "record" /\ cyc'[t].stage = "fill"
    BY <1>0, <1>11 DEF CopyLive, Overlay, RecordManifest, InCycle, CycleRecord
  <2>2. QED
    BY <1>l, <1>t, <2>1 DEF CycleTable
<1>12. CASE FillManifest(t) \/ WritePendingUpdate(t)
  <2>1. \/ cyc[t].stage = "fill" /\ cyc'[t].stage = "marker"
        \/ cyc[t].stage = "marker" /\ cyc'[t].stage = "finish"
    BY <1>0, <1>12 DEF FillManifest, WritePendingUpdate, InCycle, CycleRecord
  <2>2. QED
    BY <1>l, <1>t, <2>1 DEF CycleTable
<1>13. QED
  BY <1>1, <1>2, <1>3, <1>4, <1>5, <1>6, <1>7, <1>8, <1>9, <1>10, <1>11, <1>12
  DEF CycleStep

\* Nobody else touches the cycle's variables or what it still has to delete: the
\* lock keeps the other cycles out, and the boot path is over.
LEMMA CycleNotProlonged ==
    ASSUME TypeInv, TypeInv', OneCycleAtATime, [Next]_vars,
           NEW t \in Task, CycleInv(t), cyc[t].stage # "idle"
    PROVE  CycleLeft(t)' \in 0 .. CycleLeft(t)
<1>0. CycleLeft(t) \in Nat
  BY CycleLeftType
<1>a. lock = t /\ proc = "run" /\ t # NoTask
  BY ConstantFacts DEF OneCycleAtATime
<1>1. ASSUME UNCHANGED <<cyc, manifest, shadow>>
      PROVE  CycleLeft(t)' \in 0 .. CycleLeft(t)
  <2>1. CycleLeft(t)' = CycleLeft(t)
    BY <1>1 DEF CycleLeft
  <2>2. QED
    BY <1>0, <2>1
<1>2. CASE (\E r \in Release : Publish(r)) \/ EditPrefs \/ SaveRegistry \/ Start
           \/ SkipScheduled \/ UNCHANGED vars
  BY <1>1, <1>2 DEF Publish, EditPrefs, SaveRegistry, Start, SkipScheduled, vars,
     tasks, staging
<1>3. CASE Crash
  <2>1. cyc'[t].stage = "idle"
    BY <1>3, NoCycleFacts DEF Crash, Kill
  <2>2. QED
    BY <1>0, <2>1, CycleLeftTable DEF CycleTable
<1>4. CASE BootStep
  BY <1>a, <1>4
  DEF BootStep, NothingPending, DropUnusable, BeginApply, SyncDependencies, SyncFails,
     DiscardBackup, MoveOut, MoveIn, AtSwap, SwapFault, BootError, FileError, RollbackDiscard,
     RollbackRestore, SwapFails, WriteTrackingFiles, TrackingFails, ClearPendingUpdate,
     ReportApplied, BootPhases
<1>5. CASE BeginScheduled \/ \E u \in Task : BeginTriggered(u)
  BY <1>a, <1>5 DEF BeginScheduled, BeginTriggered, Enter, LockFree
<1>6. ASSUME NEW u \in Task, CycleStep(u)
      PROVE  CycleLeft(t)' \in 0 .. CycleLeft(t)
  <2>1. lock = u
    BY <1>6, CycleStepShape DEF OneCycleAtATime
  <2>2. CycleLeft(t)' \in 0 .. (CycleLeft(t) - 1)
    BY <1>a, <1>6, <2>1, CycleGoesOn
  <2>3. QED
    BY <1>0, <2>2
<1>7. QED
  BY <1>2, <1>3, <1>4, <1>5, <1>6 DEF Next

\* Nothing keeps the process or the lock for ever: at any time the boot path and a
\* cycle have a bounded number of steps left, which every step of theirs lowers
\* and nothing the host, a crash, a fault or another task does ever raises.
THEOREM ActivitiesEnd == Spec => EveryActivityEnds
<1> DEFINE A == /\ proc # "down" => BootLeft' \in 0 .. BootLeft
                /\ BootStep => BootLeft' \in 0 .. (BootLeft - 1)
                /\ \A t \in Task :
                     /\ cyc[t].stage # "idle" => CycleLeft(t)' \in 0 .. CycleLeft(t)
                     /\ CycleStep(t) => CycleLeft(t)' \in 0 .. (CycleLeft(t) - 1)
<1>1. ASSUME TypeInv, TypeInv', OneCycleAtATime, RebootInv, [Next]_vars
      PROVE  A
  <2>1. \A t \in Task : CycleInv(t)
    BY <1>1 DEF RebootInv
  <2>2. proc # "down" => BootLeft' \in 0 .. BootLeft
    BY <1>1, BootNotProlonged
  <2>3. BootStep => BootLeft' \in 0 .. (BootLeft - 1)
    BY <1>1, BootGoesOn
  <2>4. ASSUME NEW t \in Task
        PROVE  /\ cyc[t].stage # "idle" => CycleLeft(t)' \in 0 .. CycleLeft(t)
               /\ CycleStep(t) => CycleLeft(t)' \in 0 .. (CycleLeft(t) - 1)
    BY <1>1, <2>1, CycleNotProlonged, CycleGoesOn
  <2>5. QED
    BY <2>2, <2>3, <2>4
<1>2. TypeInv /\ TypeInv' /\ OneCycleAtATime /\ RebootInv /\ [Next]_vars => [A]_vars
  BY <1>1
<1>3. TypeInv /\ OneCycleAtATime /\ RebootInv /\ [Next]_vars => RebootInv'
  BY RebootStep DEF RebootHyp
<1>4. QED
  BY <1>2, <1>3, RebootInit, TypeInvariant, OneCycle, PTL DEF Spec, EveryActivityEnds

=============================================================================
