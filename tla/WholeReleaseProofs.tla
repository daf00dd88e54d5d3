-------------------------- MODULE WholeReleaseProofs --------------------------
(***************************************************************************)
(* What UpdateAgent promises of the install.  Startup never begins to apply *)
(* anything that is put together from two releases, whatever was killed or *)
(* raised.  As long as no kill and no file system error falls in a fragile *)
(* phase, the install is always one whole release and its local files come *)
(* through.  When calls of the swap raise, roots may be lost, but what is  *)
(* left is never of two releases.                                          *)
(***************************************************************************)
EXTENDS UpdateAgentProofs

\* No kill and no file system error where the next start could not tell pieces
\* from a whole.
Undisturbed == (CrashPhases \cup FaultPhases) \cap FragilePhases = {}

\* The shadow of version v is all there, from release m.
Holds(v, m) ==
    /\ \A r \in Root : shadow[v][r].dir /\ shadow[v][r].code = m
    /\ shadow[v][ConfigRoot].prefs # 0

\* The install is all there.
LiveWhole ==
    /\ \A r \in Root : live[r].dir /\ live[r].code = LocalVersion
    /\ LocalVersion \in Release
    /\ live[ConfigRoot].prefs # 0

\* Each root was downloaded, or is still to be, or is live already.
Fetched(c) ==
    \A r \in Root : \/ c.got[r] = c.man
                    \/ c.got[r] = None /\ (r \in c.todo \/ live[r].code = c.man)

\* What a cycle has on disk, by its stage.
StagingInv(t) ==
    LET c == cyc[t]
    IN  /\ c.stage \in {"version", "manifest"} => c.got = [r \in Root |-> None]
        /\ c.stage \in {"purge", "download"} => Fetched(c)
        /\ c.stage \in {"copy", "overlay"} => Fetched(c) /\ c.todo = {}
        /\ c.stage \in {"download", "copy", "overlay", "record"} =>
               manifest[c.ver] = None
        /\ c.stage = "overlay" =>
               /\ \A r \in Root : /\ shadow[c.ver][r].dir
                                  /\ shadow[c.ver][r].code = live[r].code
               /\ shadow[c.ver][ConfigRoot].prefs # 0
        /\ c.stage \in {"record", "fill", "marker", "finish"} => Holds(c.ver, c.man)

\* Only a cycle that fills a manifest leaves one half written.
TornInv ==
    \A v \in Release :
        manifest[v] = Torn => \E t \in Task : cyc[t].stage = "fill" /\ cyc[t].ver = v

Purging(v) == \E t \in Task : cyc[t].stage = "purge" /\ cyc[t].ver = v

\* What pending_update.json names is all there, unless it is being moved in or
\* deleted.
Recorded ==
    /\ pending # None
    /\ manifest[pending] \notin {None, Torn}
    /\ proc \notin {"swap", "track", "clear"}
    /\ ~Purging(pending)

StagedInv == Recorded => Holds(pending, manifest[pending])

\* The swap exchanges one whole tree for another, root by root.
SwapInv ==
    /\ proc \in {"deps", "swap", "track", "clear"} => manifest[pending] \in Release
    /\ proc = "swap" =>
          \A r \in Root :
              LET tree == IF r < at.root THEN live[r] ELSE shadow[pending][r]
              IN  /\ tree.dir /\ tree.code = manifest[pending]
                  /\ r = ConfigRoot => tree.prefs # 0
    /\ proc \in {"track", "clear"} => LocalVersion = manifest[pending]

WholeInv ==
    /\ proc # "rollback"
    /\ proc # "swap" => LiveWhole
    /\ proc \notin {"swap", "track"} => live[ConfigRoot].tracking = LocalVersion
    /\ SwapInv
    /\ StagedInv
    /\ TornInv
    /\ \A t \in Task : StagingInv(t)

WholeHyp ==
    Undisturbed /\ TypeInv /\ OneCycleAtATime /\ RebootInv /\ WholeInv

LEMMA WholeInit == Init => WholeInv
<1> SUFFICES ASSUME Init
             PROVE  WholeInv
  OBVIOUS
<1>1. \A r \in Root : /\ live[r].dir /\ live[r].code = 1
                      /\ r = ConfigRoot => live[r].prefs # 0 /\ live[r].tracking = 1
  BY DEF Init, Installed
<1>2. LiveWhole /\ live[ConfigRoot].tracking = LocalVersion
  BY <1>1, RootAssumption, ConstantFacts DEF LiveWhole, LocalVersion
<1>3. TornInv
  BY ConstantFacts DEF Init, TornInv
<1>4. \A t \in Task : StagingInv(t)
  BY NoCycleFacts DEF Init, StagingInv
<1>5. QED
  BY <1>2, <1>3, <1>4 DEF Init, WholeInv, SwapInv, StagedInv, Recorded

\* An edit of the local files changes nothing the invariant depends on.
LEMMA EditWhole ==
    ASSUME WholeHyp,
           \A r \in Root : /\ live'[r].dir = live[r].dir
                           /\ live'[r].code = live[r].code
                           /\ live'[r].tracking = live[r].tracking,
           live[ConfigRoot].prefs # 0 => live'[ConfigRoot].prefs # 0,
           UNCHANGED <<shadow, manifest, pending, proc, at, cyc>>
    PROVE  WholeInv'
<1> USE RootAssumption
<1>1. LocalVersion' = LocalVersion
  BY DEF LocalVersion
<1>2. LiveWhole => LiveWhole'
  BY <1>1 DEF LiveWhole
<1>3. SwapInv'
  BY <1>1 DEF WholeHyp, WholeInv, SwapInv
<1>4. StagedInv' /\ TornInv'
  BY DEF WholeHyp, WholeInv, StagedInv, Recorded, Purging, Holds, TornInv
<1>5. \A t \in Task : StagingInv(t)'
  BY DEF WholeHyp, WholeInv, StagingInv, Fetched, Holds
<1>6. QED
  BY <1>1, <1>2, <1>3, <1>4, <1>5 DEF WholeHyp, WholeInv

LEMMA KillWhole ==
    ASSUME WholeHyp, Kill, Phase \notin FragilePhases
    PROVE  WholeInv'
<1>1. proc \notin {"swap", "track", "clear"}
  BY DEF Phase, FragilePhases
<1>2. \A t \in Task : cyc[t].stage \notin {"purge", "fill"}
  BY ConstantFacts DEF WholeHyp, OneCycleAtATime, Phase, FragilePhases
<1>3. /\ UNCHANGED <<live, shadow, manifest, pending>>
      /\ proc' = "down"
      /\ \A t \in Task : cyc'[t] = NoCycle
  BY DEF Kill, install, staging, records
<1>4. \A t \in Task : StagingInv(t)'
  BY <1>3, NoCycleFacts DEF StagingInv
<1>5. TornInv'
  BY <1>2, <1>3 DEF WholeHyp, WholeInv, TornInv
<1>6. StagedInv'
  BY <1>1, <1>2, <1>3 DEF WholeHyp, WholeInv, StagedInv, Recorded, Purging, Holds
<1>7. SwapInv'
  BY <1>3 DEF SwapInv
<1>8. LiveWhole' /\ live'[ConfigRoot].tracking = LocalVersion'
  BY <1>1, <1>3 DEF WholeHyp, WholeInv, LiveWhole, LocalVersion
<1>9. QED
  BY <1>3, <1>4, <1>5, <1>6, <1>7, <1>8 DEF WholeInv

LEMMA EnvironmentWhole ==
    ASSUME WholeHyp,
           \/ \E r \in Release : Publish(r)
           \/ EditPrefs \/ SaveRegistry \/ Crash \/ Start
           \/ BeginScheduled \/ SkipScheduled
           \/ \E t \in Task : BeginTriggered(t)
    PROVE  WholeInv'
<1> USE DEF install, staging, records, tasks
<1>1. CASE \E r \in Release : Publish(r)
  BY <1>1, EditWhole DEF Publish
<1>t. live \in [Root -> Tree] /\ live[ConfigRoot].prefs \in Nat
  BY RootAssumption DEF WholeHyp, TypeInv, TypeOK, Tree
<1>2. CASE EditPrefs
  <2>1. \A r \in Root : /\ live'[r].dir = live[r].dir /\ live'[r].code = live[r].code
                        /\ live'[r].tracking = live[r].tracking
    BY <1>2, <1>t DEF EditPrefs, Tree
  <2>2. live'[ConfigRoot].prefs = live[ConfigRoot].prefs + 1
    BY <1>2, <1>t, RootAssumption DEF EditPrefs, Tree
  <2>3. QED
    BY <1>2, <1>t, <2>1, <2>2, EditWhole DEF EditPrefs
<1>3. CASE SaveRegistry
  <2>1. \A r \in Root : /\ live'[r].dir = live[r].dir /\ live'[r].code = live[r].code
                        /\ live'[r].tracking = live[r].tracking
                        /\ live'[r].prefs = live[r].prefs
    BY <1>3, <1>t DEF SaveRegistry, Tree
  <2>2. QED
    BY <1>3, <2>1, RootAssumption, EditWhole DEF SaveRegistry
<1>4. CASE Crash
  BY <1>4, KillWhole DEF Crash, WholeHyp, Undisturbed
<1>5. CASE Start \/ SkipScheduled
  BY <1>5 DEF Start, SkipScheduled, WholeHyp, WholeInv, LiveWhole, LocalVersion, SwapInv,
     StagedInv, Recorded, Purging, Holds, TornInv, StagingInv, Fetched
<1>6. ASSUME NEW t \in Task, proc = "run", proc' = "run", Enter(t)
      PROVE  WholeInv'
  <2>1. UNCHANGED <<live, shadow, manifest, pending>>
    BY <1>6 DEF Enter
  <2>2. cyc[t].stage = "idle" /\ cyc'[t].stage = "version" /\ cyc'[t].got = NoCycle.got
    BY <1>6, ConstantFacts
    DEF Enter, LockFree, WholeHyp, OneCycleAtATime, TypeInv, TypeOK, NoCycle
  <2>3. \A u \in Task \ {t} : cyc'[u] = cyc[u]
    BY <1>6, OthersKeepTheirCycle DEF WholeHyp
  <2>4. \A u \in Task : StagingInv(u)'
    BY <2>1, <2>2, <2>3
    DEF WholeHyp, WholeInv, StagingInv, Fetched, Holds, NoCycle
  <2>5. TornInv'
    BY <2>1, <2>2, <2>3 DEF WholeHyp, WholeInv, TornInv
  <2>6. StagedInv'
    BY <1>6, <2>1, <2>2, <2>3
    DEF WholeHyp, WholeInv, StagedInv, Recorded, Purging, Holds
  <2>7. QED
    BY <1>6, <2>1, <2>4, <2>5, <2>6 DEF WholeHyp, WholeInv, SwapInv, LiveWhole, LocalVersion
<1>7. CASE BeginScheduled
  BY <1>7, <1>6, ConstantFacts DEF BeginScheduled, Enter
<1>8. CASE \E t \in Task : BeginTriggered(t)
  BY <1>8, <1>6 DEF BeginTriggered, Enter
<1>9. QED
  BY <1>1, <1>2, <1>3, <1>4, <1>5, <1>7, <1>8

LEMMA BootIdle ==
    ASSUME WholeHyp, BootStep
    PROVE  /\ \A t \in Task : cyc[t].stage = "idle"
           /\ cyc' = cyc /\ manifest' = manifest
           /\ \A v \in Release : manifest[v] # Torn
<1>1. proc # "run" /\ cyc' = cyc /\ manifest' = manifest
  BY DEF BootStep, NothingPending, DropUnusable, BeginApply,
     SyncDependencies, SyncFails, DiscardBackup, MoveOut, MoveIn, AtSwap, SwapFault,
     BootError, FileError, BootPhases, RollbackDiscard, RollbackRestore, SwapFails, WriteTrackingFiles, TrackingFails,
     ClearPendingUpdate, ReportApplied, staging, tasks
<1>2. \A t \in Task : cyc[t].stage = "idle"
  BY <1>1 DEF WholeHyp, OneCycleAtATime
<1>3. QED
  BY <1>1, <1>2 DEF WholeHyp, WholeInv, TornInv

\* Where the boot path can raise it is not in the swap.
LEMMA CalmError ==
    ASSUME WholeHyp
    PROVE  /\ ~SwapFault
           /\ BootError =>
                /\ proc \in {"boot", "deps", "report"} /\ proc' = "run"
                /\ UNCHANGED <<live, shadow, manifest, built, pending>>
BY DEF SwapFault, BootError, FileError, BootPhases, FragilePhases, WholeHyp, Undisturbed,
   install, staging, records

\* The boot path outside the swap: the install stays as it is.
LEMMA BeforeSwapWhole ==
    ASSUME WholeHyp, BootStep,
           \/ NothingPending \/ DropUnusable \/ BeginApply \/ SyncFails
           \/ SyncDependencies \/ ClearPendingUpdate \/ ReportApplied \/ BootError
    PROVE  SwapInv' /\ StagedInv' /\ LiveWhole'
           /\ live'[ConfigRoot].tracking = LocalVersion' /\ proc' # "rollback"
<1> USE DEF install, staging, records
<1>e. BootError => /\ proc \in {"boot", "deps", "report"} /\ proc' = "run"
                   /\ UNCHANGED <<live, shadow, manifest, built, pending>>
  BY CalmError
<1>1. UNCHANGED <<live, shadow, manifest, built>> /\ proc \notin {"swap", "track"}
  BY <1>e DEF NothingPending, DropUnusable, BeginApply, SyncFails, SyncDependencies,
     ClearPendingUpdate, ReportApplied
<1>2. LiveWhole' /\ live'[ConfigRoot].tracking = LocalVersion'
  BY <1>1 DEF WholeHyp, WholeInv, LiveWhole, LocalVersion
<1>p. pending \in 0 .. MaxRelease /\ (pending # None => pending \in Release)
  BY ConstantFacts DEF WholeHyp, TypeInv, TypeOK, Release, None
<1>m. \A v \in Release : manifest[v] # None => manifest[v] \in Release
  <2>1. \A v \in Release : manifest[v] \in 0 .. Torn /\ manifest[v] # Torn
    BY BootIdle DEF WholeHyp, TypeInv, TypeOK
  <2>2. QED
    BY <2>1, ConstantFacts DEF Release, None, Torn
<1>h. ~Purging(pending)
  BY BootIdle DEF Purging
<1>3. SwapInv'
  <2>1. CASE BeginApply
    BY <2>1, <1>1, <1>p, <1>m DEF BeginApply, Applicable, SwapInv
  <2>2. CASE SyncDependencies
    <3>1. at'.root = 1 /\ proc = "deps" /\ proc' = "swap" /\ pending' = pending
      BY <2>2 DEF SyncDependencies, WholeHyp, TypeInv
    <3>2. manifest[pending] \in Release
      BY <3>1 DEF WholeHyp, WholeInv, SwapInv
    <3>3. pending \in Release
      BY <3>1 DEF WholeHyp, TypeInv, Applying
    <3>4. Recorded
      BY <3>1, <3>2, <3>3, <1>h, ConstantFacts, BootIdle DEF Recorded
    <3>5. Holds(pending, manifest[pending])
      BY <3>4 DEF WholeHyp, WholeInv, StagedInv
    <3>6. \A r \in Root : ~(r < 1)
      BY DEF Root
    <3>7. QED
      BY <1>1, <3>1, <3>2, <3>5, <3>6 DEF SwapInv, Holds
  <2>3. CASE NothingPending \/ DropUnusable \/ SyncFails \/ ClearPendingUpdate \/ ReportApplied
             \/ BootError
    BY <1>e, <2>3 DEF NothingPending, DropUnusable, SyncFails, ClearPendingUpdate,
       ReportApplied, SwapInv
  <2>4. QED
    BY <2>1, <2>2, <2>3
<1>4. StagedInv'
  <2>1. CASE DropUnusable \/ ClearPendingUpdate
    BY <2>1 DEF DropUnusable, ClearPendingUpdate, StagedInv, Recorded
  <2>2. CASE NothingPending \/ BeginApply \/ SyncFails \/ SyncDependencies \/ ReportApplied
             \/ BootError
    <3>1. pending' = pending /\ proc \notin {"swap", "track", "clear"}
      BY <1>e, <2>2 DEF NothingPending, BeginApply, SyncFails, SyncDependencies, ReportApplied
    <3>2. Recorded' => Recorded
      BY <1>1, <1>h, <3>1 DEF Recorded
    <3>3. QED
      BY <1>1, <3>1, <3>2 DEF WholeHyp, WholeInv, StagedInv, Holds
  <2>3. QED
    BY <2>1, <2>2
<1>5. proc' # "rollback"
  BY <1>e DEF NothingPending, DropUnusable, BeginApply, SyncFails, SyncDependencies,
     ClearPendingUpdate, ReportApplied
<1>6. QED
  BY <1>2, <1>3, <1>4, <1>5

\* The last move of the swap completes the install.
LEMMA MoveInWhole ==
    ASSUME WholeHyp, MoveIn
    PROVE  SwapInv' /\ (proc' # "swap" => LiveWhole')
<1> DEFINE m == manifest[pending]
<1> DEFINE k == at.root
<1>1. /\ proc = "swap" /\ k \in Root /\ pending \in Release /\ k \in Nat
      /\ pending' = pending /\ manifest' = manifest
  BY ConstantFacts
  DEF MoveIn, AtSwap, WholeHyp, TypeInv, Applying, records
<1>2. /\ m \in Release
      /\ \A r \in Root :
            LET tree == IF r < k THEN live[r] ELSE shadow[pending][r]
            IN  /\ tree.dir /\ tree.code = m
                /\ r = ConfigRoot => tree.prefs # 0
  BY <1>1 DEF WholeHyp, WholeInv, SwapInv
<1>3. /\ live \in [Root -> Tree] /\ shadow \in [Release -> [Root -> Tree]]
      /\ shadow[pending] \in [Root -> Tree]
  BY <1>1 DEF WholeHyp, TypeInv, TypeOK
<1>4. live' = [live EXCEPT ![k] = shadow[pending][k]]
  <2>1. ~(k < k)
    BY <1>1
  <2>2. shadow[pending][k].dir
    BY <1>1, <1>2, <2>1
  <2>3. QED
    BY <2>2 DEF MoveIn
<1>5. shadow' = [shadow EXCEPT ![pending] = [shadow[pending] EXCEPT ![k] = NoTree]]
  BY DEF MoveIn
<1>6. \A r \in Root : /\ r <= k => LET tree == live'[r]
                                   IN  /\ tree.dir /\ tree.code = m
                                       /\ r = ConfigRoot => tree.prefs # 0
                      /\ r > k => shadow'[pending][r] = shadow[pending][r]
  <2> TAKE r \in Root
  <2>0. r \in Nat
    BY ConstantFacts
  <2>1. CASE r < k
    BY <2>0, <2>1, <1>1, <1>2, <1>3, <1>4
  <2>2. CASE r = k
    BY <2>0, <2>2, <1>1, <1>2, <1>3, <1>4
  <2>3. CASE r > k
    BY <2>0, <2>3, <1>1, <1>3, <1>5
  <2>4. QED
    BY <2>0, <2>1, <2>2, <2>3, <1>1
<1>7. CASE k = NumRoots
  <2>1. proc' = "track"
    BY <1>7 DEF MoveIn
  <2>2. \A r \in Root : r <= k
    BY <1>7, ConstantFacts DEF Root
  <2>3. LocalVersion' = m
    BY <1>6, <2>2, RootAssumption DEF LocalVersion
  <2>4. LiveWhole'
    BY <1>2, <1>6, <2>2, <2>3, RootAssumption DEF LiveWhole
  <2>5. SwapInv'
    BY <1>1, <1>2, <2>1, <2>3 DEF SwapInv
  <2>6. QED
    BY <2>4, <2>5
<1>8. CASE k # NumRoots
  <2>1. proc' = "swap" /\ at'.root = k + 1
    BY <1>8 DEF MoveIn
  <2>2. \A r \in Root : /\ r \in Nat
                        /\ r < k + 1 <=> r <= k
                        /\ ~(r < k + 1) => r > k /\ ~(r < k)
    BY <1>1, ConstantFacts
  <2>3. \A r \in Root :
            LET tree == IF r < at'.root THEN live'[r] ELSE shadow'[pending][r]
            IN  /\ tree.dir /\ tree.code = m
                /\ r = ConfigRoot => tree.prefs # 0
    BY <1>2, <1>6, <2>1, <2>2
  <2>4. QED
    BY <1>1, <1>2, <2>1, <2>3 DEF SwapInv
<1>9. QED
  BY <1>7, <1>8

LEMMA BootWhole ==
    ASSUME WholeHyp, BootStep
    PROVE  WholeInv'
<1> USE DEF install, staging, records
<1>1. TornInv' /\ \A t \in Task : StagingInv(t)'
  BY BootIdle DEF TornInv, StagingInv
<1>2. CASE \/ NothingPending \/ DropUnusable \/ BeginApply \/ SyncFails
           \/ SyncDependencies \/ ClearPendingUpdate \/ ReportApplied \/ BootError
  BY <1>1, <1>2, BeforeSwapWhole DEF WholeInv
<1>3. CASE DiscardBackup
  <2>1. SwapInv'
    BY <1>3 DEF DiscardBackup, AtSwap, WholeHyp, WholeInv, SwapInv, TypeInv, TypeOK
  <2>2. QED
    BY <1>1, <1>3, <2>1 DEF DiscardBackup, AtSwap, WholeInv, StagedInv, Recorded
<1>4. CASE MoveOut
  <2>0. at.root \in Root /\ live \in [Root -> Tree] /\ \A r \in Root : r \in Nat
    BY <1>4, ConstantFacts DEF MoveOut, AtSwap, WholeHyp, TypeInv, TypeOK
  <2>1. \A r \in Root : r < at.root => live'[r] = live[r]
    BY <1>4, <2>0 DEF MoveOut
  <2>2. at'.root = at.root
    BY <1>4 DEF MoveOut, WholeHyp, TypeInv, TypeOK
  <2>3. SwapInv'
    BY <1>4, <2>1, <2>2 DEF MoveOut, AtSwap, WholeHyp, WholeInv, SwapInv
  <2>4. QED
    BY <1>1, <1>4, <2>3 DEF MoveOut, AtSwap, WholeInv, StagedInv, Recorded
<1>5. CASE MoveIn
  <2>1. proc' \in {"swap", "track"}
    BY <1>5 DEF MoveIn
  <2>2. QED
    BY <1>1, <1>5, <2>1, MoveInWhole DEF WholeInv, StagedInv, Recorded
<1>6. CASE SwapFault
  BY <1>6, CalmError
<1>7. CASE RollbackDiscard \/ RollbackRestore \/ SwapFails
  BY <1>7 DEF RollbackDiscard, RollbackRestore, SwapFails, WholeHyp, WholeInv
<1>8. CASE WriteTrackingFiles
  <2>0. live \in [Root -> Tree] /\ live[ConfigRoot] \in Tree
    BY RootAssumption DEF WholeHyp, TypeInv, TypeOK
  <2>1. \A r \in Root : /\ live'[r].code = live[r].code /\ live'[r].prefs = live[r].prefs
                        /\ live[r].dir => live'[r].dir
    BY <1>8, <2>0 DEF WriteTrackingFiles, Tree
  <2>2. live'[ConfigRoot].tracking = manifest[pending]
    BY <1>8, <2>0, RootAssumption DEF WriteTrackingFiles, TrackedRelease, Tree
  <2>3. LiveWhole
    BY <1>8 DEF WriteTrackingFiles, WholeHyp, WholeInv
  <2>4. LocalVersion' = LocalVersion
    BY <2>1, RootAssumption DEF LocalVersion
  <2>5. LiveWhole'
    BY <2>1, <2>3, <2>4, RootAssumption DEF LiveWhole
  <2>6. SwapInv' /\ live'[ConfigRoot].tracking = LocalVersion'
    BY <1>8, <2>2, <2>4 DEF WriteTrackingFiles, WholeHyp, WholeInv, SwapInv
  <2>7. QED
    BY <1>1, <1>8, <2>5, <2>6 DEF WriteTrackingFiles, WholeInv, StagedInv, Recorded
<1>9. CASE TrackingFails
  BY <1>9, BootIdle DEF TrackingFails, WholeHyp, TypeInv, Applying
<1>10. QED
  BY <1>2, <1>3, <1>4, <1>5, <1>6, <1>7, <1>8, <1>9 DEF BootStep

\* A cycle's step, when it leaves its own invariant and what is staged intact.
LEMMA CycleWholeGoal ==
    ASSUME WholeHyp, NEW t \in Task, CycleStep(t), UNCHANGED live,
           StagingInv(t)', StagedInv', TornInv'
    PROVE  WholeInv'
<1>1. /\ proc = "run" /\ proc' = "run" /\ lock = t
      /\ \A u \in Task \ {t} : cyc'[u] = cyc[u]
  BY CycleStepShape, OthersKeepTheirCycle DEF WholeHyp, OneCycleAtATime
<1>2. \A u \in Task \ {t} : cyc'[u].stage = "idle"
  BY <1>1 DEF WholeHyp, OneCycleAtATime
<1>3. \A u \in Task : StagingInv(u)'
  BY <1>2 DEF StagingInv
<1>4. LiveWhole' /\ live'[ConfigRoot].tracking = LocalVersion'
  BY <1>1 DEF WholeHyp, WholeInv, LiveWhole, LocalVersion
<1>5. SwapInv'
  BY <1>1 DEF SwapInv
<1>6. QED
  BY <1>1, <1>3, <1>4, <1>5 DEF WholeInv

\* The steps that write neither a shadow nor a manifest nor the marker.
LEMMA CycleWholeRead ==
    ASSUME WholeHyp, NEW t \in Task, CycleStep(t), cyc[t].stage # "fill",
           UNCHANGED <<live, shadow, manifest, pending>>,
           StagingInv(t)',
           cyc[t].stage = "purge" => manifest[cyc[t].ver] = None
    PROVE  WholeInv'
<1>1. /\ proc = "run" /\ proc' = "run" /\ lock = t
      /\ \A u \in Task \ {t} : cyc'[u] = cyc[u]
      /\ \A u \in Task \ {t} : cyc[u].stage = "idle"
  <2>1. lock = t
    BY CycleStepShape DEF WholeHyp, OneCycleAtATime
  <2>2. QED
    BY <2>1, CycleStepShape, OthersKeepTheirCycle DEF WholeHyp, OneCycleAtATime
<1>2. TornInv'
  BY <1>1 DEF WholeHyp, WholeInv, TornInv
<1>3. Recorded' => Recorded
  BY <1>1 DEF Recorded, Purging
<1>4. StagedInv'
  BY <1>3 DEF WholeHyp, WholeInv, StagedInv, Holds
<1>5. QED
  BY <1>2, <1>4, CycleWholeGoal

LEMMA CycleWhole ==
    ASSUME WholeHyp, NEW t \in Task, CycleStep(t)
    PROVE  WholeInv'
<1> USE DEF install, staging, records, tasks
<1> DEFINE c == cyc[t]
<1>0. /\ c \in CycleRecord /\ cyc \in [Task -> CycleRecord] /\ CycleInv(t) /\ StagingInv(t)
      /\ remote \in Release
      /\ live \in [Root -> Tree] /\ shadow \in [Release -> [Root -> Tree]]
      /\ manifest \in [Release -> 0 .. Torn]
      /\ None \notin Release /\ Torn \notin Release /\ None # Torn
      /\ proc = "run" /\ LiveWhole
      /\ TornInv /\ StagedInv
  <2>1. Torn \notin Release
    BY ReleaseAssumption DEF Torn, Release
  <2>2. QED
    BY <2>1, ConstantFacts, CycleStepShape
    DEF WholeHyp, WholeInv, RebootInv, TypeInv, TypeOK
<1>o. \A u \in Task \ {t} : cyc[u].stage = "idle" /\ cyc'[u].stage = "idle"
  <2>1. lock = t
    BY CycleStepShape DEF WholeHyp, OneCycleAtATime
  <2>2. QED
    BY <2>1, OthersKeepTheirCycle DEF WholeHyp, OneCycleAtATime
<1>t. c.stage # "fill" => \A v \in Release : manifest[v] # Torn
  BY <1>0, <1>o DEF TornInv
<1>1. CASE NetworkError(t) \/ DiskError(t) \/ GiveUpDownload(t)
  <2>1. UNCHANGED <<live, shadow, manifest, pending>> /\ cyc'[t] = NoCycle
    BY <1>0, <1>1 DEF NetworkError, DiskError, GiveUpDownload, Raise, Fail, Leave
  <2>2. c.stage \notin {"fill", "purge"}
    BY <1>1 DEF NetworkError, DiskError, FileError, GiveUpDownload, InCycle, FragilePhases,
       WholeHyp, Undisturbed
  <2>3. QED
    BY <2>1, <2>2, NoCycleFacts, CycleWholeRead DEF StagingInv
<1>2. CASE ManifestWithoutFiles(t) \/ SkipDrift(t) \/ NoChange(t) \/ ReportStaged(t)
  <2>1. UNCHANGED <<live, shadow, manifest, pending>> /\ cyc'[t] = NoCycle
        /\ c.stage \notin {"fill", "purge"}
    BY <1>0, <1>2
    DEF ManifestWithoutFiles, SkipDrift, NoChange, ReportStaged, InCycle, Return, Leave
  <2>2. QED
    BY <2>1, NoCycleFacts, CycleWholeRead DEF StagingInv
<1>3. CASE FetchVersion(t)
  <2>1. StagingInv(t)'
    BY <1>0, <1>3 DEF FetchVersion, InCycle, StagingInv, CycleRecord
  <2>2. QED
    BY <1>3, <2>1, CycleWholeRead DEF FetchVersion, InCycle
<1>4. CASE BeginStaging(t)
  <2>1. /\ cyc'[t].stage = "purge" /\ cyc'[t].got = [r \in Root |-> None]
        /\ cyc'[t].man = remote /\ cyc'[t].todo = ChangedFiles(remote) /\ live' = live
    BY <1>0, <1>4 DEF BeginStaging, InCycle, StagingInv, CycleRecord
  <2>2. Fetched(cyc[t])'
    BY <2>1 DEF Fetched, ChangedFiles
  <2>3. StagingInv(t)'
    BY <2>1, <2>2 DEF StagingInv
  <2>4. QED
    BY <1>4, <2>3, CycleWholeRead DEF BeginStaging, InCycle
<1>5. CASE PurgeManifest(t) \/ \E r \in Root : PurgeTree(t, r)
  <2>1. /\ c.stage = "purge" /\ cyc' = cyc /\ c.ver \in Release
        /\ UNCHANGED <<live, pending>>
        /\ \A v \in Release \ {c.ver} : shadow'[v] = shadow[v] /\ manifest'[v] = manifest[v]
        /\ \A v \in Release : manifest'[v] \in {manifest[v], None}
    <3>1. c.stage = "purge"
      BY <1>5 DEF PurgeManifest, PurgeTree, InCycle
    <3>2. c.ver \in Release
      BY <1>0, <3>1 DEF CycleInv
    <3>3. CASE PurgeManifest(t)
      BY <1>0, <3>1, <3>2, <3>3 DEF PurgeManifest
    <3>4. CASE \E r \in Root : PurgeTree(t, r)
      <4> PICK r \in Root : PurgeTree(t, r)
        BY <3>4
      <4> PICK rest \in LessOf(shadow[c.ver][r]) :
               shadow' = [shadow EXCEPT ![c.ver][r] = rest]
        BY DEF PurgeTree
      <4>1. UNCHANGED <<live, pending, manifest, cyc>>
        BY DEF PurgeTree
      <4>2. QED
        BY <1>0, <3>1, <3>2, <4>1
    <3>5. QED
      BY <1>5, <3>3, <3>4
  <2>2. StagingInv(t)'
    BY <1>0, <2>1 DEF StagingInv, Fetched
  <2>3. TornInv'
    BY <1>0, <1>t, <2>1 DEF TornInv
  <2>4. StagedInv'
    <3>1. SUFFICES ASSUME Recorded'
                   PROVE  Holds(pending, manifest[pending])'
      BY DEF StagedInv
    <3>2. pending \in Release /\ pending' = pending /\ pending # c.ver
      BY <2>1, <3>1, ConstantFacts
      DEF Recorded, Purging, WholeHyp, TypeInv, TypeOK, Release, None
    <3>3. Recorded
      BY <1>o, <2>1, <3>1, <3>2, <1>0 DEF Recorded, Purging
    <3>4. QED
      BY <1>0, <2>1, <3>2, <3>3 DEF StagedInv, Holds
  <2>5. QED
    BY <2>1, <2>2, <2>3, <2>4, CycleWholeGoal
<1>6. CASE Purged(t)
  <2>1. c.stage = "purge" /\ cyc'[t] = [c EXCEPT !.stage = "download"]
        /\ UNCHANGED <<live, shadow, manifest, pending>> /\ manifest[c.ver] = None
    BY <1>0, <1>6 DEF Purged, InCycle
  <2>2. StagingInv(t)'
    BY <1>0, <2>1 DEF StagingInv, CycleRecord, Fetched
  <2>3. QED
    BY <2>1, <2>2, CycleWholeRead
<1>7. CASE \E r \in Root : Download(t, r)
  <2> PICK r \in Root : Download(t, r)
    BY <1>7
  <2>1. /\ c.stage = "download" /\ UNCHANGED <<live, shadow, manifest, pending>>
        /\ cyc'[t] = [c EXCEPT !.todo = @ \ {r}, !.got[r] = remote, !.tries = 0]
        /\ remote = c.man
    BY <1>0 DEF Download, InCycle, HashMatches
  <2> DEFINE got == [c.got EXCEPT ![r] = remote]
  <2>2. /\ cyc'[t].stage = c.stage /\ cyc'[t].man = c.man /\ cyc'[t].ver = c.ver
        /\ cyc'[t].todo = c.todo \ {r} /\ cyc'[t].got = got
        /\ got \in [Root -> 0 .. MaxRelease] /\ got[r] = remote
        /\ \A s \in Root \ {r} : got[s] = c.got[s]
    BY <1>0, <2>1, ConstantFacts DEF CycleRecord
  <2> HIDE DEF got
  <2>3. Fetched(c)
    BY <1>0, <2>1 DEF StagingInv
  <2>4. Fetched(cyc[t])'
    BY <2>1, <2>2, <2>3 DEF Fetched
  <2>5. StagingInv(t)'
    BY <1>0, <2>1, <2>2, <2>4 DEF StagingInv
  <2>6. QED
    BY <2>1, <2>5, CycleWholeRead
<1>8. CASE RetryDownload(t) \/ Downloaded(t)
  <2>1. /\ c.stage = "download" /\ UNCHANGED <<live, shadow, manifest, pending>>
        /\ cyc'[t].got = c.got /\ cyc'[t].man = c.man /\ cyc'[t].ver = c.ver
        /\ cyc'[t].todo = c.todo
        /\ cyc'[t].stage \in {"download", "copy"}
        /\ cyc'[t].stage = "copy" => c.todo = {}
    <3>1. CASE RetryDownload(t)
      <4>1. cyc'[t] = [c EXCEPT !.tries = c.tries + 1]
        BY <1>0, <3>1 DEF RetryDownload
      <4>2. QED
        BY <1>0, <3>1, <4>1 DEF RetryDownload, InCycle, CycleRecord
    <3>2. CASE Downloaded(t)
      <4>1. cyc'[t] = [c EXCEPT !.stage = "copy"]
        BY <1>0, <3>2 DEF Downloaded
      <4>2. QED
        BY <1>0, <3>2, <4>1 DEF Downloaded, InCycle, CycleRecord
    <3>3. QED
      BY <1>8, <3>1, <3>2
  <2>2. StagingInv(t)'
    BY <1>0, <2>1 DEF StagingInv, Fetched
  <2>3. QED
    BY <2>1, <2>2, CycleWholeRead
<1>9. ASSUME c.stage \in {"copy", "overlay"}, c.ver \in Release,
             UNCHANGED <<live, manifest, pending>>, StagingInv(t)',
             cyc'[t].stage \in {"overlay", "record"},
             \A v \in Release \ {c.ver} : shadow'[v] = shadow[v]
      PROVE  WholeInv'
  <2>1. manifest[c.ver] = None
    BY <1>0, <1>9 DEF StagingInv
  <2>2. TornInv'
    BY <1>9, <1>t DEF TornInv
  <2>3. StagedInv'
    <3>1. SUFFICES ASSUME Recorded'
                   PROVE  Holds(pending, manifest[pending])'
      BY DEF StagedInv
    <3>2. pending \in Release /\ pending' = pending /\ pending # c.ver
      BY <1>9, <2>1, <3>1, ConstantFacts
      DEF Recorded, WholeHyp, TypeInv, TypeOK, Release, None
    <3>3. Recorded
      BY <1>o, <1>9, <3>1, <3>2, <1>0 DEF Recorded, Purging
    <3>4. QED
      BY <1>0, <1>9, <3>2, <3>3 DEF StagedInv, Holds
  <2>4. QED
    BY <1>9, <2>2, <2>3, CycleWholeGoal
<1>10. CASE CopyLive(t)
  <2>1. /\ c.stage = "copy" /\ c.ver \in Release /\ UNCHANGED <<live, manifest, pending>>
        /\ cyc'[t] = [c EXCEPT !.stage = "overlay"]
    BY <1>0, <1>10 DEF CopyLive, InCycle, CycleInv
  <2>2. /\ shadow'[c.ver] = [r \in Root |-> live[r]]
        /\ \A v \in Release \ {c.ver} : shadow'[v] = shadow[v]
    BY <1>0, <1>10, <2>1 DEF CopyLive, LiveWhole
  <2>3. StagingInv(t)'
    <3>1. /\ cyc'[t].got = c.got /\ cyc'[t].man = c.man /\ cyc'[t].ver = c.ver
          /\ cyc'[t].todo = c.todo /\ cyc'[t].stage = "overlay"
      BY <1>0, <2>1 DEF CycleRecord
    <3>2. Fetched(c) /\ c.todo = {} /\ manifest[c.ver] = None
      BY <1>0, <2>1 DEF StagingInv
    <3>3. Fetched(cyc[t])'
      BY <2>1, <3>1, <3>2 DEF Fetched
    <3>4. /\ \A r \in Root : shadow'[c.ver][r].dir /\ shadow'[c.ver][r].code = live'[r].code
          /\ shadow'[c.ver][ConfigRoot].prefs # 0
      BY <1>0, <2>1, <2>2, RootAssumption DEF LiveWhole
    <3>5. QED
      BY <2>1, <3>1, <3>2, <3>3, <3>4 DEF StagingInv
  <2>4. QED
    BY <1>9, <2>1, <2>2, <2>3
<1>11. CASE Overlay(t)
  <2>1. /\ c.stage = "overlay" /\ c.ver \in Release /\ UNCHANGED <<live, manifest, pending>>
        /\ cyc'[t] = [c EXCEPT !.stage = "record"]
    BY <1>0, <1>11 DEF Overlay, InCycle, CycleInv
  <2> DEFINE lay(r, tree) ==
          IF c.got[r] # None THEN [tree EXCEPT !.code = c.got[r]] ELSE tree
  <2>2. /\ shadow'[c.ver] = [r \in Root |-> Prune(lay(r, shadow[c.ver][r]))]
        /\ \A v \in Release \ {c.ver} : shadow'[v] = shadow[v]
    BY <1>0, <1>11, <2>1 DEF Overlay
  <2>3. /\ \A r \in Root : shadow[c.ver][r].dir /\ shadow[c.ver][r].code = live[r].code
        /\ shadow[c.ver][ConfigRoot].prefs # 0
        /\ Fetched(c) /\ c.todo = {} /\ manifest[c.ver] = None
    BY <1>0, <2>1 DEF StagingInv
  <2>4. ASSUME NEW r \in Root
        PROVE  /\ shadow'[c.ver][r].dir /\ shadow'[c.ver][r].code = c.man
               /\ shadow'[c.ver][r].prefs = shadow[c.ver][r].prefs
    <3> DEFINE tree == shadow[c.ver][r]
    <3>1. tree \in Tree /\ tree.dir /\ tree.code = live[r].code
      BY <1>0, <2>1, <2>3
    <3>2. /\ lay(r, tree).dir /\ lay(r, tree).prefs = tree.prefs
          /\ lay(r, tree).code = c.man
          /\ DOMAIN lay(r, tree) = {"dir", "code", "prefs", "registry", "tracking"}
      <4>1. CASE c.got[r] # None
        <5>1. c.got[r] = c.man
          BY <2>3, <4>1 DEF Fetched
        <5>2. lay(r, tree) = [tree EXCEPT !.code = c.man]
          BY <4>1, <5>1
        <5> HIDE DEF lay
        <5>3. QED
          BY <3>1, <5>2 DEF Tree
      <4>2. CASE c.got[r] = None
        <5>1. live[r].code = c.man
          BY <1>0, <2>1, <2>3, <4>2 DEF Fetched, CycleInv
        <5>2. lay(r, tree) = tree
          BY <4>2
        <5> HIDE DEF lay
        <5>3. QED
          BY <3>1, <5>1, <5>2 DEF Tree
      <4>3. QED
        BY <4>1, <4>2
    <3>3. shadow'[c.ver][r] = Prune(lay(r, tree))
      BY <2>2
    <3> HIDE DEF lay
    <3>4. QED
      BY <3>2, <3>3 DEF Prune
  <2>5. StagingInv(t)'
    <3>1. cyc'[t].man = c.man /\ cyc'[t].ver = c.ver /\ cyc'[t].stage = "record"
      BY <1>0, <2>1 DEF CycleRecord
    <3>2. Holds(c.ver, c.man)'
      BY <2>1, <2>3, <2>4, <3>1, RootAssumption DEF Holds
    <3>3. QED
      BY <2>1, <2>3, <3>1, <3>2 DEF StagingInv
  <2>6. QED
    BY <1>9, <2>1, <2>2, <2>5
<1>12. CASE RecordManifest(t) \/ FillManifest(t)
  <2>1. /\ c.stage \in {"record", "fill"} /\ c.ver \in Release /\ c.man \in Release
        /\ UNCHANGED <<live, shadow, pending>>
        /\ Holds(c.ver, c.man)
    BY <1>0, <1>12 DEF RecordManifest, FillManifest, InCycle, CycleInv, StagingInv
  <2>2. /\ cyc'[t].ver = c.ver /\ cyc'[t].man = c.man
        /\ \A v \in Release \ {c.ver} : manifest'[v] = manifest[v]
        /\ cyc'[t].stage \in {"fill", "marker"}
        /\ cyc'[t].stage = "fill" => manifest'[c.ver] = Torn
        /\ cyc'[t].stage = "marker" => manifest'[c.ver] = c.man
    BY <1>0, <1>12, <2>1 DEF RecordManifest, FillManifest, CycleRecord
  <2>3. StagingInv(t)'
    BY <2>1, <2>2 DEF StagingInv, Holds
  <2>4. TornInv'
    <3>1. SUFFICES ASSUME NEW v \in Release, manifest'[v] = Torn
                   PROVE  cyc'[t].stage = "fill" /\ cyc'[t].ver = v
      BY DEF TornInv
    <3>2. v = c.ver
      BY <1>0, <1>o, <2>1, <2>2, <3>1 DEF TornInv
    <3>3. QED
      BY <1>0, <2>1, <2>2, <3>1, <3>2
  <2>5. StagedInv'
    <3>1. SUFFICES ASSUME Recorded'
                   PROVE  Holds(pending, manifest[pending])'
      BY DEF StagedInv
    <3>2. pending \in Release /\ pending' = pending
      BY <2>1, <3>1, ConstantFacts DEF Recorded, WholeHyp, TypeInv, TypeOK, Release, None
    <3>3. CASE pending = c.ver
      <4>1. manifest'[pending] = c.man
        BY <2>2, <3>1, <3>2, <3>3 DEF Recorded
      <4>2. QED
        BY <2>1, <3>2, <3>3, <4>1 DEF Holds
    <3>4. CASE pending # c.ver
      <4>1. Recorded
        BY <1>o, <1>0, <2>1, <2>2, <3>1, <3>2, <3>4 DEF Recorded, Purging
      <4>2. QED
        BY <1>0, <2>1, <2>2, <3>2, <3>4, <4>1 DEF StagedInv, Holds
    <3>5. QED
      BY <3>3, <3>4
  <2>6. QED
    BY <2>1, <2>3, <2>4, <2>5, CycleWholeGoal
<1>13. CASE WritePendingUpdate(t)
  <2>1. /\ c.stage = "marker" /\ c.ver \in Release /\ manifest[c.ver] = c.man
        /\ UNCHANGED <<live, shadow, manifest>> /\ pending' = c.ver
        /\ cyc'[t] = [c EXCEPT !.stage = "finish"] /\ Holds(c.ver, c.man)
    BY <1>0, <1>13 DEF WritePendingUpdate, InCycle, CycleInv, StagingInv
  <2>2. cyc'[t].ver = c.ver /\ cyc'[t].man = c.man /\ cyc'[t].stage = "finish"
    BY <1>0, <2>1 DEF CycleRecord
  <2>3. StagingInv(t)'
    BY <2>1, <2>2 DEF StagingInv, Holds
  <2>4. TornInv'
    BY <1>t, <2>1 DEF TornInv
  <2>5. StagedInv'
    BY <2>1 DEF StagedInv, Holds
  <2>6. QED
    BY <2>1, <2>3, <2>4, <2>5, CycleWholeGoal
<1>14. QED
  BY <1>1, <1>2, <1>3, <1>4, <1>5, <1>6, <1>7, <1>8, <1>10, <1>11, <1>12, <1>13
  DEF CycleStep

LEMMA WholeStep ==
    ASSUME WholeHyp, [Next]_vars
    PROVE  WholeInv'
<1>1. CASE UNCHANGED vars
  BY <1>1 DEF vars, WholeHyp, WholeInv, LiveWhole, LocalVersion, SwapInv, StagedInv,
     Recorded, Purging, Holds, TornInv, StagingInv, Fetched
<1>2. QED
  BY <1>1, EnvironmentWhole, BootWhole, CycleWhole DEF Next

LEMMA RebootInvariant == Spec => []RebootInv
<1>1. TypeInv /\ OneCycleAtATime /\ RebootInv /\ [Next]_vars => RebootInv'
  BY RebootStep DEF RebootHyp
<1>2. QED
  BY <1>1, RebootInit, TypeInvariant, OneCycle, PTL DEF Spec

LEMMA WholeInvariant ==
    ASSUME Undisturbed
    PROVE  Spec => []WholeInv
<1>1. TypeInv /\ OneCycleAtATime /\ RebootInv /\ WholeInv /\ [Next]_vars => WholeInv'
  BY WholeStep DEF WholeHyp
<1>2. QED
  BY <1>1, WholeInit, RebootInvariant, TypeInvariant, OneCycle, PTL DEF Spec

\* As long as no kill and no file system error falls in one of the six fragile
\* phases, the install is one whole release whenever the agent polls: wherever else
\* the process was killed or a call raised, whatever the host published meanwhile and
\* in whatever order the cycles ran.
THEOREM WholeInstall ==
    ASSUME Undisturbed
    PROVE  Spec => []NeverHalfUpdated
<1>1. WholeInv => NeverHalfUpdated
  BY ConstantFacts
  DEF WholeInv, LiveWhole, NeverHalfUpdated, WholeRelease
<1>2. QED
  BY <1>1, WholeInvariant, PTL

\* Then, too, config/ never lacks the device's settings.json and client.env when
\* the agent polls.
THEOREM PrefsSurvive ==
    ASSUME Undisturbed
    PROVE  Spec => []PrefsPresent
<1>1. WholeInv => PrefsPresent
  BY DEF WholeInv, LiveWhole, PrefsPresent
<1>2. QED
  BY <1>1, WholeInvariant, PTL

\* And config/manifest.json, which /manifest serves, lists the release installed:
\* the swap replaces the file and the step after it writes it anew, from the
\* manifest recorded at staging and not from the marker's version.
THEOREM TrackingFollows ==
    ASSUME Undisturbed
    PROVE  Spec => []TrackingMatches
<1>1. WholeInv => TrackingMatches
  BY DEF WholeInv, TrackingMatches, LocalVersion
<1>2. QED
  BY <1>1, WholeInvariant, PTL

(***************************************************************************)
(* What startup applies.  Every staged tree that a manifest is recorded    *)
(* beside is of one release, and of the one the manifest lists: a deletion *)
(* or a swap only takes roots away from it, and a cycle withdraws the      *)
(* manifest before it builds another tree.  Nothing is assumed of where    *)
(* the process is killed and which calls raise.                            *)
(***************************************************************************)

Shadow(v) == [r \in Root |-> shadow[v][r].code]

\* Whatever is whole is of one release.
Unmixed(code) ==
    \A r, s \in Root : code[r] # None /\ code[s] # None => code[r] = code[s]

\* The release that the manifest of v lists, when it lists one.
OneOf(v) ==
    /\ Unmixed(Shadow(v))
    /\ manifest[v] # Torn => \A r \in Root : Shadow(v)[r] \in {manifest[v], None}

\* What a cycle knows of the codes it has on disk, by its stage.
CodesInv(t) ==
    LET c == cyc[t]
    IN  /\ c.stage \in {"version", "manifest"} => c.got = [r \in Root |-> None]
        /\ c.stage \in {"purge", "download", "copy", "overlay"} => Fetched(c)
        /\ c.stage \in {"copy", "overlay"} => c.todo = {}
        /\ c.stage \in {"download", "copy", "overlay", "record"} => manifest[c.ver] = None
        /\ c.stage = "overlay" =>
               \A r \in Root : shadow[c.ver][r].code \in {live[r].code, None}
        /\ c.stage \in {"record", "fill"} =>
               \A r \in Root : shadow[c.ver][r].code \in {c.man, None}

StagedOneInv ==
    /\ \A v \in Release : manifest[v] # None => OneOf(v)
    /\ \A t \in Task : CodesInv(t)

StagedHyp == TypeInv /\ OneCycleAtATime /\ RebootInv /\ StagedOneInv

\* Losing roots mixes nothing.
LEMMA FewerUnmixed ==
    ASSUME NEW f, NEW g, Unmixed(f), \A r \in Root : g[r] \in {f[r], None}
    PROVE  Unmixed(g)
BY DEF Unmixed

LEMMA FewerOneOf ==
    ASSUME NEW v \in Release, OneOf(v), manifest'[v] = manifest[v],
           \A r \in Root : shadow'[v][r].code \in {shadow[v][r].code, None}
    PROVE  OneOf(v)'
<1>1. \A r \in Root : Shadow(v)'[r] \in {Shadow(v)[r], None}
  BY DEF Shadow
<1>2. Unmixed(Shadow(v)')
  BY <1>1, FewerUnmixed DEF OneOf
<1>3. Unmixed(Shadow(v))'
  BY <1>2 DEF Unmixed
<1>4. QED
  BY <1>1, <1>3 DEF OneOf

LEMMA StagedInit == Init => StagedOneInv
BY NoCycleFacts DEF Init, StagedOneInv, CodesInv

\* The boot path and the environment build nothing: at most a root of a staged tree
\* is moved away.
LEMMA BootStaged ==
    ASSUME StagedHyp, BootStep
    PROVE  StagedOneInv'
<1> USE DEF install, staging, records, tasks
<1>1. proc # "run" /\ cyc' = cyc /\ manifest' = manifest
  BY DEF BootStep, NothingPending, DropUnusable, BeginApply,
     SyncDependencies, SyncFails, DiscardBackup, MoveOut, MoveIn, AtSwap, SwapFault,
     BootError, FileError, BootPhases,
     RollbackDiscard, RollbackRestore, SwapFails, WriteTrackingFiles, TrackingFails,
     ClearPendingUpdate, ReportApplied
<1>2. \A t \in Task : CodesInv(t)'
  BY <1>1 DEF StagedHyp, OneCycleAtATime, CodesInv
<1>3. \A v \in Release, r \in Root : shadow'[v][r].code \in {shadow[v][r].code, None}
  <2>1. CASE MoveIn
    <3>1. shadow' = [shadow EXCEPT ![pending] = [shadow[pending] EXCEPT ![at.root] = NoTree]]
      BY <2>1 DEF MoveIn
    <3>2. shadow \in [Release -> [Root -> Tree]]
      BY DEF StagedHyp, TypeInv, TypeOK
    <3>3. QED
      BY <3>1, <3>2 DEF NoTree
  <2>2. CASE ~MoveIn
    <3>1. shadow' = shadow
      BY <2>2 DEF BootStep, NothingPending, DropUnusable, BeginApply,
         SyncDependencies, SyncFails, DiscardBackup, MoveOut, SwapFault,
         BootError, RollbackDiscard, RollbackRestore, SwapFails, WriteTrackingFiles,
         TrackingFails, ClearPendingUpdate, ReportApplied
    <3>2. QED
      BY <3>1
  <2>3. QED
    BY <2>1, <2>2
<1>4. \A v \in Release : manifest'[v] # None => OneOf(v)'
  BY <1>1, <1>3, FewerOneOf DEF StagedHyp, StagedOneInv
<1>5. QED
  BY <1>2, <1>4 DEF StagedOneInv

\* Steps that keep the codes of every tree.
LEMMA CalmStaged ==
    ASSUME StagedHyp,
           \A r \in Root : live'[r].code = live[r].code,
           UNCHANGED <<shadow, manifest, cyc>>
    PROVE  StagedOneInv'
<1>1. \A t \in Task : CodesInv(t)'
  BY DEF StagedHyp, StagedOneInv, CodesInv, Fetched
<1>2. \A v \in Release : manifest'[v] # None => OneOf(v)'
  BY FewerOneOf DEF StagedHyp, StagedOneInv
<1>3. QED
  BY <1>1, <1>2 DEF StagedOneInv

LEMMA EnvironmentStaged ==
    ASSUME StagedHyp,
           \/ \E r \in Release : Publish(r)
           \/ EditPrefs \/ SaveRegistry \/ Crash \/ Start
           \/ BeginScheduled \/ SkipScheduled
           \/ \E t \in Task : BeginTriggered(t)
    PROVE  StagedOneInv'
<1> USE DEF install, staging, records, tasks
<1>t. live \in [Root -> Tree]
  BY DEF StagedHyp, TypeInv, TypeOK
<1>1. CASE \E r \in Release : Publish(r)
  BY <1>1, CalmStaged DEF Publish
<1>2. CASE EditPrefs \/ SaveRegistry
  <2>1. \A r \in Root : live'[r].code = live[r].code
    BY <1>2, <1>t DEF EditPrefs, SaveRegistry, Tree
  <2>2. QED
    BY <1>2, <2>1, CalmStaged DEF EditPrefs, SaveRegistry
<1>3. CASE Start \/ SkipScheduled
  BY <1>3, CalmStaged DEF Start, SkipScheduled
<1>m. ASSUME UNCHANGED <<shadow, manifest>>
      PROVE  \A v \in Release : manifest'[v] # None => OneOf(v)'
  BY <1>m, FewerOneOf DEF StagedHyp, StagedOneInv
<1>4. CASE Crash
  <2>1. UNCHANGED <<shadow, manifest>> /\ \A t \in Task : cyc'[t] = NoCycle
    BY <1>4 DEF Crash, Kill
  <2>2. \A t \in Task : CodesInv(t)'
    BY <2>1, NoCycleFacts DEF CodesInv
  <2>3. QED
    BY <1>m, <2>1, <2>2 DEF StagedOneInv
<1>5. ASSUME NEW t \in Task, Enter(t)
      PROVE  StagedOneInv'
  <2>1. UNCHANGED <<live, shadow, manifest>>
    BY <1>5 DEF Enter
  <2>2. cyc'[t].stage = "version" /\ cyc'[t].got = [r \in Root |-> None]
    BY <1>5 DEF Enter, StagedHyp, TypeInv, TypeOK, NoCycle
  <2>3. \A u \in Task \ {t} : cyc'[u] = cyc[u]
    BY <1>5, OthersKeepTheirCycle DEF StagedHyp
  <2>4. \A u \in Task : CodesInv(u)'
    BY <2>1, <2>2, <2>3 DEF StagedHyp, StagedOneInv, CodesInv, Fetched
  <2>5. QED
    BY <1>m, <2>1, <2>4 DEF StagedOneInv
<1>6. CASE BeginScheduled
  BY <1>6, <1>5, ConstantFacts DEF BeginScheduled
<1>7. CASE \E t \in Task : BeginTriggered(t)
  BY <1>7, <1>5 DEF BeginTriggered
<1>8. QED
  BY <1>1, <1>2, <1>3, <1>4, <1>6, <1>7

\* A cycle writes only staged trees; those with a manifest are to stay of one release.
LEMMA CycleStagedGoal ==
    ASSUME StagedHyp, NEW t \in Task, CycleStep(t), CodesInv(t)',
           \A v \in Release : manifest'[v] # None => OneOf(v)'
    PROVE  StagedOneInv'
<1>1. lock = t /\ \A u \in Task \ {t} : cyc'[u] = cyc[u]
  BY CycleStepShape, OthersKeepTheirCycle DEF StagedHyp, OneCycleAtATime
<1>2. \A u \in Task \ {t} : cyc'[u].stage = "idle"
  BY <1>1 DEF StagedHyp, OneCycleAtATime
<1>3. \A u \in Task : CodesInv(u)'
  BY <1>2 DEF CodesInv
<1>4. QED
  BY <1>3 DEF StagedOneInv

\* The steps that write neither a shadow nor a manifest.
LEMMA CycleStagedRead ==
    ASSUME StagedHyp, NEW t \in Task, CycleStep(t), CodesInv(t)',
           UNCHANGED <<live, shadow, manifest>>
    PROVE  StagedOneInv'
<1>1. \A v \in Release : manifest'[v] # None => OneOf(v)'
  BY FewerOneOf DEF StagedHyp, StagedOneInv
<1>2. QED
  BY <1>1, CycleStagedGoal

LEMMA CycleStaged ==
    ASSUME StagedHyp, NEW t \in Task, CycleStep(t)
    PROVE  StagedOneInv'
<1> USE DEF install, staging, records, tasks
<1> DEFINE c == cyc[t]
<1>0. /\ c \in CycleRecord /\ cyc \in [Task -> CycleRecord] /\ CycleInv(t) /\ CodesInv(t)
      /\ remote \in Release
      /\ live \in [Root -> Tree] /\ shadow \in [Release -> [Root -> Tree]]
      /\ manifest \in [Release -> 0 .. Torn] /\ None \notin Release
      /\ \A v \in Release : manifest[v] # None => OneOf(v)
  BY ConstantFacts DEF StagedHyp, StagedOneInv, RebootInv, TypeInv, TypeOK
<1>1. CASE NetworkError(t) \/ DiskError(t) \/ GiveUpDownload(t)
  <2>1. UNCHANGED <<live, shadow, manifest>> /\ cyc'[t] = NoCycle
    BY <1>0, <1>1 DEF NetworkError, DiskError, GiveUpDownload, InCycle, Raise, Fail, Leave
  <2>2. QED
    BY <2>1, NoCycleFacts, CycleStagedRead DEF CodesInv
<1>2. CASE ManifestWithoutFiles(t) \/ SkipDrift(t) \/ NoChange(t) \/ ReportStaged(t)
  <2>1. UNCHANGED <<live, shadow, manifest>> /\ cyc'[t] = NoCycle
    BY <1>0, <1>2
    DEF ManifestWithoutFiles, SkipDrift, NoChange, ReportStaged, InCycle, Return, Leave
  <2>2. QED
    BY <2>1, NoCycleFacts, CycleStagedRead DEF CodesInv
<1>3. CASE FetchVersion(t)
  <2>1. CodesInv(t)'
    BY <1>0, <1>3 DEF FetchVersion, InCycle, CodesInv, CycleRecord
  <2>2. QED
    BY <1>3, <2>1, CycleStagedRead DEF FetchVersion
<1>4. CASE BeginStaging(t)
  <2>1. /\ cyc'[t].stage = "purge" /\ cyc'[t].got = [r \in Root |-> None]
        /\ cyc'[t].man = remote /\ cyc'[t].todo = ChangedFiles(remote) /\ live' = live
    BY <1>0, <1>4 DEF BeginStaging, InCycle, CodesInv, CycleRecord
  <2>2. Fetched(cyc[t])'
    BY <2>1 DEF Fetched, ChangedFiles
  <2>3. CodesInv(t)'
    BY <2>1, <2>2 DEF CodesInv
  <2>4. QED
    BY <1>4, <2>3, CycleStagedRead DEF BeginStaging
<1>5. CASE PurgeManifest(t) \/ \E r \in Root : PurgeTree(t, r)
  <2>1. /\ c.stage = "purge" /\ cyc' = cyc /\ UNCHANGED live
        /\ \A v \in Release : manifest'[v] \in {manifest[v], None}
        /\ \A v \in Release, r \in Root : shadow'[v][r].code \in {shadow[v][r].code, None}
    <3>1. c.stage = "purge" /\ c.ver \in Release
      BY <1>0, <1>5 DEF PurgeManifest, PurgeTree, InCycle, CycleInv
    <3>2. CASE PurgeManifest(t)
      BY <1>0, <3>1, <3>2 DEF PurgeManifest
    <3>3. CASE \E r \in Root : PurgeTree(t, r)
      <4> PICK r \in Root : PurgeTree(t, r)
        BY <3>3
      <4> PICK rest \in LessOf(shadow[c.ver][r]) :
               shadow' = [shadow EXCEPT ![c.ver] = [shadow[c.ver] EXCEPT ![r] = rest]]
        BY DEF PurgeTree
      <4>1. UNCHANGED <<live, manifest, cyc>>
        BY DEF PurgeTree
      <4>2. rest.code \in {shadow[c.ver][r].code, None}
        <5>1. shadow[c.ver][r] \in Tree
          BY <1>0, <3>1
        <5>2. QED
          BY <5>1 DEF LessOf, NoTree, Tree
      <4>3. QED
        BY <1>0, <3>1, <4>1, <4>2
    <3>4. QED
      BY <1>5, <3>2, <3>3
  <2>2. CodesInv(t)'
    BY <1>0, <2>1 DEF CodesInv, Fetched
  <2>3. ASSUME NEW v \in Release, manifest'[v] # None
        PROVE  OneOf(v)'
    <3>1. OneOf(v) /\ manifest'[v] = manifest[v]
      BY <1>0, <2>1, <2>3
    <3>2. QED
      BY <2>1, <3>1, FewerOneOf
  <2>4. QED
    BY <2>1, <2>2, <2>3, CycleStagedGoal
<1>6. CASE Purged(t)
  <2>1. c.stage = "purge" /\ cyc'[t] = [c EXCEPT !.stage = "download"]
        /\ UNCHANGED <<live, shadow, manifest>> /\ manifest[c.ver] = None
    BY <1>0, <1>6 DEF Purged, InCycle
  <2>2. CodesInv(t)'
    BY <1>0, <2>1 DEF CodesInv, CycleRecord, Fetched
  <2>3. QED
    BY <2>1, <2>2, CycleStagedRead
<1>7. CASE \E r \in Root : Download(t, r)
  <2> PICK r \in Root : Download(t, r)
    BY <1>7
  <2>1. /\ c.stage = "download" /\ UNCHANGED <<live, shadow, manifest>>
        /\ cyc'[t] = [c EXCEPT !.todo = @ \ {r}, !.got[r] = remote, !.tries = 0]
        /\ remote = c.man
    BY <1>0 DEF Download, InCycle, HashMatches
  <2> DEFINE got == [c.got EXCEPT ![r] = remote]
  <2>2. /\ cyc'[t].stage = c.stage /\ cyc'[t].man = c.man /\ cyc'[t].ver = c.ver
        /\ cyc'[t].todo = c.todo \ {r} /\ cyc'[t].got = got
        /\ got[r] = remote /\ \A s \in Root \ {r} : got[s] = c.got[s]
    BY <1>0, <2>1, ConstantFacts DEF CycleRecord
  <2> HIDE DEF got
  <2>3. Fetched(c)
    BY <1>0, <2>1 DEF CodesInv
  <2>4. Fetched(cyc[t])'
    BY <2>1, <2>2, <2>3 DEF Fetched
  <2>5. CodesInv(t)'
    BY <1>0, <2>1, <2>2, <2>4 DEF CodesInv
  <2>6. QED
    BY <2>1, <2>5, CycleStagedRead
<1>8. CASE RetryDownload(t) \/ Downloaded(t)
  <2>1. /\ c.stage = "download" /\ UNCHANGED <<live, shadow, manifest>>
        /\ cyc'[t].got = c.got /\ cyc'[t].man = c.man /\ cyc'[t].ver = c.ver
        /\ cyc'[t].todo = c.todo
        /\ cyc'[t].stage \in {"download", "copy"}
        /\ cyc'[t].stage = "copy" => c.todo = {}
    <3>1. CASE RetryDownload(t)
      <4>1. cyc'[t] = [c EXCEPT !.tries = c.tries + 1]
        BY <1>0, <3>1 DEF RetryDownload
      <4>2. QED
        BY <1>0, <3>1, <4>1 DEF RetryDownload, InCycle, CycleRecord
    <3>2. CASE Downloaded(t)
      <4>1. cyc'[t] = [c EXCEPT !.stage = "copy"]
        BY <1>0, <3>2 DEF Downloaded
      <4>2. QED
        BY <1>0, <3>2, <4>1 DEF Downloaded, InCycle, CycleRecord
    <3>3. QED
      BY <1>8, <3>1, <3>2
  <2>2. CodesInv(t)'
    BY <1>0, <2>1 DEF CodesInv, Fetched
  <2>3. QED
    BY <2>1, <2>2, CycleStagedRead
<1>9. ASSUME c.stage \in {"copy", "overlay"}, c.ver \in Release,
             UNCHANGED <<live, manifest>>, CodesInv(t)',
             \A v \in Release \ {c.ver} : shadow'[v] = shadow[v]
      PROVE  StagedOneInv'
  <2>1. manifest[c.ver] = None
    BY <1>0, <1>9 DEF CodesInv
  <2>2. \A v \in Release : manifest'[v] # None => OneOf(v)'
    BY <1>0, <1>9, <2>1, FewerOneOf
  <2>3. QED
    BY <1>9, <2>2, CycleStagedGoal
<1>10. CASE CopyLive(t)
  <2>1. /\ c.stage = "copy" /\ c.ver \in Release /\ UNCHANGED <<live, manifest>>
        /\ cyc'[t] = [c EXCEPT !.stage = "overlay"]
    BY <1>0, <1>10 DEF CopyLive, InCycle, CycleInv
  <2>2. /\ \A r \in Root : shadow'[c.ver][r].code \in {live[r].code, None}
        /\ \A v \in Release \ {c.ver} : shadow'[v] = shadow[v]
    BY <1>0, <1>10, <2>1 DEF CopyLive, EmptyTree, NoTree
  <2>3. /\ cyc'[t].got = c.got /\ cyc'[t].man = c.man /\ cyc'[t].ver = c.ver
        /\ cyc'[t].todo = c.todo /\ cyc'[t].stage = "overlay"
    BY <1>0, <2>1 DEF CycleRecord
  <2>4. CodesInv(t)'
    BY <1>0, <2>1, <2>2, <2>3 DEF CodesInv, Fetched
  <2>5. QED
    BY <1>9, <2>1, <2>2, <2>4
<1>11. CASE Overlay(t)
  <2>1. /\ c.stage = "overlay" /\ c.ver \in Release /\ UNCHANGED <<live, manifest>>
        /\ cyc'[t] = [c EXCEPT !.stage = "record"]
    BY <1>0, <1>11 DEF Overlay, InCycle, CycleInv
  <2> DEFINE lay(r, tree) ==
          IF c.got[r] # None THEN [tree EXCEPT !.code = c.got[r]] ELSE tree
  <2>2. /\ shadow'[c.ver] = [r \in Root |-> Prune(lay(r, shadow[c.ver][r]))]
        /\ \A v \in Release \ {c.ver} : shadow'[v] = shadow[v]
    BY <1>0, <1>11, <2>1 DEF Overlay
  <2>3. /\ \A r \in Root : shadow[c.ver][r].code \in {live[r].code, None}
        /\ Fetched(c) /\ c.todo = {} /\ manifest[c.ver] = None
    BY <1>0, <2>1 DEF CodesInv
  <2>4. ASSUME NEW r \in Root
        PROVE  shadow'[c.ver][r].code \in {c.man, None}
    <3> DEFINE tree == shadow[c.ver][r]
    <3>1. tree \in Tree /\ tree.code \in {live[r].code, None}
      BY <1>0, <2>1, <2>3
    <3>2. /\ lay(r, tree).code \in {c.man, None}
          /\ DOMAIN lay(r, tree) = {"dir", "code", "prefs", "registry", "tracking"}
      <4>1. CASE c.got[r] # None
        <5>1. c.got[r] = c.man
          BY <2>3, <4>1 DEF Fetched
        <5>2. lay(r, tree) = [tree EXCEPT !.code = c.man]
          BY <4>1, <5>1
        <5> HIDE DEF lay
        <5>3. QED
          BY <3>1, <5>2 DEF Tree
      <4>2. CASE c.got[r] = None
        <5>1. live[r].code = c.man
          BY <1>0, <2>1, <2>3, <4>2 DEF Fetched, CycleInv
        <5>2. lay(r, tree) = tree
          BY <4>2
        <5> HIDE DEF lay
        <5>3. QED
          BY <3>1, <5>1, <5>2 DEF Tree
      <4>3. QED
        BY <4>1, <4>2
    <3>3. shadow'[c.ver][r] = Prune(lay(r, tree))
      BY <2>2
    <3> HIDE DEF lay
    <3>4. QED
      BY <3>2, <3>3 DEF Prune
  <2>5. CodesInv(t)'
    <3>1. cyc'[t].man = c.man /\ cyc'[t].ver = c.ver /\ cyc'[t].stage = "record"
      BY <1>0, <2>1 DEF CycleRecord
    <3>2. QED
      BY <2>1, <2>3, <2>4, <3>1 DEF CodesInv
  <2>6. QED
    BY <1>9, <2>1, <2>2, <2>5
<1>12. CASE RecordManifest(t) \/ FillManifest(t)
  <2>1. /\ c.stage \in {"record", "fill"} /\ c.ver \in Release
        /\ UNCHANGED <<live, shadow>>
        /\ \A v \in Release \ {c.ver} : manifest'[v] = manifest[v]
        /\ manifest'[c.ver] \in {Torn, c.man}
        /\ cyc'[t].stage \in {"fill", "marker"}
        /\ cyc'[t].ver = c.ver /\ cyc'[t].man = c.man
    BY <1>0, <1>12 DEF RecordManifest, FillManifest, InCycle, CycleInv, CycleRecord
  <2>2. \A r \in Root : Shadow(c.ver)'[r] \in {c.man, None}
    BY <1>0, <2>1 DEF CodesInv, Shadow
  <2>3. OneOf(c.ver)'
    BY <2>1, <2>2 DEF OneOf, Unmixed
  <2>4. \A v \in Release : manifest'[v] # None => OneOf(v)'
    BY <1>0, <2>1, <2>3, FewerOneOf
  <2>5. CodesInv(t)'
    BY <1>0, <2>1 DEF CodesInv
  <2>6. QED
    BY <2>1, <2>4, <2>5, CycleStagedGoal
<1>13. CASE WritePendingUpdate(t)
  <2>1. cyc'[t].stage = "finish" /\ UNCHANGED <<live, shadow, manifest>>
    BY <1>0, <1>13 DEF WritePendingUpdate, CycleRecord
  <2>2. QED
    BY <2>1, CycleStagedRead DEF CodesInv
<1>14. QED
  BY <1>1, <1>2, <1>3, <1>4, <1>5, <1>6, <1>7, <1>8, <1>10, <1>11, <1>12, <1>13
  DEF CycleStep

LEMMA StagedOne == Spec => []StagedOneInv
<1>1. TypeInv /\ OneCycleAtATime /\ RebootInv /\ StagedOneInv /\ [Next]_vars => StagedOneInv'
  <2> SUFFICES ASSUME StagedHyp, [Next]_vars
               PROVE  StagedOneInv'
    BY DEF StagedHyp
  <2>1. CASE UNCHANGED vars
    BY <2>1, CalmStaged DEF vars
  <2>2. QED
    BY <2>1, EnvironmentStaged, BootStaged, CycleStaged DEF Next
<1>2. QED
  BY <1>1, StagedInit, RebootInvariant, TypeInvariant, OneCycle, PTL DEF Spec

\* What startup begins to apply is never put together from two releases, and is of
\* the release whose manifest lies beside it, although startup looks only at whether
\* a directory and a file exist: wherever the process was killed, whatever calls
\* raised, in whatever order the cycles ran.
THEOREM AppliesOne == Spec => []AppliesOneRelease
<1>1. TypeInv /\ RebootInv /\ StagedOneInv => AppliesOneRelease
  <2> SUFFICES ASSUME TypeInv, RebootInv, StagedOneInv, proc = "deps",
                      NEW r \in Root, NEW s \in Root,
                      shadow[pending][r].code # None, shadow[pending][s].code # None
               PROVE  /\ shadow[pending][r].code = shadow[pending][s].code
                      /\ manifest[pending] \in {shadow[pending][r].code, Torn}
    BY DEF AppliesOneRelease
  <2>1. OneOf(pending)
    BY DEF TypeInv, Applying, RebootInv, Applicable, StagedOneInv
  <2>2. QED
    BY <2>1 DEF OneOf, Unmixed, Shadow
<1>2. QED
  BY <1>1, StagedOne, RebootInvariant, TypeInvariant, PTL

(***************************************************************************)
(* A swap that raises.  The process may be killed anywhere but inside the  *)
(* swap and its rollback, any file system call may raise but those of the  *)
(* rollback, and the host may go back to an older release.  Roots get lost *)
(* then, but what is whole is never of two releases.                       *)
(***************************************************************************)

\* The roots that the swap has put aside, or that its rollback has yet to restore.
PutAside(r) ==
    \/ proc = "swap" /\ (r < at.root \/ (r = at.root /\ at.step = "in"))
    \/ proc = "rollback" /\ r <= at.root

\* What the install was before the swap, and what it is to become.
Before == [r \in Root |-> IF PutAside(r) THEN backup[r].code ELSE live[r].code]
After == [r \in Root |-> IF r < at.root THEN live[r].code ELSE shadow[pending][r].code]

UnmixedInv ==
    /\ Unmixed(Before)
    /\ proc = "swap" => /\ Unmixed(After)
                        /\ at.step = "in" => live[at.root].code = None

RollbackUndisturbed ==
    CrashPhases \cap {"swap", "rollback"} = {} /\ "rollback" \notin FaultPhases

UnmixedHyp == RollbackUndisturbed /\ StagedHyp /\ UnmixedInv

LEMMA UnmixedGoal ==
    ASSUME Unmixed(Before'),
           proc' = "swap" => /\ Unmixed(After)'
                             /\ at'.step = "in" => live'[at'.root].code = None
    PROVE  UnmixedInv'
BY DEF UnmixedInv, Unmixed

LEMMA UnmixedInit == Init => UnmixedInv
<1> SUFFICES ASSUME Init
             PROVE  UnmixedInv
  OBVIOUS
<1>1. \A r \in Root : Before[r] = 1
  BY DEF Init, Installed, Before, PutAside
<1>2. QED
  BY <1>1 DEF Init, UnmixedInv, Unmixed

\* Steps outside the swap, and steps that leave it where it is, that keep the
\* codes of every root.
LEMMA CalmUnmixed ==
    ASSUME UnmixedHyp,
           \A r \in Root : live'[r].code = live[r].code,
           \/ proc \notin {"swap", "rollback"} /\ proc' \notin {"swap", "rollback"}
           \/ UNCHANGED <<backup, shadow, proc, at, pending>>
    PROVE  UnmixedInv'
<1>1. Before' = Before
  BY DEF Before, PutAside
<1>2. proc' = "swap" => After' = After /\ at' = at /\ proc = "swap"
  BY DEF After
<1>3. proc' = "swap" => Unmixed(After)' /\ (at'.step = "in" => live'[at'.root].code = None)
  BY <1>2 DEF UnmixedHyp, UnmixedInv, StagedHyp, TypeInv, Unmixed
<1>4. QED
  BY <1>1, <1>3 DEF UnmixedHyp, UnmixedInv, Unmixed

LEMMA CycleKeepsInstall ==
    ASSUME NEW t \in Task, CycleStep(t)
    PROVE  live' = live /\ backup' = backup
BY DEF CycleStep, FetchVersion, NetworkError, DiskError, GiveUpDownload, Raise, Fail,
   ManifestWithoutFiles, SkipDrift, NoChange, BeginStaging, PurgeManifest, Purged,
   PurgeTree, Download, RetryDownload, Downloaded, CopyLive, Overlay, RecordManifest,
   FillManifest, WritePendingUpdate, ReportStaged, install

LEMMA OtherUnmixed ==
    ASSUME UnmixedHyp,
           \/ \E r \in Release : Publish(r)
           \/ EditPrefs \/ SaveRegistry \/ Crash \/ Start
           \/ BeginScheduled \/ SkipScheduled
           \/ \E t \in Task : BeginTriggered(t) \/ CycleStep(t)
    PROVE  UnmixedInv'
<1> USE DEF install, staging, records, tasks
<1>1. CASE \E r \in Release : Publish(r)
  BY <1>1, CalmUnmixed DEF Publish
<1>2. CASE EditPrefs \/ SaveRegistry
  <2>0. live \in [Root -> Tree]
    BY DEF UnmixedHyp, StagedHyp, TypeInv, TypeOK
  <2>1. \A r \in Root : live'[r].code = live[r].code
    BY <1>2, <2>0 DEF EditPrefs, SaveRegistry, Tree
  <2>2. QED
    BY <1>2, <2>1, CalmUnmixed DEF EditPrefs, SaveRegistry
<1>3. CASE Start \/ SkipScheduled
  BY <1>3, CalmUnmixed DEF Start, SkipScheduled
<1>4. CASE Crash
  <2>1. proc \notin {"swap", "rollback"} /\ proc' = "down" /\ live' = live
    BY <1>4 DEF Crash, Kill, Phase, UnmixedHyp, RollbackUndisturbed
  <2>2. QED
    BY <2>1, CalmUnmixed
<1>5. CASE BeginScheduled \/ \E t \in Task : BeginTriggered(t)
  <2>1. proc = "run" /\ proc' = "run" /\ live' = live
    BY <1>5 DEF BeginScheduled, BeginTriggered, Enter
  <2>2. QED
    BY <2>1, CalmUnmixed
<1>6. CASE \E t \in Task : CycleStep(t)
  <2>1. proc = "run" /\ proc' = "run" /\ live' = live
    BY <1>6, CycleStepShape, CycleKeepsInstall DEF UnmixedHyp, StagedHyp
  <2>2. QED
    BY <2>1, CalmUnmixed
<1>7. QED
  BY <1>1, <1>2, <1>3, <1>4, <1>5, <1>6

\* A step may lose roots of the release that is there.
LEMMA LosingUnmixed ==
    ASSUME UnmixedHyp, \A r \in Root : Before'[r] \in {Before[r], None}
    PROVE  Unmixed(Before')
<1>1. Unmixed(Before)
  BY DEF UnmixedHyp, UnmixedInv
<1>2. QED
  BY <1>1, FewerUnmixed

LEMMA SwapUnmixed ==
    ASSUME UnmixedHyp, BootStep, DiscardBackup \/ MoveOut \/ SwapFault
    PROVE  UnmixedInv'
<1> DEFINE k == at.root
<1>0. /\ proc = "swap" /\ k \in Root /\ k \in Nat /\ \A r \in Root : r \in Nat
      /\ live \in [Root -> Tree] /\ backup \in [Root -> Tree]
      /\ at \in [root : 0 .. NumRoots, step : {"discard", "out", "in"}]
  BY ConstantFacts DEF UnmixedHyp, StagedHyp, TypeInv, TypeOK, DiscardBackup, MoveOut, SwapFault, FileError, AtSwap
<1>s. shadow' = shadow /\ pending' = pending
  BY DEF DiscardBackup, MoveOut, SwapFault, FileError, staging, records
<1>1. CASE DiscardBackup
  <2>1. at'.root = k /\ at'.step = "out" /\ at.step = "discard" /\ proc' = "swap" /\ live' = live
        /\ \A r \in Root : r # k => backup'[r] = backup[r]
    BY <1>0, <1>1 DEF DiscardBackup, AtSwap
  <2>2. Before' = Before
    BY <1>0, <2>1 DEF Before, PutAside
  <2>3. After' = After
    BY <1>s, <2>1 DEF After
  <2>4. Unmixed(After)'
    BY <1>0, <2>3 DEF UnmixedHyp, UnmixedInv, Unmixed
  <2>5. QED
    BY <1>s, <2>1, <2>2, <2>4, UnmixedGoal, LosingUnmixed
<1>2. CASE MoveOut
  <2>1. /\ at'.root = k /\ at'.step = "in" /\ at.step = "out" /\ proc' = "swap"
        /\ \A r \in Root : r # k => backup'[r] = backup[r] /\ live'[r] = live[r]
        /\ backup'[k] = live[k] /\ live'[k].code = None
    BY <1>0, <1>2 DEF MoveOut, AtSwap, NoTree
  <2>2. \A r \in Root : Before'[r] = Before[r]
    BY <1>0, <2>1 DEF Before, PutAside
  <2>3. \A r \in Root : After'[r] = After[r]
    BY <1>0, <1>s, <2>1 DEF After
  <2>4. Unmixed(After)'
    BY <1>0, <2>3 DEF UnmixedHyp, UnmixedInv, Unmixed
  <2>5. QED
    BY <1>s, <2>1, <2>2, <2>4, UnmixedGoal, LosingUnmixed
<1>3. CASE SwapFault
  <2>1. at'.root = k - 1 /\ proc' = "rollback" /\ UNCHANGED <<live, backup>>
    BY <1>0, <1>3 DEF SwapFault, FileError, install
  <2>2. \A r \in Root : r <= k - 1 <=> r < k
    BY <1>0
  <2>3. at.step = "in" => live[k].code = None
    BY <1>0 DEF UnmixedHyp, UnmixedInv
  <2>4. \A r \in Root : Before'[r] \in {Before[r], None}
    <3> TAKE r \in Root
    <3>1. CASE r < k
      BY <1>0, <2>1, <2>2, <3>1 DEF Before, PutAside
    <3>2. CASE r = k
      BY <1>0, <2>1, <2>2, <2>3, <3>2 DEF Before, PutAside
    <3>3. CASE r > k
      BY <1>0, <2>1, <2>2, <3>3 DEF Before, PutAside
    <3>4. QED
      BY <1>0, <3>1, <3>2, <3>3
  <2>5. QED
    BY <1>s, <2>1, <2>4, UnmixedGoal, LosingUnmixed
<1>4. QED
  BY <1>1, <1>2, <1>3

LEMMA MoveInUnmixed ==
    ASSUME UnmixedHyp, BootStep, MoveIn
    PROVE  UnmixedInv'
<1> DEFINE k == at.root
<1>0. /\ proc = "swap" /\ at.step = "in" /\ k \in Root /\ k \in Nat /\ \A r \in Root : r \in Nat
      /\ live \in [Root -> Tree] /\ shadow \in [Release -> [Root -> Tree]]
      /\ pending \in Release /\ pending' = pending /\ backup' = backup
  BY ConstantFacts DEF UnmixedHyp, StagedHyp, TypeInv, Applying, TypeOK, MoveIn, AtSwap, records
<1>1. Unmixed(After) /\ live[k].code = None
  BY <1>0 DEF UnmixedHyp, UnmixedInv
<1>2. /\ \A r \in Root : r # k => live'[r] = live[r]
      /\ live'[k].code \in {shadow[pending][k].code, None}
  BY <1>0 DEF MoveIn, EmptyTree, NoTree
<1>3. \A v \in Release, r \in Root :
          /\ shadow'[v][r].code \in {shadow[v][r].code, None}
          /\ v # pending \/ r # k => shadow'[v][r] = shadow[v][r]
  BY <1>0 DEF MoveIn, NoTree
<1>4. CASE k = NumRoots
  <2>1. proc' = "track"
    BY <1>4 DEF MoveIn
  <2>2. \A r \in Root : r # k => r < k
    BY <1>0, <1>4, ConstantFacts DEF Root
  <2>3. \A r \in Root : Before'[r] \in {After[r], None}
    BY <1>0, <1>2, <2>1, <2>2 DEF Before, PutAside, After
  <2>4. Unmixed(Before')
    BY <1>1, <2>3, FewerUnmixed
  <2>5. QED
    BY <1>3, <2>1, <2>4, UnmixedGoal
<1>5. CASE k # NumRoots
  <2>1. proc' = "swap" /\ at'.root = k + 1 /\ at'.step = "discard"
    BY <1>5 DEF MoveIn
  <2>2. \A r \in Root : r < k + 1 <=> r < k \/ r = k
    BY <1>0
  <2>3. \A r \in Root : Before'[r] = Before[r]
    BY <1>0, <1>2, <2>1, <2>2 DEF Before, PutAside
  <2>4. \A r \in Root : After'[r] \in {After[r], None}
    <3> TAKE r \in Root
    <3>1. CASE r < k
      BY <1>0, <1>2, <2>1, <2>2, <3>1 DEF After
    <3>2. CASE r = k
      BY <1>0, <1>2, <2>1, <2>2, <3>2 DEF After
    <3>3. CASE r > k
      BY <1>0, <1>3, <2>1, <2>2, <3>3 DEF After
    <3>4. QED
      BY <1>0, <3>1, <3>2, <3>3
  <2>5. Unmixed(After')
    BY <1>1, <2>4, FewerUnmixed
  <2>6. Unmixed(After)'
    BY <2>5 DEF Unmixed
  <2>7. QED
    BY <1>3, <2>1, <2>3, <2>6, UnmixedGoal, LosingUnmixed
<1>6. QED
  BY <1>4, <1>5


LEMMA RollbackUnmixed ==
    ASSUME UnmixedHyp, BootStep, RollbackDiscard \/ RollbackRestore \/ SwapFails
    PROVE  UnmixedInv'
<1> DEFINE k == at.root
<1>0. /\ proc = "rollback" /\ k \in 0 .. NumRoots /\ k \in Nat
      /\ \A r \in Root : r \in Nat /\ r >= 1
      /\ live \in [Root -> Tree] /\ backup \in [Root -> Tree] /\ shadow' = shadow
      /\ at \in [root : 0 .. NumRoots, step : {"discard", "out", "in"}]
  BY ConstantFacts
  DEF UnmixedHyp, StagedHyp, TypeInv, TypeOK, RollbackDiscard, RollbackRestore, SwapFails, staging, Root
<1>1. CASE RollbackDiscard
  <2>1. /\ proc' = "rollback" /\ at'.root = k /\ backup' = backup
        /\ \A r \in Root : r # k => live'[r] = live[r]
    BY <1>0, <1>1 DEF RollbackDiscard
  <2>2. \A r \in Root : Before'[r] = Before[r]
    BY <1>0, <2>1 DEF Before, PutAside
  <2>3. QED
    BY <1>0, <2>1, <2>2, UnmixedGoal, LosingUnmixed
<1>2. CASE RollbackRestore
  <2>1. /\ proc' = "rollback" /\ at'.root = k - 1 /\ k \in Root
        /\ \A r \in Root : r # k => live'[r] = live[r] /\ backup'[r] = backup[r]
        /\ live'[k] = backup[k]
    BY <1>0, <1>2 DEF RollbackRestore, RolledBack, Root
  <2>2. \A r \in Root : r <= k - 1 <=> r < k
    BY <1>0
  <2>3. \A r \in Root : Before'[r] = Before[r]
    <3> TAKE r \in Root
    <3>1. CASE r < k
      BY <1>0, <2>1, <2>2, <3>1 DEF Before, PutAside
    <3>2. CASE r = k
      BY <1>0, <2>1, <2>2, <3>2 DEF Before, PutAside
    <3>3. CASE r > k
      BY <1>0, <2>1, <2>2, <3>3 DEF Before, PutAside
    <3>4. QED
      BY <1>0, <3>1, <3>2, <3>3
  <2>4. QED
    BY <1>0, <2>1, <2>3, UnmixedGoal, LosingUnmixed
<1>3. CASE SwapFails
  <2>1. proc' = "run" /\ k = 0 /\ UNCHANGED <<live, backup>>
    BY <1>3 DEF SwapFails, RolledBack, install
  <2>2. \A r \in Root : Before'[r] = Before[r]
    BY <1>0, <2>1 DEF Before, PutAside
  <2>3. QED
    BY <1>0, <2>1, <2>2, UnmixedGoal, LosingUnmixed
<1>4. QED
  BY <1>1, <1>2, <1>3

\* What startup begins to move in has a manifest beside it, so it is of one release.
LEMMA SyncUnmixed ==
    ASSUME UnmixedHyp, BootStep, SyncDependencies
    PROVE  UnmixedInv'
<1>1. /\ proc = "deps" /\ proc' = "swap" /\ pending' = pending
      /\ UNCHANGED <<live, backup, shadow>>
      /\ at'.root = 1 /\ at'.step = "discard"
  BY DEF SyncDependencies, UnmixedHyp, StagedHyp, TypeInv, install, staging, records
<1>2. Unmixed(Shadow(pending))
  BY <1>1 DEF UnmixedHyp, StagedHyp, StagedOneInv, OneOf, TypeInv, Applying, RebootInv,
     Applicable
<1>3. \A r \in Root : ~(r < 1)
  BY DEF Root
<1>4. \A r \in Root : Before'[r] = Before[r] /\ After'[r] = Shadow(pending)[r]
  BY <1>1, <1>3 DEF Before, PutAside, After, Shadow
<1>5. Unmixed(After')
  BY <1>2, <1>4, FewerUnmixed
<1>6. Unmixed(After)'
  BY <1>5 DEF Unmixed
<1>7. QED
  BY <1>1, <1>4, <1>6, UnmixedGoal, LosingUnmixed

LEMMA BootUnmixed ==
    ASSUME UnmixedHyp, BootStep
    PROVE  UnmixedInv'
<1> USE DEF install, staging, records, tasks
<1>1. CASE \/ NothingPending \/ DropUnusable \/ BeginApply \/ SyncFails \/ TrackingFails
           \/ ClearPendingUpdate \/ ReportApplied
  BY <1>1, CalmUnmixed
  DEF NothingPending, DropUnusable, BeginApply, SyncFails, TrackingFails,
      ClearPendingUpdate, ReportApplied
<1>2. CASE WriteTrackingFiles
  <2>1. \A r \in Root : live'[r].code = live[r].code
    BY <1>2 DEF WriteTrackingFiles, UnmixedHyp, StagedHyp, TypeInv, TypeOK, Tree
  <2>2. QED
    BY <1>2, <2>1, CalmUnmixed DEF WriteTrackingFiles
<1>3. CASE BootError
  <2>1. proc \notin {"swap", "rollback"} /\ proc' = "run" /\ live' = live
    BY <1>3 DEF BootError, FileError, UnmixedHyp, RollbackUndisturbed
  <2>2. QED
    BY <2>1, CalmUnmixed
<1>4. QED
  BY <1>1, <1>2, <1>3, SyncUnmixed, SwapUnmixed, MoveInUnmixed, RollbackUnmixed DEF BootStep

\* Whatever calls raise outside the rollback, wherever outside the swap and its
\* rollback the process is killed and whatever the host serves, the roots that are
\* whole belong to one release whenever the agent polls.
THEOREM NeverMixedUnderFaults ==
    ASSUME RollbackUndisturbed
    PROVE  Spec => []NeverMixed
<1>1. UnmixedHyp /\ [Next]_vars => UnmixedInv'
  <2> SUFFICES ASSUME UnmixedHyp, [Next]_vars
               PROVE  UnmixedInv'
    OBVIOUS
  <2>1. CASE UNCHANGED vars
    BY <2>1, CalmUnmixed DEF vars
  <2>2. QED
    BY <2>1, OtherUnmixed, BootUnmixed DEF Next
<1>2. TypeInv /\ OneCycleAtATime /\ RebootInv /\ StagedOneInv /\ UnmixedInv /\ [Next]_vars
        => UnmixedInv'
  BY <1>1 DEF UnmixedHyp, StagedHyp
<1>3. UnmixedInv => NeverMixed
  BY DEF UnmixedInv, Unmixed, Before, PutAside, NeverMixed
<1>4. QED
  BY <1>2, <1>3, UnmixedInit, StagedOne, RebootInvariant, TypeInvariant, OneCycle, PTL DEF Spec

=============================================================================
