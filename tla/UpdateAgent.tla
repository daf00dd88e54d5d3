----------------------------- MODULE UpdateAgent -----------------------------
(***************************************************************************)
(* The BellForge updater (updater/agent.py): a process that polls a static *)
(* host for a newer release, stages it in a shadow tree, and swaps the     *)
(* staged tree into the live install the next time it starts.              *)
(*                                                                         *)
(* One file system entry is one managed root (a top-level directory of the *)
(* install): a root is complete for one release, or it is not.  Every file *)
(* system call that a crash can separate from the next one is a step of    *)
(* its own.  Two kinds of activity share the process:                      *)
(*   - the boot path, which runs once before the polling loop and never    *)
(*     yields to the event loop (variable proc);                           *)
(*   - update cycles, started by the polling loop and by trigger           *)
(*     connections, which yield at every network call (variable cyc).      *)
(***************************************************************************)
EXTENDS Naturals, FiniteSets

CONSTANTS
    NumRoots,      \* managed roots, numbered in the order the agent sorts them
    ConfigRoot,    \* the root "config": version.json and the device's own files
    AgentRoot,     \* the root "updater": the code this process is started from
    MaxRelease,    \* releases are numbered in version order; 1 is installed first
    Scheduler,     \* the polling loop of run_forever, as a task
    Triggers,      \* the background tasks of trigger connections
    NoTask,        \* nobody holds the cycle lock
    MaxRetries,    \* settings.max_retries
    Withdrawals,   \* may the host go back to an older release?
    CrashPhases,   \* the phases in which the process may be killed
    FaultPhases,   \* the phases in which a file system call may raise
    MaxCrashes,    \* bound on kills
    MaxFaults,     \* bound on file system errors
    MaxEdits       \* bound on writes to the device's own files in config/

Root == 1 .. NumRoots
Release == 1 .. MaxRelease
None == 0                            \* no release: an absent file or tree
Torn == MaxRelease + 1               \* a manifest.json that is half written
Task == {Scheduler} \cup Triggers

ASSUME RootAssumption ==
    /\ NumRoots \in Nat
    /\ ConfigRoot \in Root
    /\ AgentRoot \in Root

ASSUME ReleaseAssumption == MaxRelease \in Nat \ {0}

ASSUME TaskAssumption == NoTask \notin Task

ASSUME BoundAssumption ==
    /\ MaxRetries \in Nat \ {0}
    /\ Withdrawals \in BOOLEAN
    /\ MaxCrashes \in Nat
    /\ MaxFaults \in Nat
    /\ MaxEdits \in Nat

VARIABLES
    remote,     \* the release the update host serves
    live,       \* the install: the tree of each managed root
    backup,     \* .staging/swap/backup
    shadow,     \* .staging/releases/<version>/shadow, by version
    built,      \* does that shadow directory exist?
    manifest,   \* .staging/releases/<version>/manifest.json: whose files it lists
    pending,    \* .staging/pending_update.json: the release to apply at startup
    st,         \* .staging/state.json: the state shown and its reboot_pending
    last,       \* .staging/last_update_result.json: the result
    proc,       \* where the process is: down, on the boot path, or polling
    at,         \* the boot path's position in the loop over the roots
    lock,       \* the task that holds _cycle_lock
    cyc,        \* the local variables of each task's update cycle
    sched,      \* what run_forever is doing
    attempt,    \* its retry counter
    crashes, faults, edits          \* what the bounds have left

install == <<live, backup>>
staging == <<shadow, built, manifest>>
records == <<pending, st, last>>
tasks == <<lock, cyc, sched, attempt>>
bounds == <<crashes, faults, edits>>
vars == <<remote, live, backup, shadow, built, manifest, pending, st, last,
          proc, at, lock, cyc, sched, attempt, crashes, faults, edits>>

-----------------------------------------------------------------------------
(* The trees of the managed roots.                                         *)

\* code: the release whose files are all in the tree (None if some are not);
\* prefs: the edition of the preserved local files (settings.json, client.env);
\* registry: the edition of the other files the backend keeps in config/
\* (auth_registry.json, control_server.json, status_layout.json);
\* tracking: the release that config/manifest.json lists.
Tree == [dir : BOOLEAN, code : 0 .. MaxRelease, prefs : Nat, registry : Nat,
         tracking : 0 .. MaxRelease]

NoTree == [dir |-> FALSE, code |-> None, prefs |-> 0, registry |-> 0,
           tracking |-> None]

EmptyTree == [NoTree EXCEPT !.dir = TRUE]

Installed(r) ==
    [dir |-> TRUE, code |-> 1, tracking |-> IF r = ConfigRoot THEN 1 ELSE None,
     prefs |-> IF r = ConfigRoot THEN 1 ELSE 0,
     registry |-> IF r = ConfigRoot THEN 1 ELSE 0]

\* _local_version: version.json is one of the files of config/.
LocalVersion == live[ConfigRoot].code

\* The files that differ from the manifest of release m, by root.
ChangedFiles(m) == {r \in Root : live[r].code # m}

BootPhases == {"boot", "deps", "swap", "rollback", "track", "clear", "report"}
Stages == {"idle", "version", "manifest", "purge", "download", "copy",
           "overlay", "record", "fill", "marker", "finish"}

\* The phases in which a kill or a file system error leaves the install or a staged
\* release in pieces that the next start cannot tell from whole ones.
FragilePhases == {"purge", "fill", "swap", "rollback", "track", "clear"}

States == {"none", "checking", "downloading", "staging", "staged", "applying",
           "idle", "failed"}
Results == {"none", "failed", "no-change", "same-version-drift-skipped",
            "non-newer-version-drift-skipped", "staged", "success"}

\* The attempts of _download_verified_file on one file.
Attempts == IF MaxRetries + 1 > 2 THEN MaxRetries + 1 ELSE 2

NoCycle == [stage |-> "idle", cur |-> None, ver |-> None, man |-> None,
            todo |-> {}, got |-> [r \in Root |-> None], tries |-> 0]

WriteState(s, reboot) == st' = [state |-> s, reboot |-> reboot]

\* What a kill of the process would interrupt.
Phase ==
    IF proc # "run" THEN proc
    ELSE IF lock = NoTask THEN "run" ELSE cyc[lock].stage

Init ==
    /\ remote = 1
    /\ live = [r \in Root |-> Installed(r)]
    /\ backup = [r \in Root |-> NoTree]
    /\ shadow = [v \in Release |-> [r \in Root |-> NoTree]]
    /\ built = [v \in Release |-> FALSE]
    /\ manifest = [v \in Release |-> None]
    /\ pending = None
    /\ st = [state |-> "none", reboot |-> FALSE]
    /\ last = "none"
    /\ proc = "down"
    /\ at = [root |-> 1, step |-> "discard"]
    /\ lock = NoTask
    /\ cyc = [t \in Task |-> NoCycle]
    /\ sched = "start"
    /\ attempt = 1
    /\ crashes = 0 /\ faults = 0 /\ edits = 0

-----------------------------------------------------------------------------
(* The environment: the update host, the backend that owns the device's    *)
(* local files, and whatever kills the process.                            *)

Publish(r) ==
    /\ r # remote
    /\ Withdrawals \/ r > remote
    /\ remote' = r
    /\ UNCHANGED <<install, staging, records, proc, at, tasks, bounds>>

\* The backend saves a preserved file of config/ (display preferences in
\* client.env, settings.json) or one of its registries there.
EditPrefs ==
    /\ edits < MaxEdits
    /\ live[ConfigRoot].prefs # 0
    /\ live' = [live EXCEPT ![ConfigRoot].prefs = @ + 1]
    /\ edits' = edits + 1
    /\ UNCHANGED <<remote, backup, staging, records, proc, at, tasks,
                   crashes, faults>>

SaveRegistry ==
    /\ edits < MaxEdits
    /\ live[ConfigRoot].dir
    /\ live' = [live EXCEPT ![ConfigRoot].registry = @ + 1]
    /\ edits' = edits + 1
    /\ UNCHANGED <<remote, backup, staging, records, proc, at, tasks,
                   crashes, faults>>

\* Everything the process keeps in memory is gone; the files stay.
Kill ==
    /\ proc # "down"
    /\ proc' = "down"
    /\ at' = [root |-> 1, step |-> "discard"]
    /\ lock' = NoTask
    /\ cyc' = [t \in Task |-> NoCycle]
    /\ sched' = "start"
    /\ attempt' = 1
    /\ UNCHANGED <<remote, install, staging, records>>

\* Power loss, a reboot, "systemctl restart", the OOM killer.
Crash ==
    /\ crashes < MaxCrashes
    /\ Phase \in CrashPhases
    /\ Kill
    /\ crashes' = crashes + 1
    /\ UNCHANGED <<faults, edits>>

\* A file system call raises: a full, read-only or damaged disk.
FileError(phase) ==
    /\ phase \in FaultPhases
    /\ faults < MaxFaults
    /\ faults' = faults + 1
    /\ UNCHANGED <<crashes, edits>>

\* The process needs its own code and settings.json.
Startable == live[AgentRoot].code # None /\ live[ConfigRoot].prefs # 0

\* systemd starts the unit.
Start ==
    /\ proc = "down"
    /\ Startable
    /\ proc' = "boot"
    /\ UNCHANGED <<remote, install, staging, records, at, tasks, bounds>>

-----------------------------------------------------------------------------
(* _apply_pending_release_if_present, on the boot path.                    *)

\* Variant: the recorded manifest is not looked for.
Applicable_DirOnly(v) == built[v]

\* The checks a pending release must pass before it is applied.
Applicable(v) == built[v] /\ manifest[v] # None

NothingPending ==
    /\ proc = "boot"
    /\ pending = None
    /\ proc' = "run"
    /\ UNCHANGED <<remote, install, staging, records, at, tasks, bounds>>

DropUnusable ==
    /\ proc = "boot"
    /\ pending # None
    /\ ~Applicable(pending)
    /\ pending' = None
    /\ proc' = "run"
    /\ UNCHANGED <<remote, install, staging, st, last, at, tasks, bounds>>

BeginApply ==
    /\ proc = "boot"
    /\ pending # None
    /\ Applicable(pending)
    /\ WriteState("applying", FALSE)
    /\ proc' = "deps"
    /\ UNCHANGED <<remote, install, staging, pending, last, at, tasks, bounds>>

SyncDependencies ==
    /\ proc = "deps"
    /\ proc' = "swap"
    /\ UNCHANGED <<remote, install, staging, records, at, tasks, bounds>>

\* pip fails: the release stays pending and the process goes on polling.
SyncFails ==
    /\ proc = "deps"
    /\ WriteState("failed", TRUE)
    /\ last' = "failed"
    /\ proc' = "run"
    /\ UNCHANGED <<remote, install, staging, pending, at, tasks, bounds>>

\* _atomic_swap_roots, one file system call at a time.
AtSwap(s) == proc = "swap" /\ at.step = s

DiscardBackup ==
    /\ AtSwap("discard")
    /\ backup' = [backup EXCEPT ![at.root] = NoTree]
    /\ at' = [at EXCEPT !.step = "out"]
    /\ UNCHANGED <<remote, live, staging, records, proc, tasks, bounds>>

MoveOut ==
    /\ AtSwap("out")
    /\ backup' = [backup EXCEPT ![at.root] = live[at.root]]
    /\ live' = [live EXCEPT ![at.root] = NoTree]
    /\ at' = [at EXCEPT !.step = "in"]
    /\ UNCHANGED <<remote, staging, records, proc, tasks, bounds>>

\* A root with no shadow becomes an empty directory.
MoveIn ==
    /\ AtSwap("in")
    /\ LET tree == shadow[pending][at.root]
       IN  live' = [live EXCEPT ![at.root] = IF tree.dir THEN tree ELSE EmptyTree]
    /\ shadow' = [shadow EXCEPT ![pending][at.root] = NoTree]
    /\ IF at.root = NumRoots
       THEN /\ proc' = "track"
            /\ at' = [root |-> 1, step |-> "discard"]
       ELSE /\ proc' = "swap"
            /\ at' = [root |-> at.root + 1, step |-> "discard"]
    /\ UNCHANGED <<remote, backup, built, manifest, records, tasks, bounds>>

\* A file system call of the swap raises: the roots before at.root, the ones
\* in "swapped", are rolled back in reverse order.
SwapFault ==
    /\ proc = "swap"
    /\ FileError("swap")
    /\ proc' = "rollback"
    /\ at' = [root |-> at.root - 1, step |-> "discard"]
    /\ UNCHANGED <<remote, install, staging, records, tasks>>

\* Variant: the loop over "swapped" stops one root early.
RolledBack_OneShort == at.root <= 1

RolledBack == at.root = 0

RollbackDiscard ==
    /\ proc = "rollback"
    /\ ~RolledBack
    /\ at.step = "discard"
    /\ live' = [live EXCEPT ![at.root] = NoTree]
    /\ at' = [at EXCEPT !.step = "in"]
    /\ UNCHANGED <<remote, backup, staging, records, proc, tasks, bounds>>

RollbackRestore ==
    /\ proc = "rollback"
    /\ ~RolledBack
    /\ at.step = "in"
    /\ live' = [live EXCEPT ![at.root] = backup[at.root]]
    /\ backup' = [backup EXCEPT ![at.root] = NoTree]
    /\ at' = [root |-> at.root - 1, step |-> "discard"]
    /\ UNCHANGED <<remote, staging, records, proc, tasks, bounds>>

\* The exception reaches run_forever, which logs it and goes on polling.
SwapFails ==
    /\ proc = "rollback"
    /\ RolledBack
    /\ proc' = "run"
    /\ at' = [root |-> 1, step |-> "discard"]
    /\ UNCHANGED <<remote, install, staging, records, tasks, bounds>>

\* Variant: the release is taken to be the one its version names.
TrackedRelease_ByVersion == pending

\* The manifest that was recorded when the release was staged.
TrackedRelease == manifest[pending]

WriteTrackingFiles ==
    /\ proc = "track"
    /\ manifest[pending] # Torn
    /\ live' = [live EXCEPT ![ConfigRoot].tracking = TrackedRelease,
                            ![ConfigRoot].dir = TRUE]
    /\ proc' = "clear"
    /\ UNCHANGED <<remote, backup, staging, records, at, tasks, bounds>>

\* The recorded manifest does not parse: the swap is done, the marker stays.
TrackingFails ==
    /\ proc = "track"
    /\ manifest[pending] = Torn
    /\ proc' = "run"
    /\ UNCHANGED <<remote, install, staging, records, at, tasks, bounds>>

ClearPendingUpdate ==
    /\ proc = "clear"
    /\ pending' = None
    /\ proc' = "report"
    /\ UNCHANGED <<remote, install, staging, st, last, at, tasks, bounds>>

ReportApplied ==
    /\ proc = "report"
    /\ WriteState("idle", FALSE)
    /\ last' = "success"
    /\ proc' = "run"
    /\ UNCHANGED <<remote, install, staging, pending, at, tasks, bounds>>

\* A file system call raises elsewhere on the boot path, in the rollback too: what
\* was done stays done, and run_forever goes on polling.
BootError ==
    /\ proc \in BootPhases \ {"swap"}
    /\ FileError(proc)
    /\ proc' = "run"
    /\ at' = [root |-> 1, step |-> "discard"]
    /\ UNCHANGED <<remote, install, staging, records, tasks>>

-----------------------------------------------------------------------------
(* _run_update_cycle_locked.  The lock is not re-tested by these actions:  *)
(* the code does not either, so that two cycles could interleave if        *)
(* run_update_cycle let them both in.                                      *)

InCycle(t, s) == proc = "run" /\ cyc[t].stage = s

\* Variant: the lock is not given back.
Leave_Locked(t, next) ==
    /\ lock' = lock
    /\ cyc' = [cyc EXCEPT ![t] = NoCycle]
    /\ IF t = Scheduler THEN sched' = next ELSE sched' = sched

\* Leaving "async with self._cycle_lock", for the loop or for a trigger's task.
Leave(t, next) ==
    /\ lock' = NoTask
    /\ cyc' = [cyc EXCEPT ![t] = NoCycle]
    /\ IF t = Scheduler THEN sched' = next ELSE sched' = sched

\* The cycle returns: a success for run_forever, whatever it found.
Return(t) ==
    /\ Leave(t, "poll")
    /\ attempt' = IF t = Scheduler THEN 1 ELSE attempt

\* Variant: after its last attempt the loop waits for a cycle nobody runs.
AfterFailure_Stuck(again) == IF again THEN "retry" ELSE "cycle"

\* The pause before the next attempt, or before the next poll.
AfterFailure(again) == IF again THEN "retry" ELSE "poll"

\* The cycle raises: run_forever retries after a pause, or waits for the next
\* poll when its attempts are used up; a trigger's task only records it.
Fail(t) ==
    /\ WriteState("failed", FALSE)
    /\ last' = "failed"
    /\ LET again == attempt < MaxRetries
       IN  /\ Leave(t, AfterFailure(again))
           /\ attempt' = IF t # Scheduler THEN attempt
                         ELSE IF again THEN attempt + 1 ELSE 1
    /\ UNCHANGED <<remote, install, staging, pending, proc, at>>

Raise(t) == Fail(t) /\ UNCHANGED bounds

\* Variant: no test of the lock.
LockFree_Unchecked == TRUE

LockFree == lock = NoTask

\* Variant: the announced reboot is carried over into the next check.
CheckingState_KeepsReboot == [state |-> "checking", reboot |-> st.reboot]

CheckingState == [state |-> "checking", reboot |-> FALSE]

\* run_update_cycle finds the lock free: nothing is awaited between the test
\* and the first write of the cycle.
Enter(t) ==
    /\ LockFree
    /\ lock' = t
    /\ cyc' = [cyc EXCEPT ![t] = [NoCycle EXCEPT !.stage = "version",
                                                 !.cur = LocalVersion]]
    /\ st' = CheckingState
    /\ UNCHANGED <<remote, install, staging, pending, last, proc, at, bounds>>

\* The polling loop: at once after the boot path, then after each sleep.
BeginScheduled ==
    /\ proc = "run"
    /\ sched # "cycle"
    /\ Enter(Scheduler)
    /\ sched' = "cycle"
    /\ UNCHANGED attempt

\* A cycle is in flight: this one is skipped, and counts as a success.
SkipScheduled ==
    /\ proc = "run"
    /\ sched # "cycle"
    /\ ~LockFree
    /\ sched' = "poll"
    /\ attempt' = 1
    /\ UNCHANGED <<remote, install, staging, records, proc, at, lock, cyc, bounds>>

\* POST /trigger-update; the listener answers once the loop has started, and a
\* trigger that finds the lock taken is accepted and does nothing.
BeginTriggered(t) ==
    /\ proc = "run"
    /\ sched # "start"
    /\ t \in Triggers
    /\ cyc[t].stage = "idle"
    /\ Enter(t)
    /\ UNCHANGED <<sched, attempt>>

FetchVersion(t) ==
    /\ InCycle(t, "version")
    /\ cyc' = [cyc EXCEPT ![t].ver = remote, ![t].stage = "manifest"]
    /\ UNCHANGED <<remote, install, staging, records, proc, at, lock, sched,
                   attempt, bounds>>

\* A request of the cycle fails; a download is not retried by this.
NetworkError(t) ==
    /\ proc = "run"
    /\ cyc[t].stage \in {"version", "manifest", "download"}
    /\ cyc[t].stage = "download" => cyc[t].todo # {}
    /\ Raise(t)

\* A file system call of the cycle raises; what it had deleted, copied or written
\* by then stays on disk.
DiskError(t) ==
    /\ proc = "run"
    /\ cyc[t].stage # "idle"
    /\ FileError(cyc[t].stage)
    /\ Fail(t)

ManifestWithoutFiles(t) ==
    /\ InCycle(t, "manifest")
    /\ WriteState("failed", FALSE)
    /\ last' = "failed"
    /\ Return(t)
    /\ UNCHANGED <<remote, install, staging, pending, proc, at, bounds>>

\* Variant: the installed version counts as newer.
HasNewerVersion_OrEqual(t) == cyc[t].ver >= cyc[t].cur

HasNewerVersion(t) == cyc[t].ver > cyc[t].cur

SkipDrift(t) ==
    /\ InCycle(t, "manifest")
    /\ ChangedFiles(remote) # {}
    /\ ~HasNewerVersion(t)
    /\ WriteState("idle", FALSE)
    /\ last' = IF cyc[t].ver = cyc[t].cur THEN "same-version-drift-skipped"
               ELSE "non-newer-version-drift-skipped"
    /\ Return(t)
    /\ UNCHANGED <<remote, install, staging, pending, proc, at, bounds>>

NoChange(t) ==
    /\ InCycle(t, "manifest")
    /\ ChangedFiles(remote) = {}
    /\ ~HasNewerVersion(t)
    /\ WriteState("idle", FALSE)
    /\ last' = "no-change"
    /\ Return(t)
    /\ UNCHANGED <<remote, install, staging, pending, proc, at, bounds>>

\* The version is newer: stage the files of the manifest just fetched.
BeginStaging(t) ==
    /\ InCycle(t, "manifest")
    /\ HasNewerVersion(t)
    /\ cyc' = [cyc EXCEPT ![t].man = remote, ![t].todo = ChangedFiles(remote),
                          ![t].stage = "purge"]
    /\ UNCHANGED <<remote, install, staging, records, proc, at, lock, sched,
                   attempt, bounds>>

\* What one more call of rmtree leaves of a tree: some files of the release or the
\* preserved ones are gone, or the last entry and the directory with it.
LessOf(tree) ==
    {[tree EXCEPT !.code = None], [tree EXCEPT !.prefs = 0], NoTree} \ {tree}

\* shutil.rmtree(release_dir): its entries go one at a time, in any order.
PurgeTree(t, r) ==
    /\ InCycle(t, "purge")
    /\ shadow[cyc[t].ver][r].dir
    /\ \E rest \in LessOf(shadow[cyc[t].ver][r]) :
         shadow' = [shadow EXCEPT ![cyc[t].ver][r] = rest]
    /\ UNCHANGED <<remote, install, built, manifest, records, proc, at, tasks,
                   bounds>>

PurgeManifest(t) ==
    /\ InCycle(t, "purge")
    /\ manifest[cyc[t].ver] # None
    /\ manifest' = [manifest EXCEPT ![cyc[t].ver] = None]
    /\ UNCHANGED <<remote, install, shadow, built, records, proc, at, tasks,
                   bounds>>

Purged(t) ==
    /\ InCycle(t, "purge")
    /\ \A r \in Root : ~shadow[cyc[t].ver][r].dir
    /\ manifest[cyc[t].ver] = None
    /\ built' = [built EXCEPT ![cyc[t].ver] = FALSE]
    /\ WriteState("downloading", FALSE)
    /\ cyc' = [cyc EXCEPT ![t].stage = "download"]
    /\ UNCHANGED <<remote, install, shadow, manifest, pending, last, proc, at,
                   lock, sched, attempt, bounds>>

\* The files are fetched in manifest order; what arrives belongs to the release
\* the host serves now, and is kept if its hash is the manifest's.
IsNext(t, r) == r \in cyc[t].todo /\ \A s \in cyc[t].todo : r <= s

\* Variant: the hash is not compared.
HashMatches_Unchecked(t) == TRUE

HashMatches(t) == remote = cyc[t].man

Download(t, r) ==
    /\ InCycle(t, "download")
    /\ IsNext(t, r)
    /\ HashMatches(t)
    /\ cyc' = [cyc EXCEPT ![t].todo = @ \ {r}, ![t].got[r] = remote, ![t].tries = 0]
    /\ UNCHANGED <<remote, install, staging, records, proc, at, lock, sched,
                   attempt, bounds>>

\* Variant: no limit on the attempts.
CanRetry_Unlimited(t) == TRUE

CanRetry(t) == cyc[t].tries + 1 < Attempts

\* Variant: a mismatch begins the download again with its first file.
RetryDownload_FromStart(t) ==
    /\ InCycle(t, "download")
    /\ cyc[t].todo # {}
    /\ CanRetry(t)
    /\ cyc' = [cyc EXCEPT ![t].todo = ChangedFiles(cyc[t].man),
                          ![t].tries = @ + 1]
    /\ UNCHANGED <<remote, install, staging, records, proc, at, lock, sched,
                   attempt, bounds>>

\* A mismatch, from a release that moved on or a payload damaged on the way.
RetryDownload(t) ==
    /\ InCycle(t, "download")
    /\ cyc[t].todo # {}
    /\ CanRetry(t)
    /\ cyc' = [cyc EXCEPT ![t].tries = @ + 1]
    /\ UNCHANGED <<remote, install, staging, records, proc, at, lock, sched,
                   attempt, bounds>>

GiveUpDownload(t) ==
    /\ InCycle(t, "download")
    /\ cyc[t].todo # {}
    /\ ~CanRetry(t)
    /\ Raise(t)

Downloaded(t) ==
    /\ InCycle(t, "download")
    /\ cyc[t].todo = {}
    /\ WriteState("staging", FALSE)
    /\ cyc' = [cyc EXCEPT ![t].stage = "copy"]
    /\ UNCHANGED <<remote, install, staging, pending, last, proc, at, lock,
                   sched, attempt, bounds>>

\* _build_shadow_tree: copy the live roots (one step: until a manifest is recorded
\* beside it, no start looks at a tree, however much of it is there), then lay the
\* downloads over them and delete what the manifest does not list.
CopyLive(t) ==
    /\ InCycle(t, "copy")
    /\ built' = [built EXCEPT ![cyc[t].ver] = TRUE]
    /\ shadow' = [shadow EXCEPT ![cyc[t].ver] =
                     [r \in Root |-> IF live[r].dir THEN live[r] ELSE EmptyTree]]
    /\ cyc' = [cyc EXCEPT ![t].stage = "overlay"]
    /\ UNCHANGED <<remote, install, manifest, records, proc, at, lock, sched,
                   attempt, bounds>>

\* Variant: preserve_local_paths is not looked at.
Prune_Everything(tree) ==
    [tree EXCEPT !.prefs = 0, !.registry = 0, !.tracking = None]

\* The preserved local files stay; the other untracked ones are deleted.
Prune(tree) == [tree EXCEPT !.registry = 0, !.tracking = None]

Overlay(t) ==
    /\ InCycle(t, "overlay")
    /\ LET lay(r, tree) ==
             IF cyc[t].got[r] # None THEN [tree EXCEPT !.code = cyc[t].got[r]]
             ELSE tree
       IN  shadow' = [shadow EXCEPT ![cyc[t].ver] =
                         [r \in Root |-> Prune(lay(r, @[r]))]]
    /\ cyc' = [cyc EXCEPT ![t].stage = "record"]
    /\ UNCHANGED <<remote, install, built, manifest, records, proc, at, lock,
                   sched, attempt, bounds>>

\* The release's own manifest.json is not written atomically: it is created,
\* then filled.
RecordManifest(t) ==
    /\ InCycle(t, "record")
    /\ manifest' = [manifest EXCEPT ![cyc[t].ver] = Torn]
    /\ cyc' = [cyc EXCEPT ![t].stage = "fill"]
    /\ UNCHANGED <<remote, install, shadow, built, records, proc, at, lock,
                   sched, attempt, bounds>>

FillManifest(t) ==
    /\ InCycle(t, "fill")
    /\ manifest' = [manifest EXCEPT ![cyc[t].ver] = cyc[t].man]
    /\ cyc' = [cyc EXCEPT ![t].stage = "marker"]
    /\ UNCHANGED <<remote, install, shadow, built, records, proc, at, lock,
                   sched, attempt, bounds>>

WritePendingUpdate(t) ==
    /\ InCycle(t, "marker")
    /\ pending' = cyc[t].ver
    /\ cyc' = [cyc EXCEPT ![t].stage = "finish"]
    /\ UNCHANGED <<remote, install, staging, st, last, proc, at, lock, sched,
                   attempt, bounds>>

ReportStaged(t) ==
    /\ InCycle(t, "finish")
    /\ WriteState("staged", TRUE)
    /\ last' = "staged"
    /\ Return(t)
    /\ UNCHANGED <<remote, install, staging, pending, proc, at, bounds>>

-----------------------------------------------------------------------------

BootStep ==
    \/ NothingPending \/ DropUnusable \/ BeginApply
    \/ SyncDependencies \/ SyncFails
    \/ DiscardBackup \/ MoveOut \/ MoveIn
    \/ SwapFault \/ RollbackDiscard \/ RollbackRestore \/ SwapFails \/ BootError
    \/ WriteTrackingFiles \/ TrackingFails \/ ClearPendingUpdate \/ ReportApplied

CycleStep(t) ==
    \/ FetchVersion(t) \/ NetworkError(t) \/ DiskError(t)
    \/ ManifestWithoutFiles(t) \/ SkipDrift(t) \/ NoChange(t) \/ BeginStaging(t)
    \/ PurgeManifest(t) \/ Purged(t)
    \/ \E r \in Root : PurgeTree(t, r) \/ Download(t, r)
    \/ RetryDownload(t) \/ GiveUpDownload(t) \/ Downloaded(t)
    \/ CopyLive(t) \/ Overlay(t) \/ RecordManifest(t) \/ FillManifest(t)
    \/ WritePendingUpdate(t) \/ ReportStaged(t)

Next ==
    \/ \E r \in Release : Publish(r)
    \/ EditPrefs \/ SaveRegistry
    \/ Crash \/ Start
    \/ BootStep
    \/ BeginScheduled \/ SkipScheduled
    \/ \E t \in Task : BeginTriggered(t) \/ CycleStep(t)

Spec == Init /\ [][Next]_vars

-----------------------------------------------------------------------------
(* Fairness: the process and its event loop keep running, systemd restarts *)
(* the unit, and a request that is made again and again, by whichever task,*)
(* gets through once.                                                      *)

Progress(t) ==
    \/ PurgeManifest(t) \/ Purged(t)
    \/ \E r \in Root : PurgeTree(t, r)
    \/ Downloaded(t)
    \/ CopyLive(t) \/ Overlay(t) \/ RecordManifest(t) \/ FillManifest(t)
    \/ WritePendingUpdate(t) \/ ReportStaged(t)

Fairness ==
    /\ WF_vars(Start)
    /\ WF_vars(BootStep)
    /\ WF_vars(BeginScheduled)
    /\ WF_vars(\E t \in Task : CycleStep(t))
    /\ WF_vars(\E t \in Task : Progress(t))
    /\ SF_vars(\E t \in Task : FetchVersion(t))
    /\ SF_vars(\E t \in Task : SkipDrift(t) \/ NoChange(t) \/ BeginStaging(t))
    /\ \A r \in Root : SF_vars(\E t \in Task : Download(t, r))

FairSpec == Spec /\ Fairness

-----------------------------------------------------------------------------
(* Correctness.                                                            *)

CycleRecord ==
    [stage : Stages, cur : 0 .. MaxRelease, ver : 0 .. MaxRelease,
     man : 0 .. MaxRelease, todo : SUBSET Root,
     got : [Root -> 0 .. MaxRelease], tries : 0 .. Attempts]

\* Every variable stays in its type.
TypeOK ==
    /\ remote \in Release
    /\ live \in [Root -> Tree]
    /\ backup \in [Root -> Tree]
    /\ shadow \in [Release -> [Root -> Tree]]
    /\ built \in [Release -> BOOLEAN]
    /\ manifest \in [Release -> 0 .. Torn]
    /\ pending \in 0 .. MaxRelease
    /\ st \in [state : States, reboot : BOOLEAN]
    /\ last \in Results
    /\ proc \in BootPhases \cup {"down", "run"}
    /\ at \in [root : 0 .. NumRoots, step : {"discard", "out", "in"}]
    /\ lock \in Task \cup {NoTask}
    /\ cyc \in [Task -> CycleRecord]
    /\ sched \in {"start", "cycle", "retry", "poll"}
    /\ attempt \in 1 .. MaxRetries
    /\ crashes \in Nat /\ faults \in Nat /\ edits \in Nat

\* Two cycles never interleave, and no cycle runs while the boot path applies
\* a release: whoever is inside a cycle holds the lock and the process polls.
OneCycleAtATime ==
    \A t \in Task : cyc[t].stage # "idle" => lock = t /\ proc = "run"

\* Nobody waits for a cycle that is over, however it ended: while the lock is
\* taken its holder is inside a cycle, and so is the polling loop while it awaits
\* one.  (A lock left behind would turn every later cycle into a silent skip.)
NobodyWaitsInVain ==
    /\ lock # NoTask => cyc[lock].stage # "idle"
    /\ sched = "cycle" => cyc[Scheduler].stage # "idle"

\* Every managed root holds all the files of one and the same release.
WholeRelease(trees) ==
    /\ \A r \in Root : trees[r].code # None
    /\ \A r, s \in Root : trees[r].code = trees[s].code

\* The Pi is never left half-updated: whenever the agent polls, every managed
\* root is whole and they all belong to one release.
NeverHalfUpdated == proc = "run" => WholeRelease(live)

\* Startup never puts an install together from two releases: all the roots it finds
\* whole in what it is about to swap in are of the release whose manifest is recorded
\* beside them (of one release, when that file is torn), whatever was being fetched,
\* deleted, built, recorded or swapped when a process died or a call raised.
AppliesOneRelease ==
    proc = "deps" =>
        \A r, s \in Root :
            LET a == shadow[pending][r].code
                b == shadow[pending][s].code
            IN  a # None /\ b # None => a = b /\ manifest[pending] \in {a, Torn}

\* A swap that raises leaves no root of the new release among the old ones: what
\* is whole belongs to one release, whether the swap went through, was rolled
\* back, or was begun again at the next start.
NeverMixed ==
    proc = "run" =>
        \A r, s \in Root : live[r].code # None /\ live[s].code # None
                             => live[r].code = live[s].code

\* An update only moves forward: what the swap has put aside is older, root by
\* root, than what it has installed.
OnlyUpgrades ==
    proc \in {"track", "clear"} =>
        \A r \in Root : backup[r].code < live[r].code

\* The reboot_pending shown to the user is never an empty promise: a release is
\* recorded for the next startup, and startup will find it fit to apply.
RebootWillApply == st.reboot => pending # None /\ Applicable(pending)

\* The device's settings.json and client.env come through every update: the
\* live config/ never lacks them when the agent polls.
PrefsPresent == proc = "run" => live[ConfigRoot].prefs # 0

\* config/manifest.json, which /manifest serves, lists the release installed.
TrackingMatches ==
    proc = "run" => live[ConfigRoot].tracking = live[ConfigRoot].code

\* What AtomicUpdate says of this state.  An update counts as installed when its
\* marker is cleared; until then the device runs what the swap has put aside.
Displaced(r) ==
    \/ proc = "swap" /\ (r < at.root \/ (r = at.root /\ at.step = "in"))
    \/ proc \in {"track", "clear"}

Running == [r \in Root |-> IF Displaced(r) THEN backup[r] ELSE live[r]]

RunningRelease == IF WholeRelease(Running) THEN Running[ConfigRoot].code ELSE None

StagedRelease ==
    IF pending # None /\ Applicable(pending) /\ manifest[pending] # Torn
    THEN manifest[pending] ELSE None

Promise == INSTANCE AtomicUpdate
    WITH published <- remote, staged <- StagedRelease, installed <- RunningRelease

\* A host that never goes back and a process that is never killed in a fragile
\* phase nor meets a file system error in one: the agent keeps AtomicUpdate's promise.
KeepsPromise == Promise!Spec

\* How many steps the boot path has left at most: three calls for each root of the
\* swap, two for each one rolled back.
BootLeft ==
    CASE proc = "boot"     -> 5 * NumRoots + 5
      [] proc = "deps"     -> 5 * NumRoots + 4
      [] proc = "swap"     -> 5 * NumRoots + 3 - 3 * at.root
                              + (CASE at.step = "discard" -> 3
                                   [] at.step = "out" -> 2
                                   [] at.step = "in" -> 1)
      [] proc = "rollback" -> 2 * at.root + (IF at.step = "discard" THEN 2 ELSE 1)
      [] proc = "track"    -> 3
      [] proc = "clear"    -> 2
      [] proc = "report"   -> 1
      [] OTHER             -> 0

\* What n files can cost: every attempt on each, and its arrival.
FileSteps(n) == n * (Attempts + 1)

\* What is left to delete of the staged trees of release v.
Entries(v) ==
    Cardinality({r \in Root : shadow[v][r].dir})
      + Cardinality({r \in Root : shadow[v][r].code # None})
      + Cardinality({r \in Root : shadow[v][r].prefs # 0})

\* How many steps a cycle has left at most: every entry of the staged release is
\* deleted once, every attempt on every file made once.
CycleLeft(t) ==
    LET c == cyc[t]
        all == FileSteps(NumRoots) + Attempts
    IN  CASE c.stage = "version"  -> all + 3 * NumRoots + 11
          [] c.stage = "manifest" -> all + 3 * NumRoots + 10
          [] c.stage = "purge"    -> all + 8 + (IF manifest[c.ver] # None THEN 1 ELSE 0)
                                     + Entries(c.ver)
          [] c.stage = "download" -> 7 + FileSteps(Cardinality(c.todo))
                                     + (Attempts - c.tries)
          [] c.stage = "copy"     -> 6
          [] c.stage = "overlay"  -> 5
          [] c.stage = "record"   -> 4
          [] c.stage = "fill"     -> 3
          [] c.stage = "marker"   -> 2
          [] c.stage = "finish"   -> 1
          [] OTHER                -> 0

\* Nothing keeps the process or the lock for ever: whatever the host publishes and
\* whichever calls fail, no step gives the boot path or a cycle more to do than it
\* had, and each of their own steps leaves it less.
EveryActivityEnds ==
    [][/\ proc # "down" => BootLeft' \in 0 .. BootLeft
       /\ BootStep => BootLeft' \in 0 .. (BootLeft - 1)
       /\ \A t \in Task :
            /\ cyc[t].stage # "idle" => CycleLeft(t)' \in 0 .. CycleLeft(t)
            /\ CycleStep(t) => CycleLeft(t)' \in 0 .. (CycleLeft(t) - 1)]_vars

\* The lock is always given back, also by a cycle that raises.
LockReleased == lock # NoTask ~> lock = NoTask

\* What the host keeps serving gets staged or installed, through any number of
\* failed requests, skipped or retried cycles, kills and file system errors, and
\* again after startup has dropped what was staged.  (Only a process that died after
\* an apply has cost the install its code or settings.json gets nothing any more.)
ReleaseArrives ==
    <>[](remote = MaxRelease) =>
        []<>(\/ pending = MaxRelease
             \/ LocalVersion = MaxRelease
             \/ proc = "down" /\ ~Startable)

-----------------------------------------------------------------------------
(* What the documents promise and the code does not keep.                  *)

\* "The Pi is never left half-updated": what the agent is about to report as a
\* successful apply is one whole release.
SuccessIsWhole == proc = "report" => WholeRelease(live)

\* "The staged release is applied on the next updater startup": the release
\* that pending_update.json names is fit to apply whenever the agent starts.
StagedIsApplied == proc = "boot" /\ pending # None => Applicable(pending)

\* "Do not break preserve-local-path behavior": the settings.json and client.env
\* that an update installs are never older than the ones it replaces.
EditsAreKept ==
    proc = "track" => live[ConfigRoot].prefs >= backup[ConfigRoot].prefs

=============================================================================
