# BellForge in TLA+

BellForge runs unattended displays on Raspberry Pis. Every device has a FastAPI
backend, a kiosk client, and an updater that keeps the install at the newest
published release. This directory models the parts whose correctness depends on
what happens *between* two steps: a file system call and the power failing, a
request reading a file and another process writing it, a token being checked
and the account being deleted.

All paths below are relative to the repository root.

## 1. Inventory

### The system's parts

| Part | State it keeps | Operations | Talks to |
|---|---|---|---|
| **Updater agent** `updater/agent.py` | the managed roots of the install; `.staging/` with `releases/<v>/`, `swap/backup/`, `pending_update.json`, `state.json`, `last_update_result.json`; in memory a cycle lock and a retry counter | boot path (apply a staged release), polling loop, trigger listener, update cycle (check, download, build shadow, record, announce) | the static update host (HTTP); systemd; the backend reads its files |
| **Updater status** `backend/services/updater_status.py`, `backend/routes/update.py` | one cooldown timestamp in memory | read status, recover a staged release, check now | the agent's files, `systemctl restart`, the trigger port |
| **Broadcast** `backend/routes/broadcast.py` | none | POST to the trigger port of every device | trigger listeners |
| **Control server** `backend/services/control_server.py`, `backend/routes/control_server_api.py` | `config/control_server.json`: role, device id, owner, server info; a beacon thread | promote, join, reset, status, layout-edit permission with recovery of a stale owner, discovery over UDP | auth (who is a user), other devices' beacons |
| **Unified auth** `backend/services/unified_auth.py`, `backend/routes/auth_api.py` | `config/auth_registry.json`: users, refresh tokens, password resets, pairing sessions, devices, automode, TOTP, trusted devices, OAuth states; rate-limiter windows in memory | register, login with lockout, reset, refresh, logout, pairing, device lifecycle, automode decisions, TOTP, trusted devices, OAuth, delete user | identity providers; control server; every protected route |
| **Display preferences, status layout** `backend/services/display_preferences.py` | `config/client.env`, `config/status_layout.json` | read, clamp and save preferences; normalise and save a card layout | settings and status pages, agent (preserves `client.env`) |
| **Network lock** `backend/services/network.py` | `config/network_lock_state.json`, NetworkManager profiles | pin the current address in the profile, unpin the previous one | `nmcli` |
| **Display pipeline** `backend/services/display_pipeline.py`, `scripts/start_kiosk.sh` | none (probes) | classify GPU, compositor and kiosk health | systemd, /sys, processes |
| **Dashboard layout** `client/js/fibonacci_layout.js` | card order and placement in the page | pure layout: partition, place, resize, resolve collisions | status page |
| **Runtime dependency guard** `backend/services/runtime_deps_guard.py` | a stamp file | pip install at backend start when requirements changed | pip |
| **Device registry, diagnostics, schedule routes** `backend/routes/*.py`, `backend/main.py` | registry files | request handlers | the services above |
| **Device info, logs, debug service** | none | read and format host data | OS |
| **Client pages** `client/` | page state | presentation, polling | backend |
| **Scripts, install, CI** `scripts/`, `install.sh`, `.github/` | the host | provisioning, releases | git, systemd |

### How they interact

- The *update host* is a directory of static files. The agent reads
  `config/version.json`, `config/manifest.json` and the files one request after
  another; a release may be published between any two of them.
- The *agent* is one asyncio process. Its boot path is synchronous and finishes
  before any cycle starts. Cycles are started by the polling loop and by trigger
  connections; they give up control only at network calls.
- The *backend* is another process. It reads the agent's files at any time,
  writes to `config/` (which the agent copies, prunes and swaps), and can have
  systemd restart the agent at any time.
- *systemd* restarts the agent after every end (`Restart=always`,
  `RestartSec=30`, `scripts/bellforge-updater.service:18-19`).

### What is hard, and what makes each part correct

- **Agent.** Kills between any two file system calls; publications between any
  two requests; triggers during a cycle; a rename that raises in the middle of
  the swap. Correct if the device only ever runs whole releases, only moves to
  newer ones, keeps its local files, never has two cycles at once, never
  announces a reboot that has nothing to apply, always gives the lock back, and
  gets to what the host keeps serving.
- **Updater status.** State read before an await and used after it; many
  requests at once. Correct if its restarts do not break the agent's invariants,
  recoveries are limited, and a busy updater is left alone.
- **Control server.** Torn or deleted state file, failing writes, two users, ownership of a
  deleted user, a wizard whose answers come late. Correct if the beacon runs exactly on servers, the device id is
  kept as long as its file, ownership is recovered only from a missing user, and the
  wizard tells what was done.
- **Unified auth.** Long sequences of legal calls. Correct if every single-use
  credential is accepted at most once, revocation and deletion take effect for
  every credential they should, lockout and rate limits hold at their bounds, and
  one device fingerprint belongs to one owner.
- **Display preferences, layout engine.** Pure functions over many inputs.
  Correct if normalisation is idempotent, in range, a permutation of the cards,
  and no two cards overlap.
- **Network lock.** Commands that fail one by one. Correct if at most one profile
  stays pinned, and the record says which.

`PROJECT.json` lists the hazards one by one with the line at which each bites.

## 2. Modules

| Module | What it is |
|---|---|
| `UpdateAgent` | the agent: environment, boot path, swap, cycles, properties |
| `AtomicUpdate` | what the agent promises, with three variables and no mechanism |
| `UpdaterStatus` | `UpdateAgent` composed with the backend's status and check-now requests |
| `ControlServer` | role, identity, owner and beacon of one device |
| `SetupWizard` | `ControlServer` composed with the setup wizard's page |
| `AuthAccounts` | accounts, sign-in, lockout, tokens, password reset, OAuth redirects, deletion |
| `AuthDevices` | devices, pairing, AutoMode decisions, transfer, revocation |
| `AuthFactors` | TOTP enrolment, backup codes, trusted devices |
| `SingleUse` | what a credential that may be used once promises; all three auth modules implement it |
| `MCUpdateAgent`, `MCUpdaterStatus`, `MCControlServer`, `MCAuthAccounts`, `MCAuthDevices`, `MCAuthFactors` | sets and symmetry for TLC |
| `UpdateAgentProofs` | types, mutual exclusion, the lock, the announced reboot and the steps an activity has left, for any kills and file system errors |
| `WholeReleaseProofs` | what the install and a staged release hold when no fragile phase is disturbed, and what is left of it when one is |
| `UpgradeProofs` | versions only move forward; `UpdateAgent` implements `AtomicUpdate`, and what follows from that |
| `UpdaterStatusProofs` | the theorems that survive restarts by the backend |
| `ControlServerProofs` | all properties of `ControlServer`, for any users and losses |
| `AuthAccountsProofs`, `AuthDevicesProofs`, `AuthFactorsProofs` | all properties of the three auth modules, up to `SingleUse` |

### `UpdateAgent`

*Roots and trees.* The files are grouped by managed root (top-level directory of
the manifest). A root's tree says which release all its files belong to (`code`,
`None` when they do not all belong to one), the edition of the preserved local files
(`prefs`: `settings.json`, `client.env`), of the backend's registries beside them
(`registry`), and the release listed by `config/manifest.json` (`tracking`).
Files of a root are not told apart: they are downloaded, copied and renamed with
it, and no property distinguishes them.

*Grain.* A step is what a kill cannot split without a difference: one `rmtree` or
`rename` of the swap, one JSON file replaced atomically (`_write_json_atomic`
writes a sibling and renames it), one network request. Two kinds of step are
finer than a call: `rmtree(release_dir)` removes the entries of the shadow roots and the
manifest in any order (`PurgeTree` with `LessOf`, `PurgeManifest`, `Purged`), because a kill or an error in
the middle leaves any subset, a root with some of its files included; and a release's own `manifest.json`, which is not replaced
atomically (agent.py:864-865), is torn (`Torn`) between `RecordManifest` and
`FillManifest`. Two writes that follow one another without an await and that
the backend does not combine (`state.json` and `last_update_result.json`;
`update-available` and `downloading`) are one step, and only the later state is seen.

*Kills and errors.* The process may be killed in the phases `CrashPhases` (`Crash`), and a file system call
may raise in the phases `FaultPhases` (`FileError`): in the swap, where the code rolls back (`SwapFault`), elsewhere on the
boot path, the rollback included, where `run_forever` logs it and goes on (`BootError`), and in every stage of a cycle, which
fails (`DiskError`; `NetworkError` for the requests). What was deleted, copied or written by then stays. Six phases are
called fragile (`FragilePhases`): `purge`, `fill`, `swap`, `rollback`, `track` and `clear`. A kill or an error there leaves the
install or a staged release in pieces that the next start does not tell from whole ones; each run and theorem says which of them
it allows. An error while a failure is being recorded (`state.json`) is not a step of its own: in the polling loop it ends the
process, which is a kill.

| Code | Model |
|---|---|
| `main`, systemd unit | `Start`, `Kill`, `Crash` |
| `_apply_pending_release_if_present` | `NothingPending`, `DropUnusable`, `BeginApply`, `SyncDependencies`, `SyncFails`, ..., `ClearPendingUpdate`, `ReportApplied` |
| `_atomic_swap_roots` | `DiscardBackup`, `MoveOut`, `MoveIn` per root; `SwapFault`, `RollbackDiscard`, `RollbackRestore`, `SwapFails`, `BootError` |
| reading the recorded manifest, `_write_tracking_files` | `TrackingFails`, `WriteTrackingFiles` |
| `run_forever` | `sched`, `attempt`, `BeginScheduled`, `SkipScheduled`, `Return`, `Fail`, `Raise` |
| `_handle_trigger_connection`, `_run_update_cycle_background` | `BeginTriggered`, `Fail`, `Raise` |
| `run_update_cycle` | `LockFree`, `Enter`, `Leave` |
| `_run_update_cycle_locked` | the stages of `cyc[t]`, one action per branch |
| `_stage_downloads`, `_download_verified_file` | `Download`, `RetryDownload`, `GiveUpDownload` |
| `_build_shadow_tree` | `CopyLive`, `Overlay` |
| `release_manifest_path.write_text` | `RecordManifest`, `FillManifest` |

The variable `lock` is tested only where the code tests it (`LockFree`, at the
entry of `run_update_cycle`). The stages of a cycle do not test it again, so that
two cycles would interleave if the entry let them both in.

*Not in this module:* `_post_update_action` (agent.py:629-642), which nothing calls;
a manifest without the root `config`; corrupt JSON in `pending_update.json` (it is
replaced atomically, so that only a damaged disk produces it; the code treats it
as `NothingPending`); pip's changes to the virtual environment.

### `AtomicUpdate` and the refinement

`AtomicUpdate` has the newest published release, the release put aside, and the
release the device runs. `Stage` puts aside a release newer than the installed one,
`GiveUp` drops it, `Install` makes it the installed one in a single step.
`UpdateAgent!Promise` maps the agent's state to it: a staged release counts when
startup would find it fit to apply (`Applicable`), and while the swap is going
on the device still runs what has been put in `backup` (`Running`), until the
marker is cleared; that step is the `Install`. `InOrder` and `NeverBack` say what such a promise comes to
for the device.

### `UpdaterStatus`

Each request has local variables: what it read of `state.json`, of
`pending_update.json` and of systemd, and where it awaits. The two files are
two reads (`ReadState`, `ReadPending`), the decision is another step (the probes of the
listener lie between), the restart runs on a thread (`RestartUpdater`). A restart is
`UpdateAgent!Kill` followed, at some later time, by `Start`. The cooldown of sixty
seconds is a flag that `CooldownPasses` lowers at any time, also while the recovery that raised it is
still awaiting its restart: `systemctl restart` is given no timeout (updater_status.py:129), and the cooldown counts from before it
(line 258). Two recoveries may therefore be restarting the updater at once; what the code guarantees, and
`OneRecoveryPerCooldown` says, is that no second one is *begun* before the cooldown of the first has passed. `recoveries` counts for that
what was begun since. That the flag starts raised is the code's zero on a clock that counts from
the host's boot.

### `ControlServer`

`file` is the contents of `control_server.json`, or `None` when nothing in it parses;
`Read` is what the code makes of it. A write succeeds, or raises and leaves the old contents or
nothing (`WriteFails`); a crash may do the same, and the updater deletes the file (`LoseFile` counts
the losses, its bound is `MaxLosses`). The handlers are `async def` without an `await`: one action each,
with the writes, the beacon and the order of the two. `Verify` is the token check,
which runs on a thread before the handler; between the two the account may be
deleted. The service is constructed by the first request (`built`, `Live`), not when the
backend starts. `ids` is the highest id ever stored: `Write` compares it with the id in the
state that the handler writes, so that a handler that drew a new one would be noticed; `Read` draws the next number when nothing parses. `req[u] = "granted"` is a
page on which the user was told that he may edit.

Users, their accounts and tokens are the part of `UnifiedAuth` that this module needs:
signing in, deletion (access tokens stay valid until they expire), expiry.

### `SetupWizard`

The panel shown, the choices (`wizardState`), scans under way and pending timers. A scan
is one step of the device, because its handler blocks the event loop for the
whole timeout; which answers arrive is arbitrary. The activation goes through
`ControlServer`'s own actions. What a server answers to a probe and what `joinAsSatellite` demands
are sets of field names.

### The auth modules

The registry is one JSON file. The routes are coroutines without an `await`, so that a handler is one
step from its read to its last write, but for local registration and sign-in, which write, read
again and write again: between the two the updater, another process, may remove the file, and the clock goes on. They are `LocalRegister` or
`LocalLogin` and then `SignedIn` (or `CutShort`), with `signing` naming the account in between; no other handler runs there. A session
stored after such a loss is of an account that is not in the file; it cannot be refreshed. The bearer token is verified before, on a thread, so that
a handler may run for a principal whose account is gone (`Principal`, `Known`). Every handler begins with
`_cleanup`, and one that writes stores its result: `KeptSessions`, `KeptRevoked`, `KeptResets`, `KeptStates`,
`KeptPairings` are what a handler sees, and part of each action that writes. Requests that
are refused before a write have no action. `handed`, `uses`, `issuedTo`, `drawn`, `replaced` are history
variables: no guard of a handler reads them but to draw a fresh token, code or secret.

The three modules cut the file where no handler reads both sides, except the accounts: each has
as much of them as its handlers ask for. `AuthDevices` knows accounts as `none`, `active`,
`deleted`, because claims and transfers accept deleted ones.

| Code (`backend/services/unified_auth.py`) | Model |
|---|---|
| `local_register`, the account and then its session | `LocalRegister`, then `SignedIn` or `CutShort` |
| `local_login`, the account and then its session | `LocalLogin`, then `SignedIn` or `CutShort`; `WrongPassword` |
| `_decode_token`, `_cleanup` | `AcceptedAt`, `Accepted`, `RevokedAt`, `KeptSessions`, `KeptResets`, `KeptStates` |
| `local_password_reset_request`, `local_password_reset_confirm` | `ResetRequest`, `ResetConfirm` |
| `_ensure_user`, `login`, `oauth_begin`, `oauth_callback` | `Login`, `OauthBegin`, `OauthCallback`, `OauthCallbackFails` |
| `refresh`, `logout`, `delete_authenticated_user` | `Refresh`, `Logout`, `DeleteUser` |
| `register_device`, `revoke_device`, `transfer_device`, `heartbeat` | `RegisterDevice`, `RevokeDevice`, `TransferDevice`, `Heartbeat` |
| `create_pairing_session`, `claim_pairing_code`, `claim_pairing_qr`, `pairing_status` | `CreatePairing`, `ClaimCode`, `ClaimQr`, `CollectToken` |
| `automode_discovery_report`, `automode_decide` | `ReportDiscovery`, `Approve`, `Deny` |
| `totp_setup_begin`, `totp_setup_confirm`, `totp_verify`, `totp_disable` | `TotpSetupBegin`, `TotpSetupConfirm`, `TotpVerifyBackup`, `TotpDisable` |
| `issue_`, `revoke_` and `verify_trusted_device_token` | `IssueTrustedDevice`, `RevokeTrustedDevice`, `VerifiedAt` |

`LoseRegistry` (in `AuthAccounts`) is the updater's swap of `config/`, which does not keep the file:
the registry is empty at the next read, the tokens in clients' hands are still signed and unexpired
(`holder`, `exp`). A handler that writes twice may end after its first write (`CutShort`,
`OauthCallbackFails`). Time is a clock of ticks; the lives of tokens are parameters, in ticks. A token's expiry is
compared with one reading of the clock (unified_auth.py:429) and the list of revoked tokens cleaned up with a later one (line 438),
which may show the next tick (`Readings`): a revoked token that expires between the two is accepted, as in the code.
`NeverAcceptedAgain` and `ReplacedIsRefused` speak of tokens that outlive both readings.

`SingleUse` knows of each ticket only whether it is unissued, live or dead, and how often it was used.
Each module says which of its credentials are tickets and when one is usable (`Phase`): refresh tokens,
reset tokens and OAuth states; claims of a pairing session, the collection of its token
and AutoMode decisions; backup codes. "Usable" is the handler's own guard, so that the
refinement says: what the guard has refused once, no later order of requests makes it accept. A ticket may be stillborn
(`Stillborn`): the refresh token of a sign-in under which the registry was lost is handed out dead. `AtMostOnce` is what
follows for the number of redemptions.

## 3. What is checked

| Run | Bounds | What it shows |
|---|---|---|
| `agent_faults` | 2 roots, 2 releases, polling loop + 1 trigger, 2 attempts, 2 kills anywhere but in `swap` and `rollback`, 1 file system error anywhere but in `rollback`; 62 740 states | `TypeOK`, `OneCycleAtATime`, `NobodyWaitsInVain`, `RebootWillApply`, `AppliesOneRelease`, `NeverMixed`, `EveryActivityEnds`, `LockReleased`, `ReleaseArrives` |
| `agent_safety` | 3 roots (one before, one being, one after `config`), 3 releases, polling loop + 2 triggers, 2 kills and 1 file system error outside the fragile phases, 1 local edit; 454 615 states | `NeverHalfUpdated`, `OnlyUpgrades`, `PrefsPresent`, `TrackingMatches`, and the refinement `KeepsPromise` |
| `crash_in_swap` | 2 kills, also inside the swap | violates `SuccessIsWhole` |
| `restaged` | 2 kills while polling | violates `StagedIsApplied` |
| `edits` | 1 local edit | violates `EditsAreKept` |
| `status_requests` | 1 root, 2 releases, 1 trigger, 2 status requests and 1 check-now, two of them in flight at once, any number of restarts, of any length; 616 938 states | `StatusTypeOK`, the agent's `OneCycleAtATime` and `RebootWillApply` under restarts at every step, `OneRecoveryPerCooldown`; deadlock freedom |
| `status_active` | the same, all three in flight | violates `ActiveUpdaterSpared` |
| `control_server` | 2 users, 2 names, 1 loss of the file, any number of failed writes, crashes, requests; 19 224 states | `TypeOK`, `BeaconNeverLies`, `SilentOnlyAfterFailure`, `IdentityPerLoss`, `RecoverySparesOwners`, `PermissionIsKept`; deadlock freedom |
| `wizard_join` | 1 user, 1 other server, 2 scans or timers pending | violates `SatelliteWhenToldSo` |
| `auth_accounts` | 2 users, 1 address, 1 provider identity, 2 token pairs, 1 reset token, 1 OAuth state, locked by a wrong password, clock up to 2, 1 loss; 600 698 states | `TypeOK`, `IndexSound`, `NoSessionForDeleted`, `GuessesBounded`, `NeverAcceptedAgain`, and the refinement `SingleUseTickets` |
| `auth_devices` | 2 users, 2 records, 1 fingerprint, 2 pairing sessions, 2 discoveries, clock up to 2; 57 377 states | `TypeOK`, `OneLinkPerFingerprint`, `ClaimNamesItsDevice`, `StatusTellsRevoked`, `AuditTrail`, and `SingleUseTickets` |
| `auth_factors` | 2 users, 2 secrets, 2 batches of 2 codes, 1 device, 2 trusted-device tokens, clock up to 3; 297 296 states | `TypeOK`, `OneEnrolment`, `ReplacedIsRefused`, and `SingleUseTickets` |

### Why the bounds are enough for the cases that matter

- *Three roots*: the swap and its rollback have a first, a middle and a last root;
  `config` (version, local files, tracking) is the middle one and `updater`, whose
  absence keeps the process from starting, the last one, as in the sorted order
  `backend, client, config, scripts, updater`. `agent_faults` takes two, `config` and `updater`.
- *Three releases*: one installed, one staged, and one published while the second
  is being staged or waits.
- *Two kills*: a kill while one is being recovered from.
- *One file system error*: after it the process polls, and stages and swaps again after
  a restart; it meets two kills before or after it.
- `MaxRetries` bounds retries of the loop; `Attempts` is computed from it as the
  code does. `MaxEdits` bounds saves by the backend. `MaxRelease` bounds
  publications. `status_requests` has `MaxCrashes = 0`: restarts come from the requests
  and are not bounded; requests end and begin again without a bound.
- In `agent_safety` kills and errors do not happen in the *fragile phases* `purge`, `fill`, `swap`,
  `rollback`, `track`, `clear`: its properties are false there. What goes wrong
  is shown by `crash_in_swap` and `restaged`, and told in section 4; what still holds is
  checked by `agent_faults`, where kills happen everywhere but in `swap` and `rollback` and errors everywhere but in `rollback`.
  `OneCycleAtATime`, `NobodyWaitsInVain`, `RebootWillApply`, `AppliesOneRelease`, `EveryActivityEnds` and `TypeOK` are proved without any
  restriction, and `status_requests` kills the process in every phase.
- `Withdrawals = FALSE`: the host does not go back to an older release. With it
  nothing compares versions between staging and startup.
- `MaxEdits` is 1 in `agent_safety`, so that `PrefsPresent` is about a file that differs
  from the shadow's copy.
- `status_requests`: two requests in flight (`MCTwoInFlight`) are two status pages, or a status page and the check-now button; each ends
  and begins again without a bound, so that a restart decided on by one meets anything that the other has started. It uses
  symmetry of the two status requests; it has invariants only.
- `control_server`: two users are an owner and another who takes over, recovers or deletes; one
  loss of the file lets a second identity begin. Only losses are bounded: crashes,
  failed writes, sign-ins and requests go on for ever. Symmetry of the users; its two action
  properties treat all users alike.
- `wizard_join`: two pending scans or timers let one of them arrive after the user has gone on.
- `auth_accounts`: two accounts on one address are a local and a provider's one, or two local ones in turn;
  two pairs are a token and the one it is exchanged for. Access tokens, resets, states and locks last
  one tick, refresh tokens two, so that each may end before, with or after another. The limit on wrong passwords is one, so that three lock
  periods begin within the clock; the theorem is for any limit.
- `auth_devices`: one fingerprint is wanted by two sessions, two discoveries and a registration at once; two
  records let it be linked a second time after a revocation. The code lasts one tick, the QR token two.
- `auth_factors`: a second secret and batch for an enrolment that follows another, of the same or of another
  user; a second token replaces the first, with a life that may be shorter (`RenewalTTL = {2, 3}`).
- The auth runs use symmetry of the sets whose members the modules do not tell apart (token pairs are numbers and are
  left out). Their temporal properties are of the form `Init /\ [][Next]_v`, treat all members alike, and are
  checked step by step.

Deadlock is not checked in the auth runs: clock, tokens and records are finite, and an instance that has used
them up stops. Nor is it in `agent_faults`: after a swap that failed half-way
with the root `updater` moved out, or an apply of a tree that had been deleted in part, a killed agent cannot be started again. The violation
runs stop where their bounds are used up. The other three runs check it.

### Fairness

Only `agent_faults` uses it (`FairSpec`), for `LockReleased` and `ReleaseArrives`.

- `WF(Start)`: `Restart=always` with a bounded `RestartSec`.
- `WF(BootStep)`, `WF(CycleStep)`: the process is running and its event loop goes on. Every step of the boot
  path ends. One cycle at most is running, so that fairness is of the steps of whichever task has it.
- `WF(BeginScheduled)`: the sleep of the polling loop ends.
- `WF(Progress)`: the local steps of a cycle (deleting, copying, writing) do not
  fail for ever; no step of the network competes with them.
- `SF(FetchVersion)`, `SF(Download)` of each root and the three outcomes of the manifest: a request
  that is made again and again, by whichever task, is answered at some time. Without it a host that is
  never reachable refutes every progress property, as it should.

Nothing is assumed of triggers, publications, edits, kills or file system errors; those
are bounded. `ReleaseArrives` has one way out: a process that is down and cannot be started any more (`Startable`), because
an apply has cost the install its code or its `settings.json`.

## 4. What the runs found

1. `crash_in_swap` (`updater/agent.py:423`). A kill between the two renames of a root leaves
   its marker; the next start applies the same shadow tree, of which the first
   roots have gone into the install. Their live trees (the new ones) are moved to `backup`
   (over the old ones, which are deleted), no shadow is found, an empty directory
   takes their place, and the apply is reported as a success. The docstring says
   the Pi is never left half-updated.
2. `restaged` (`updater/agent.py:821`). Every later poll finds the staged release newer than
   the installed one and stages it again, which begins by deleting it.
   `docs/deployment.md:164` says that a staged release is applied on the next startup.
3. `edits` (`updater/agent.py:373`). Preserved local files are those of the time of staging.
   `docs/CONTEXT.md:57-60`.
4. `status_active` (`backend/services/updater_status.py:407`). A busy updater is restarted on a state read
   before. `tests/test_updater_status.py:96`.
5. `wizard_join` (`client/onboarding.html:686`). The wizard can never join a server it has found: no answer to
   a probe names the server's user, and the call is refused in the page. The last step says
   "This device is now a satellite" all the same (`client/onboarding.html:705`).

Also met, without a run: `control_server.py:10-13` draws four transitions between roles; the code has
no guard on the present role, so that a server may join another one, a satellite be promoted, and a
second user take over a server. And a server that restarts stays silent until the first
request that needs the service (`control_server.py:428`).

In the auth registry: (a) `delete_authenticated_user` takes the deleted account's address out of `local_email_index` also when
the entry is another account's; when a provider account with the address of a local one is deleted, the local
account stays and can no longer sign in, and the address may be registered again (`unified_auth.py:1912`; `IndexSound`
states the direction that holds). (b) A pairing session that was claimed and expires before the device polls leaves a linked device that
never got its token; its fingerprint cannot be paired again until the owner revokes the record
(`unified_auth.py:1147`). (c) Revoking a trusted device marks its entry and does not list the token; the entry is found by user and device
and not compared with the token, so that a later token for the same device makes the earlier one pass again
(`ReplacedIsRefused` speaks of tokens replaced while in force). No sentence of the repository says otherwise, so these are no findings.

Local registration and sign-in write the account, read the registry again and write the session
(`unified_auth.py:582-602`, `635-655`). If the updater removes the file in between, the session is stored with no user beside it: its
access token is accepted until it expires, its refresh token is refused.

For the agent, three things. (a) A kill or an `OSError` in the `rmtree` of a staged release (agent.py:822), before its manifest is deleted and while
the marker of the earlier staging names it: directory and file exist, so startup swaps in a tree that has lost
files or whole roots. (b) A kill or an error while a release's `manifest.json` is written over (agent.py:864-865), when
an earlier staging of the same version has left its marker. The file exists, so startup swaps the tree in; it does not parse, so the
marker is never cleared; the next start swaps once more, from an empty shadow. (c) The incomplete rollback of the very root whose rename
raised (it is not in `swapped` yet: its live tree stays in `backup` until it is
discarded by the next swap). All three lose roots, and `NeverHalfUpdated` is false there; none of them mixes two releases:
`AppliesOneRelease` holds in (a) and (b), `NeverMixed` in all three. Neither property notices that a root is lost.

*What some properties leave open.* `BeaconNeverLies` is about a file that parses: one that is torn or
deleted while a beacon is running is not compared with it. `SilentOnlyAfterFailure` is about a service that
has been constructed, and a failure counts for the rest of the process's life. `AuditTrail` counts the records of AutoMode, not who
may hold the device. `PermissionIsKept` compares the two answers in one direction.
The registries of `config/` other than the two preserved files are deleted by every
applied update (`updater/agent.py:386-397`).

## 5. What is proved

With TLAPS, for all values of the constants that satisfy the assumptions of
`UpdateAgent` (`RootAssumption`: `config` and `updater` are managed roots;
`ReleaseAssumption`: there is a release; `TaskAssumption`: nobody is not a task; `BoundAssumption`:
the bounds are numbers), of `UpdaterStatus` (`RequestAssumption`: a request is of one kind), of
`ControlServer` (`NameAssumption`: the default name is a name; `LossAssumption`: the bound is a number; `NoneAssumption`: `None` is
neither a user nor a file's contents nor an announcement) and of the auth modules (`TTLAssumption`: lives of tokens are
positive; `BoundAssumption`; `PairAssumption`: token pairs are numbered; `NoneAssumption`: `None` is no member of the sets it
stands beside).

| Theorem | Statement | Further assumption |
|---|---|---|
| `UpdateAgentProofs!TypeCorrect` | `Spec => []TypeOK` | |
| `UpdateAgentProofs!OneCycle` | `Spec => []OneCycleAtATime` | |
| `UpdateAgentProofs!NoVainWait` | `Spec => []NobodyWaitsInVain` | |
| `UpdateAgentProofs!ActivitiesEnd` | `Spec => EveryActivityEnds` | |
| `UpdateAgentProofs!RebootPromise` | `Spec => []RebootWillApply` | |
| `WholeReleaseProofs!WholeInstall` | `Spec => []NeverHalfUpdated` | `Undisturbed` |
| `WholeReleaseProofs!AppliesOne` | `Spec => []AppliesOneRelease` | |
| `WholeReleaseProofs!PrefsSurvive` | `Spec => []PrefsPresent` | `Undisturbed` |
| `WholeReleaseProofs!TrackingFollows` | `Spec => []TrackingMatches` | `Undisturbed` |
| `WholeReleaseProofs!NeverMixedUnderFaults` | `Spec => []NeverMixed` | `RollbackUndisturbed` |
| `UpgradeProofs!OnlyForward` | `Spec => []OnlyUpgrades` | `Undisturbed`, `Withdrawals = FALSE` |
| `UpgradeProofs!AgentKeepsPromise` | `Spec => KeepsPromise` | `Undisturbed`, `Withdrawals = FALSE` |
| `UpgradeProofs!RunsWhatWasPublished` | `Spec => []Promise!InOrder` | `Undisturbed`, `Withdrawals = FALSE` |
| `UpgradeProofs!NeverGoesBack` | `Spec => Promise!NeverBack` | `Undisturbed`, `Withdrawals = FALSE` |
| `UpdaterStatusProofs!StatusTypeCorrect` | `StatusSpec => []StatusTypeOK` | |
| `UpdaterStatusProofs!NoVainWaitUnderRestarts` | `StatusSpec => []NobodyWaitsInVain` | |
| `UpdaterStatusProofs!OneCycleUnderRestarts` | `StatusSpec => []OneCycleAtATime` | |
| `UpdaterStatusProofs!RebootPromiseUnderRestarts` | `StatusSpec => []RebootWillApply` | |
| `UpdaterStatusProofs!OneRecovery` | `StatusSpec => []OneRecoveryPerCooldown` | |
| `ControlServerProofs!TypeCorrect` | `Spec => []TypeOK` | |
| `ControlServerProofs!HonestBeacon` | `Spec => []BeaconNeverLies` | |
| `ControlServerProofs!ServersAreHeard` | `Spec => []SilentOnlyAfterFailure` | |
| `ControlServerProofs!OneIdentityPerLoss` | `Spec => []IdentityPerLoss` | |
| `ControlServerProofs!AnswersAgree` | `Spec => PermissionIsKept` | |
| `ControlServerProofs!OwnersAreSpared` | `Spec => RecoverySparesOwners` | |
| `AuthAccountsProofs!AccountsTypeCorrect` | `Spec => []TypeOK` | |
| `AuthAccountsProofs!IndexIsSound` | `Spec => []IndexSound` | |
| `AuthAccountsProofs!DeletedHaveNoSession` | `Spec => []NoSessionForDeleted` | |
| `AuthAccountsProofs!GuessesAreBounded` | `Spec => []GuessesBounded` | |
| `AuthAccountsProofs!RefusedStaysRefused` | `Spec => NeverAcceptedAgain` | |
| `AuthAccountsProofs!TicketsAreSingleUse` | `Spec => SingleUseTickets` | |
| `AuthAccountsProofs!RedeemedOnce` | `Spec => []Once!AtMostOnce` | |
| `AuthDevicesProofs!DevicesTypeCorrect` | `Spec => []TypeOK` | |
| `AuthDevicesProofs!LinkedOnce` | `Spec => []OneLinkPerFingerprint` | |
| `AuthDevicesProofs!ClaimsNameDevices` | `Spec => []ClaimNamesItsDevice` | |
| `AuthDevicesProofs!RevokedShows` | `Spec => []StatusTellsRevoked` | |
| `AuthDevicesProofs!TrailIsComplete` | `Spec => []AuditTrail` | |
| `AuthDevicesProofs!DeviceTicketsAreSingleUse` | `Spec => SingleUseTickets` | |
| `AuthDevicesProofs!DeviceRedeemedOnce` | `Spec => []Once!AtMostOnce` | |
| `AuthFactorsProofs!FactorsTypeCorrect` | `Spec => []TypeOK` | |
| `AuthFactorsProofs!EnrolmentsApart` | `Spec => []OneEnrolment` | |
| `AuthFactorsProofs!ReplacedAreRefused` | `Spec => []ReplacedIsRefused` | |
| `AuthFactorsProofs!BackupCodesAreSingleUse` | `Spec => SingleUseTickets` | |
| `AuthFactorsProofs!CodesTakenOnce` | `Spec => []Once!AtMostOnce` | |

`Undisturbed` is `(CrashPhases \cup FaultPhases) \cap FragilePhases = {}`: in the six phases in which the next start
cannot tell pieces from a whole (`purge`, `fill`, `swap`, `rollback`, `track`, `clear`) the process is not killed and no
file system call raises. Everywhere else both may happen. Section 4 shows that the assumption is needed: without it the code violates
the statements. `RollbackUndisturbed` is much less: no kill in `swap` or `rollback` and no error in `rollback`. It is needed too, because
a kill between the two renames of a root makes the next start move a new tree into `backup`, from where
a rollback would put it back among old ones. Where no assumption is listed, kills and file system errors in every phase
and a host that goes back are all allowed.

*Arguments.* `TypeCorrect`: the boot path reads the release that `pending` names without
looking again whether there is one, so `TypeInv` adds that there is one while it applies, and
where in the loop over the roots it is. `OneCycle` uses that a cycle
is entered only with the lock free (`Enter`), that by the invariant no other task
is then inside one, and that steps of a cycle change only their own record
(`OthersKeepTheirCycle`, `CycleStepShape`).

`NobodyWaitsInVain` rests on the two ways a step of a cycle can end (`CycleGoesOnOrEnds`): inside the cycle with
lock and loop as they were, or outside with the lock free and the loop, if the cycle was its own, sent on.
Mutual exclusion is needed: it is what makes the task that gives the lock back the one that holds it.

`EveryActivityEnds` gives the boot path and each cycle a bound on the steps it has left and shows that each
of its own steps lowers it and nobody else's raises it. The bounds are natural numbers, so this is the termination of both for any
host, any retries and any faults. `BootLeft` counts the calls of the swap left or, after one has raised, of the
rollback. `CycleLeft` counts what `rmtree` has left to delete, and for the downloads `FileSteps`: a file that
arrives resets the retry counter, which costs at most the attempts that its file had (`FileStepsFacts`,
`RootSets`). The proof needs that the cycle's version is a release while it deletes (`CycleInv`) and that another
task can neither stage into the same tree nor begin while it does (`OneCycle`). That each activity does take its steps is
fairness, and is checked by `LockReleased`.

`RebootWillApply` is not inductive: nothing in it says that the release it speaks of
is not being purged. The invariant `RebootInv` adds, for each task, what the stage of its
cycle knows (`CycleInv`): from the first write of a cycle until its last one the announced reboot
is withdrawn, and from the copy on the shadow tree and then the manifest of the
version being staged are there, so that the last write (`ReportStaged`) may announce it. `OneCycle` then
says that no other cycle can spoil it.

`AppliesOneRelease` says nothing of how the staged tree came to be. `StagedOneInv` does: every version with a manifest has a
shadow tree whose whole roots are of one release, the manifest's own unless it is torn (`OneOf`), and a cycle knows at each stage
what the codes on its disk are (`CodesInv`: nothing fetched yet, fetched from its manifest, no manifest beside
a tree in the making, only the manifest's release once it is built). Whatever a kill or an error deletes or leaves half-copied, losing roots
mixes nothing (`FewerOneOf`), which is why the theorem needs no assumption on kills or errors.

`NeverHalfUpdated` asks more: no root lost. `WholeInv` joins what is staged with what is installed: what a cycle has on disk at each of its stages
(`StagingInv`: every root was downloaded from the manifest fetched, or is still to be, or was
equal in the install already), what the marker names when nobody is purging or
moving it (`StagedInv`), the two halves of a swap (`SwapInv`: the roots before `at.root` come from
the live tree, the rest from the shadow, and together they are one release), and that only a
cycle in flight leaves a torn manifest (`TornInv`). A kill outside the fragile phases finds
either no cycle or one whose work startup rejects for want of a manifest.

`NeverMixed` speaks of polling, a swap of what two trees hold in between. `UnmixedInv` follows two views of the
install through it: `Before`, what is live or put aside, which the rollback restores, and `After`, what has been moved in or still
waits in the shadow, which the last rename completes. In each of them whatever is whole is of one
release; for the shadow trees this is `StagedOneInv`. Lost roots are allowed everywhere (`FewerUnmixed`), so that the invariant survives a
second failure, a torn manifest and a swap begun again from an empty shadow.

`UpgradeInv` adds the versions: a cycle's `ver` is above the installed version and its
manifest's release is at least `ver` and at most what the host serves (`ForwardInv`), the same of
every recorded manifest (`RecordedInv`), and what runs, as `AtomicUpdate` counts it, is one whole release older
than the one being moved in (`RunsInv`). `RunningKept` is the heart of the refinement:
no step but `ClearPendingUpdate` changes what a root runs. That step is then `Install`, `PurgeManifest` a `GiveUp`,
`FillManifest` and `WritePendingUpdate` a `Stage`, and every other step stutters. `InOrder` and `NeverBack` are then proved of
`AtomicUpdate`'s three variables and hold of the agent through the mapping.

The theorems about the composition use that every step of a request either leaves the
agent alone, is one of its own actions, or is a kill (`StatusStepShape`), and that the
agent's invariants hold for a kill in any phase. `OneRecovery` needs of the requests only that the test of the cooldown and its
start are one step (`CooldownInv`): a recovery is begun with the flag lowered, when none has been begun since, and raises it.
How long the restart takes does not matter.

`ControlServer`'s invariant `Inv` adds two facts to the properties: without a constructed service there is no
beacon (`Unbuilt`), and the id in the file is the highest ever stored, which is at most
the number of losses, plus one while there is a file (`Identities`). The latter rests on what the handlers write: an id is fresh
only when nothing parsed (`HandlerStart`), and every state a handler stores carries the id it read (`ServedFacts`, `PlainFacts`). Each handler is a read
(`HandlerStart`: what `Read` and `Live` give), then one of `Promoted`, `NotPromoted`, `Unserved` or nothing (`BuildStep`), for
each of which one lemma shows what it leaves. The two action properties follow from it:
`Granting` finds the two answers that open the editor, and `OwnersAreSpared` excludes one by one the
actions that could change the owner.

`AuthAccounts`: `IndexSound` needs `ProviderSound` (an identity of a provider leads to a provider's
account), or a provider login could revise the address of a local account; with `NoSessionForDeleted` they are `AccountInv`. A sign-in
that is between its two writes goes on for an account that was made and not deleted, though it may be lost by then (`SigningSound`). `NeverAcceptedAgain`
needs `RevokedAgree`: an entry of the revocation list stands for an issued token and lasts exactly as long as
it; the property is about tokens that outlive both readings of the clock. `GuessesBounded` needs `LockSound`: a lock is at most a period away, and every wrong password beyond the limit lies
a period behind it. The refinement adds `TicketInv` (what the registry keeps of a ticket was handed out; a reset is for an
account that is there) and has three lemmas at its heart: a new reset token or OAuth state is usable (`NewTicketUsable`; a refresh token may be stillborn), one that is usable after a step was
usable before it (`UsableBefore`, by `NeverAcceptedAgain`'s argument for refresh tokens), and what a step uses was
usable and is not any more (`UseSpends`). The loss of the registry is among the steps: it only ends tickets.

`AuthDevices`: every handler revises records or links exactly one (`DevicesKept`, `Links`), and does to a session one of four things
(`SessionStep`). `ClaimSound` says that a session names a device from its claim on and shares it with no other session,
`HistorySound` that every record linked by AutoMode has an entry in the history and no two entries name one record; `AuditTrail`'s
count is a consequence. `AuthFactors`: `SecretsApart` (no secret is drawn twice), `TrustSound` (an entry knows when its
token expires, a replaced token is listed until then) and `CodesSound` (a code is with the user it was shown to).

Each auth module's redemptions are counted by `uses`; `AtMostOnce` is an invariant of `SingleUse` (a ticket is live when it is
redeemed and dead from then on) and comes down through the refinement.

*Only model-checked:* `LockReleased` and `ReleaseArrives`, because liveness and `ENABLED` are out of the prover's
reach, and the properties of the violation runs, which are false. Everything else that a passing run checks is proved.

## 6. Not modelled

See the components of `PROJECT.json` for the reason of each.

- *In the auth service:* the rate limiter (windows in memory; a refusal changes nothing else); permissions and roles of
  principals (guards before a handler); the activation of AutoMode controllers and the listings, which filter; logging out with a
  device's or a trusted-device token, which has the effect of `Logout` on its entry of the list; a registry file torn by a crash or a failed
  write, after which every handler answers 500 until the file is removed (`unified_auth.py:168-176`) and nothing else changes; the loss of
  the registry in `AuthDevices` and `AuthFactors`, whose records it would only remove.
- *Two processes on the registry:* the unit runs one backend process, and the store's lock is a lock within it.
- *Network lock, dependency guard:* two hazards of `PROJECT.json` without a property; see the plan.
- *Display preferences, layout engine, display pipeline:* pure functions over many inputs, without interleavings; unit tests reach
  them better than a model.
- *Presentation* (client pages), *provisioning and release scripts*, *formatting of host data*.

## 7. Plan

Order: the most important behaviour first. Done: 1 to 4.

1. `AtomicUpdate`, `UpdateAgent`, `MCUpdateAgent` and their proofs, up to the refinement.
2. `UpdaterStatus`, composing the agent with the backend's requests.
3. `ControlServer`, its proofs, and `SetupWizard`.
4. `AuthAccounts`, `AuthDevices`, `AuthFactors`, `SingleUse` and their proofs.
5. `NetworkLock`: profiles, lock record, failing commands; that at most one profile stays pinned while commands succeed, and
   what the record says when they do not.
6. `StatusLayout` and `FibonacciLayout`: normalisation and placement as operators over bounded
   inputs; reference definitions: permutation, no overlap, idempotent.
7. `DepsGuard`: the stamp after the installation, with crashes and concurrent starts.
8. Proofs: with each of these modules its type correctness and the property it is written for; done for all modules there are.
