---------------------------- MODULE UpdaterStatus ----------------------------
(***************************************************************************)
(* The backend's view of the updater (backend/services/updater_status.py)  *)
(* composed with the updater itself.  Two endpoints read the updater's     *)
(* files and may restart its unit:                                         *)
(*   - get_updater_status, polled by the status page, recovers a staged    *)
(*     release that nobody applies, at most once per cooldown;             *)
(*   - trigger_update_check_now, behind the "check now" button.            *)
(* Both run on the backend's event loop and await network calls and the    *)
(* restart; the updater is another process, which goes on meanwhile.       *)
(***************************************************************************)
EXTENDS UpdateAgent

CONSTANTS
    StatusRequests,   \* requests of the status endpoint
    CheckRequests     \* requests of the check-now endpoint

Request == StatusRequests \cup CheckRequests

ASSUME RequestAssumption == StatusRequests \cap CheckRequests = {}

VARIABLES
    req,        \* the local variables of each request
    cooldown,   \* was a recovery attempted, or the host booted, < 60 s ago?
    recoveries  \* how many were attempted since those 60 s last went by

clock == <<cooldown, recoveries>>
statusVars == <<req, cooldown, recoveries>>
allVars == <<vars, statusVars>>

\* The states in which the updater counts as busy.
ActiveStates == {"checking", "downloading", "staging", "applying"}

\* active: the state read was a busy one; staged: a pending update was read;
\* up: systemd said the unit was active.
NoRequest == [stage |-> "idle", active |-> FALSE, staged |-> FALSE, up |-> FALSE]

\* _LAST_STAGED_RECOVERY_ATTEMPT_AT starts at zero on a clock that starts with
\* the host: the first minute after a boot counts as a cooldown.
StatusInit ==
    /\ Init
    /\ req = [q \in Request |-> NoRequest]
    /\ cooldown = TRUE
    /\ recoveries = 0

At(q, s) == req[q].stage = s

\* What was read is not read again, nor used any more.
Await(q, s) == req' = [req EXCEPT ![q] = [NoRequest EXCEPT !.stage = s]]

Finish(q) == req' = [req EXCEPT ![q] = NoRequest]

-----------------------------------------------------------------------------
(* Reading the files: two reads, between which the updater may write.      *)

\* _staging_state reads state.json first.
ReadState(q) ==
    /\ At(q, "idle")
    /\ req' = [req EXCEPT ![q].stage = "pending",
                          ![q].active = st.state \in ActiveStates]
    /\ UNCHANGED <<clock, vars>>

\* Then pending_update.json; then systemctl is-active.
ReadPending(q) ==
    /\ At(q, "pending")
    /\ req' = [req EXCEPT ![q].stage = "decide",
                          ![q].staged = pending # None,
                          ![q].up = q \in CheckRequests /\ proc # "down"]
    /\ UNCHANGED <<clock, vars>>

-----------------------------------------------------------------------------
(* get_updater_status, after it has probed the trigger listener.           *)

NothingToRecover(q) ==
    /\ At(q, "decide")
    /\ q \in StatusRequests
    /\ ~req[q].staged \/ req[q].active
    /\ Finish(q)
    /\ UNCHANGED <<clock, vars>>

CoolingDown(q) ==
    /\ At(q, "decide")
    /\ q \in StatusRequests
    /\ req[q].staged /\ ~req[q].active
    /\ cooldown
    /\ Finish(q)
    /\ UNCHANGED <<clock, vars>>

\* Variant: the attempt is not recorded before the restart is awaited.
CooldownFrom_Later == cooldown

\* The attempt is recorded before the restart is awaited.
CooldownFrom == TRUE

BeginRecovery(q) ==
    /\ At(q, "decide")
    /\ q \in StatusRequests
    /\ req[q].staged /\ ~req[q].active
    /\ ~cooldown
    /\ cooldown' = CooldownFrom
    /\ recoveries' = recoveries + 1
    /\ Await(q, "restart")
    /\ UNCHANGED vars

\* Sixty seconds go by since the attempt was recorded, whether or not the restart
\* that it awaits has come back: systemctl is given no timeout.
CooldownPasses ==
    /\ cooldown
    /\ cooldown' = FALSE
    /\ recoveries' = 0
    /\ UNCHANGED <<req, vars>>

-----------------------------------------------------------------------------
(* trigger_update_check_now, after it has probed the trigger listener.     *)

RejectActive(q) ==
    /\ At(q, "decide")
    /\ q \in CheckRequests
    /\ req[q].active /\ req[q].up
    /\ proc # "down"
    /\ Finish(q)
    /\ UNCHANGED <<clock, vars>>

RestartToApply(q) ==
    /\ At(q, "decide")
    /\ q \in CheckRequests
    /\ req[q].staged /\ ~req[q].active
    /\ Await(q, "restart")
    /\ UNCHANGED <<clock, vars>>

\* Nothing is staged, or the updater looks busy but its listener did not answer
\* in time.
ForwardCheck(q) ==
    /\ At(q, "decide")
    /\ q \in CheckRequests
    /\ ~req[q].staged \/ req[q].active
    /\ Await(q, "post")
    /\ UNCHANGED <<clock, vars>>

-----------------------------------------------------------------------------
(* _restart_service, on a thread, and _post_trigger_url.                   *)

\* "systemctl restart" stops whatever the updater is doing; Start follows.
RestartUpdater(q) ==
    /\ At(q, "restart")
    /\ IF proc = "down" THEN UNCHANGED vars
       ELSE Kill /\ UNCHANGED bounds
    /\ Finish(q)
    /\ UNCHANGED clock

\* The restart is refused; check-now falls back to the trigger.
RestartFails(q) ==
    /\ At(q, "restart")
    /\ IF q \in CheckRequests
       THEN Await(q, "post")
       ELSE Finish(q)
    /\ UNCHANGED <<clock, vars>>

\* The listener starts a cycle on a task of its own.
TriggerAccepted(q) ==
    /\ At(q, "post")
    /\ \E t \in Triggers : BeginTriggered(t)
    /\ Finish(q)
    /\ UNCHANGED clock

\* Nobody listens, the answer is late, or a cycle in flight makes it a no-op.
TriggerIgnored(q) ==
    /\ At(q, "post")
    /\ Finish(q)
    /\ UNCHANGED <<clock, vars>>

-----------------------------------------------------------------------------

RequestStep(q) ==
    \/ ReadState(q) \/ ReadPending(q)
    \/ NothingToRecover(q) \/ CoolingDown(q) \/ BeginRecovery(q)
    \/ RejectActive(q) \/ RestartToApply(q) \/ ForwardCheck(q)
    \/ RestartUpdater(q) \/ RestartFails(q)
    \/ TriggerAccepted(q) \/ TriggerIgnored(q)

StatusNext ==
    \/ Next /\ UNCHANGED statusVars
    \/ \E q \in Request : RequestStep(q)
    \/ CooldownPasses

StatusSpec == StatusInit /\ [][StatusNext]_allVars

-----------------------------------------------------------------------------
(* Correctness.  UpdateAgent's RebootWillApply and OneCycleAtATime must    *)
(* survive restarts at any moment.                                         *)

\* Every variable of the composition stays in its type.
StatusTypeOK ==
    /\ TypeOK
    /\ req \in [Request -> [stage : {"idle", "pending", "decide", "restart", "post"},
                            active : BOOLEAN, staged : BOOLEAN, up : BOOLEAN]]
    /\ cooldown \in BOOLEAN
    /\ recoveries \in Nat

\* However many status pages poll, and however long a restart takes, the updater is
\* not restarted a second time for a staged release before the cooldown has passed:
\* no await separates the test of the cooldown from its start.  (Two restarts may well
\* be in flight at once, when the first takes longer than the cooldown.)
OneRecoveryPerCooldown == recoveries <= 1

-----------------------------------------------------------------------------
(* What the tests promise and the composition does not keep.               *)

\* An active updater is left alone: a request stops it only in a state that is
\* not a busy one.  (With MaxCrashes = 0 nothing else stops it.)
ActiveUpdaterSpared ==
    [][proc # "down" /\ proc' = "down" => st.state \notin ActiveStates]_allVars

=============================================================================
