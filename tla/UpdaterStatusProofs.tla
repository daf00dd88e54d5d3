------------------------- MODULE UpdaterStatusProofs -------------------------
(***************************************************************************)
(* Theorems about UpdaterStatus, for every value of its constants: what    *)
(* UpdateAgent guarantees of its lock and its announcements holds although *)
(* the backend may restart it at any moment, through any number of         *)
(* concurrent requests.                                                    *)
(***************************************************************************)
EXTENDS UpdaterStatus, UpdateAgentProofs

\* A step of the composition is, for the updater, one of its own steps, a stutter,
\* or a kill.
LEMMA StatusStepShape ==
    ASSUME [StatusNext]_allVars
    PROVE  [Next]_vars \/ (Kill /\ UNCHANGED bounds)
<1>1. CASE UNCHANGED allVars
  BY <1>1 DEF allVars
<1>2. CASE \E q \in Request : RequestStep(q)
  <2> PICK q \in Request : RequestStep(q)
    BY <1>2
  <2>1. CASE RestartUpdater(q)
    BY <2>1 DEF RestartUpdater
  <2>2. CASE TriggerAccepted(q)
    BY <2>2 DEF TriggerAccepted, Next, Task
  <2>3. QED
    BY <2>1, <2>2 DEF RequestStep, ReadState, ReadPending, NothingToRecover,
       CoolingDown, BeginRecovery, RejectActive, RestartToApply, ForwardCheck,
       RestartFails, TriggerIgnored
<1>3. CASE CooldownPasses
  BY <1>3 DEF CooldownPasses
<1>4. QED
  BY <1>1, <1>2, <1>3 DEF StatusNext

AgentInv == TypeInv /\ OneCycleAtATime /\ NobodyWaitsInVain /\ RebootInv

LEMMA AgentInvariant == StatusSpec => []AgentInv
<1>1. StatusInit => AgentInv
  BY TypeInit, WaitsInit, RebootInit, NoCycleFacts
  DEF StatusInit, AgentInv, Init, OneCycleAtATime
<1>2. ASSUME AgentInv, [StatusNext]_allVars
      PROVE  AgentInv'
  <2>1. CASE [Next]_vars
    BY <1>2, <2>1, TypeStep, OneCycleStep, WaitsStep, RebootStep DEF AgentInv, RebootHyp
  <2>2. CASE Kill /\ UNCHANGED bounds
    <3>1. TypeInv'
      BY <1>2, <2>2, KillType DEF AgentInv, TypeInv, TypeOK, bounds
    <3>2. RebootInv'
      BY <1>2, <2>2, KillReboot DEF AgentInv, RebootHyp
    <3>3. OneCycleAtATime'
      BY <2>2, NoCycleFacts DEF Kill, OneCycleAtATime
    <3>4. QED
      BY <2>2, <3>1, <3>2, <3>3, KillWaits DEF AgentInv
  <2>3. QED
    BY <1>2, <2>1, <2>2, StatusStepShape
<1>3. QED
  BY <1>1, <1>2, PTL DEF StatusSpec

\* Restarts and triggers from the backend never let two update cycles interleave.
THEOREM OneCycleUnderRestarts == StatusSpec => []OneCycleAtATime
BY AgentInvariant, PTL DEF AgentInv

\* Restarting the updater in the middle of a cycle leaves no lock behind, and no
\* loop that waits for what the restart has ended.
THEOREM NoVainWaitUnderRestarts == StatusSpec => []NobodyWaitsInVain
BY AgentInvariant, PTL DEF AgentInv

\* However often the backend restarts the updater, an announced reboot finds a
\* release to apply.
THEOREM RebootPromiseUnderRestarts == StatusSpec => []RebootWillApply
BY AgentInvariant, PTL DEF AgentInv, RebootInv

(***************************************************************************)
(* The cooldown.                                                           *)
(***************************************************************************)

RequestRecord ==
    [stage : {"idle", "pending", "decide", "restart", "post"},
     active : BOOLEAN, staged : BOOLEAN, up : BOOLEAN]

CooldownInv ==
    /\ req \in [Request -> RequestRecord]
    /\ cooldown \in BOOLEAN
    /\ recoveries \in {0, 1}
    /\ ~cooldown => recoveries = 0

\* A request that moves on without beginning a recovery.
LEMMA NoNewRecovery ==
    ASSUME CooldownInv, NEW q \in Request, NEW new \in RequestRecord,
           req' = [req EXCEPT ![q] = new], UNCHANGED clock
    PROVE  CooldownInv'
BY DEF CooldownInv, clock

LEMMA Records ==
    /\ NoRequest \in RequestRecord
    /\ \A s \in {"restart", "post"} :
          /\ [NoRequest EXCEPT !.stage = s] \in RequestRecord
          /\ [NoRequest EXCEPT !.stage = s].stage = s
    /\ NoRequest.stage = "idle"
BY DEF NoRequest, RequestRecord

LEMMA RequestKeepsCooldown ==
    ASSUME CooldownInv, NEW q \in Request, RequestStep(q)
    PROVE  CooldownInv'
<1>0. req[q] \in RequestRecord
  BY DEF CooldownInv
<1>1. CASE ReadState(q)
  <2> DEFINE new == [req[q] EXCEPT !.stage = "pending",
                                   !.active = st.state \in ActiveStates]
  <2>1. new \in RequestRecord /\ new.stage = "pending"
    <3>1. \A b \in BOOLEAN :
             LET r == [req[q] EXCEPT !.stage = "pending", !.active = b]
             IN  r \in RequestRecord /\ r.stage = "pending"
      BY <1>0 DEF RequestRecord
    <3>2. (st.state \in ActiveStates) \in BOOLEAN
      OBVIOUS
    <3>3. QED
      BY <3>1, <3>2, Zenon
  <2>2. req' = [req EXCEPT ![q] = new] /\ UNCHANGED clock
    BY <1>1 DEF ReadState
  <2>3. QED
    BY <2>1, <2>2, NoNewRecovery
<1>2. CASE ReadPending(q)
  <2> DEFINE new == [req[q] EXCEPT !.stage = "decide", !.staged = pending # None,
                                   !.up = q \in CheckRequests /\ proc # "down"]
  <2>1. new \in RequestRecord /\ new.stage = "decide"
    BY <1>0 DEF RequestRecord
  <2>2. req' = [req EXCEPT ![q] = new] /\ UNCHANGED clock
    BY <1>2 DEF ReadPending
  <2>3. QED
    BY <2>1, <2>2, NoNewRecovery
<1>3. CASE Finish(q) /\ UNCHANGED clock
  BY <1>3, Records, NoNewRecovery DEF Finish
<1>4. CASE BeginRecovery(q)
  <2>1. req' \in [Request -> RequestRecord]
    BY <1>4, Records DEF CooldownInv, BeginRecovery, Await
  <2>2. cooldown' = TRUE /\ recoveries' = 1
    BY <1>4 DEF CooldownInv, BeginRecovery, CooldownFrom
  <2>3. QED
    BY <2>1, <2>2 DEF CooldownInv
<1>5. CASE q \in CheckRequests /\ UNCHANGED clock
           /\ (Await(q, "restart") \/ Await(q, "post"))
  BY <1>5, Records, NoNewRecovery, RequestAssumption DEF Await
<1>6. QED
  BY <1>1, <1>2, <1>3, <1>4, <1>5
  DEF RequestStep, NothingToRecover, CoolingDown, RejectActive, RestartToApply,
      ForwardCheck, RestartUpdater, RestartFails, TriggerAccepted, TriggerIgnored

LEMMA CooldownInvariant == StatusSpec => []CooldownInv
<1>1. StatusInit => CooldownInv
  BY Records DEF StatusInit, CooldownInv
<1>2. ASSUME CooldownInv, [StatusNext]_allVars
      PROVE  CooldownInv'
  <2>1. CASE UNCHANGED statusVars
    BY <1>2, <2>1 DEF CooldownInv, statusVars
  <2>2. CASE CooldownPasses
    BY <1>2, <2>2 DEF CooldownInv, CooldownPasses
  <2>3. QED
    BY <1>2, <2>1, <2>2, RequestKeepsCooldown DEF StatusNext, allVars
<1>3. QED
  BY <1>1, <1>2, PTL DEF StatusSpec

\* The test of the cooldown and its start are one step of the event loop, so the
\* status endpoint attempts at most one recovery in each cooldown, for any number of
\* requests and however long a restart takes.
THEOREM OneRecovery == StatusSpec => []OneRecoveryPerCooldown
<1>1. CooldownInv => OneRecoveryPerCooldown
  BY DEF CooldownInv, OneRecoveryPerCooldown
<1>2. QED
  BY <1>1, CooldownInvariant, PTL

\* Every variable of the composition stays in its type: the records of the requests,
\* and the updater's own variables, which a restart may reset at any step.
THEOREM StatusTypeCorrect == StatusSpec => []StatusTypeOK
<1>1. AgentInv /\ CooldownInv => StatusTypeOK
  BY DEF AgentInv, TypeInv, CooldownInv, RequestRecord, StatusTypeOK
<1>2. QED
  BY <1>1, AgentInvariant, CooldownInvariant, PTL

=============================================================================
