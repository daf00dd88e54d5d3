----------------------------- MODULE SetupWizard -----------------------------
(***************************************************************************)
(* The setup wizard (client/onboarding.html) of one user, composed with    *)
(* the control server of the device it sets up.  The page finds servers on *)
(* the LAN, offers to join one or to become one, asks for confirmation,    *)
(* applies the choice and tells the user what the device is now.           *)
(*                                                                         *)
(* The page is event driven: answers and timers may arrive after the user  *)
(* has gone on, and several scans may be under way.                        *)
(***************************************************************************)
EXTENDS ControlServer

CONSTANTS
    Installer,   \* the user in front of the wizard, one of Users
    Others,      \* other servers on the LAN that may answer a probe
    MaxPending   \* bound: scans and timers pending at the same time

VARIABLES
    panel,    \* the panel shown
    found,    \* wizardState.serversFound
    picked,   \* wizardState.selectedServer
    intent,   \* wizardState.intendedRole
    scans,    \* discovery requests under way
    timers,   \* pending setTimeout(() => goStep(5))
    endings,  \* pending setTimeout(() => goStep(8))
    outcome   \* what became of the activation (wizMsg7)

pageVars == <<found, picked, intent>>
timerVars == <<scans, timers, endings>>
wizardVars == <<panel, pageVars, timerVars, outcome>>
allVars == <<vars, wizardVars>>

\* This device answers its own probe while its beacon is on.
Responders == Others \cup (IF Live # None THEN {"self"} ELSE {})

\* What the answer to a probe tells, and what joinAsSatellite insists on.
AnswerFields == {"address", "device_id", "device_name"}
JoinNeeds == {"address", "server_user_id"}

WizardInit ==
    /\ Init
    /\ panel = "signin" /\ found = {} /\ picked = None /\ intent = None
    /\ scans = 0 /\ timers = 0 /\ endings = 0 /\ outcome = None

OnPanel(ps) == panel \in ps /\ UNCHANGED vars

\* goStep(4), reached by the token check of step 3, "back" and "scan again", shows
\* the scan panel and starts another scan.
StartScan ==
    /\ OnPanel({"signin", "scan", "servers", "noServer"})
    /\ panel = "signin" => Installer \in token
    /\ scans + timers < MaxPending
    /\ panel' = "scan"
    /\ scans' = scans + 1
    /\ UNCHANGED <<pageVars, timers, endings, outcome>>

\* Probes and answers are datagrams: any of them may be lost.  The handler keeps
\* the event loop for the whole scan; a failed request counts as "no servers".
ScanEnds ==
    /\ scans > 0
    /\ \/ /\ up
          /\ found' \in SUBSET Responders
          /\ beacon' = Live /\ built' = TRUE /\ Keep
          /\ UNCHANGED <<userVars, up, req>>
       \/ found' = {} /\ UNCHANGED vars
    /\ scans' = scans - 1 /\ timers' = timers + 1
    /\ UNCHANGED <<panel, picked, intent, endings, outcome>>

\* goStep(5), which the servers found by now decide.
Offer ==
    /\ panel' = IF found # {} THEN "servers" ELSE "noServer"
    /\ picked' \in IF found # {} THEN found ELSE {picked}
    /\ UNCHANGED <<vars, found, intent, scans, endings, outcome>>

\* The timer of a scan fires wherever the user is by then.
TimerFires ==
    /\ timers > 0
    /\ timers' = timers - 1
    /\ Offer

Back ==
    /\ panel = "confirm"
    /\ Offer
    /\ UNCHANGED timers

Choose(role) ==
    /\ OnPanel({IF role = "satellite" THEN "servers" ELSE "noServer"})
    /\ intent' = role
    /\ panel' = "confirm"
    /\ UNCHANGED <<found, picked, timerVars, outcome>>

-----------------------------------------------------------------------------
(* runActivation.                                                          *)

\* The request of an activation is under way, or its result is known; then a
\* timer takes the page to step 8, after a success and an error alike.
Result(o) ==
    /\ outcome' = o
    /\ endings' = IF o = "sent" THEN endings ELSE endings + 1
    /\ UNCHANGED <<pageVars, scans, timers>>

\* Bound: one activation at a time.
Confirm(o) ==
    /\ panel = "confirm"
    /\ outcome # "sent" /\ endings < MaxPending
    /\ panel' = "apply"
    /\ Result(o)

\* The request is sent; the backend may be down or refuse the token.
ActivateServer ==
    /\ intent = "server"
    /\ \/ Confirm("sent") /\ Verify(Installer, "promote")
       \/ Confirm("error") /\ (Installer \notin token \/ ~up) /\ UNCHANGED vars

Applied ==
    /\ outcome = "sent"
    /\ Promote(Installer)
    /\ Result("ok") /\ UNCHANGED panel

NotApplied ==
    /\ outcome = "sent"
    /\ PromoteFails(Installer) \/ Crash
    /\ Result("error") /\ UNCHANGED panel

\* joinAsSatellite throws before it sends anything when an argument is empty.
ActivateSatellite ==
    /\ intent = "satellite"
    /\ IF JoinNeeds \subseteq AnswerFields
       THEN Join /\ Confirm(IF failed' = failed THEN "ok" ELSE "error")
       ELSE UNCHANGED vars /\ Confirm("error")

Skip ==
    /\ intent = "skip"
    /\ Confirm("ok")
    /\ UNCHANGED vars

Complete ==
    /\ endings > 0
    /\ endings' = endings - 1
    /\ panel' = "done"
    /\ UNCHANGED <<vars, pageVars, scans, timers, outcome>>

\* "Restart Wizard" forgets the choices; timers stay pending.
Restart ==
    /\ OnPanel({"done"})
    /\ panel' = "signin" /\ found' = {} /\ picked' = None /\ intent' = None
    /\ UNCHANGED <<timerVars, outcome>>

\* The device goes on with everything else.
DeviceStep ==
    /\ \/ \E u \in Users : SignIn(u) \/ TokenEnds(u)
       \/ GetStatus \/ UpdaterDeletesFile \/ Start
       \/ Crash /\ outcome # "sent"
    /\ UNCHANGED wizardVars

WizardNext ==
    \/ StartScan \/ ScanEnds \/ TimerFires \/ Back
    \/ \E role \in {"server", "satellite", "skip"} : Choose(role)
    \/ ActivateServer \/ ActivateSatellite \/ Skip
    \/ Applied \/ NotApplied \/ Complete \/ Restart
    \/ DeviceStep

WizardSpec == WizardInit /\ [][WizardNext]_allVars

-----------------------------------------------------------------------------
(* What the page says.                                                     *)

\* "This device is now a satellite" is shown only after the device has joined.
SatelliteWhenToldSo ==
    panel = "done" /\ intent = "satellite" => outcome = "ok"

=============================================================================
