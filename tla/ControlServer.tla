---------------------------- MODULE ControlServer ----------------------------
(***************************************************************************)
(* The control-server role of one device                                   *)
(* (backend/services/control_server.py and routes/control_server_api.py):  *)
(* unconfigured, server or satellite, kept in config/control_server.json.  *)
(* A server runs a beacon thread that answers discovery probes on the LAN  *)
(* with the device's id and name, and belongs to the user who promoted it. *)
(*                                                                         *)
(* The file is written in place.  A write may fail, or the backend may end *)
(* in the middle of one, and then the file holds nothing that parses; the  *)
(* updater deletes it with the other untracked files of config/.           *)
(* Handlers run on one event loop without awaits: each is one step.  The   *)
(* bearer token is verified before, on a thread: it is another step.       *)
(***************************************************************************)
EXTENDS Naturals

CONSTANTS
    Users,         \* accounts of this device
    Names,         \* device names
    DefaultName,   \* the name of a device nobody has named
    None,          \* no file, no beacon, no owner
    MaxLosses      \* bound: how often the state file is lost

ASSUME NameAssumption == DefaultName \in Names
ASSUME LossAssumption == MaxLosses \in Nat

VARIABLES
    file,      \* control_server.json, None when it does not parse or is missing
    up,        \* does the backend run?
    built,     \* is the service constructed? (the first request does it)
    beacon,    \* what the beacon thread announces, None without a thread
    acct,      \* the account of each user: never made, active, revoked
    token,     \* users with an access token that has not expired
    req,       \* what each user's page is doing
    ids,       \* the highest device id stored so far; ids are numbered as drawn
    losses,    \* how often a state file with contents was lost
    failed     \* did a write of the file fail since the backend started?

serviceVars == <<file, built, beacon, ids, losses, failed>>
userVars == <<acct, token>>
vars == <<serviceVars, userVars, up, req>>

Roles == {"unconfigured", "server", "satellite"}

State == [role : Roles, id : Nat, name : Names, owner : Users \cup {None}]

Announcements == [id : Nat, name : Names]

ASSUME NoneAssumption ==
    None \notin Users /\ None \notin State /\ None \notin Announcements

\* What a user's page may ask for, once its token was verified.
Requests == {"promote", "reset", "delete", "ask"}

Active == {u \in Users : acct[u] = "active"}

HasRole(r) == file # None /\ file.role = r

Announcement(s) == [id |-> s.id, name |-> s.name]

\* Variant: a device that was never configured has no name yet.
Read_NoName ==
    IF file = None
    THEN [role |-> "unconfigured", id |-> ids + 1, name |-> None, owner |-> None]
    ELSE file

\* A file without contents reads as a device that was never configured, with an
\* id that is drawn anew by each read.
Read ==
    IF file = None
    THEN [role |-> "unconfigured", id |-> ids + 1, name |-> DefaultName, owner |-> None]
    ELSE file

\* Variant: only a promotion starts the beacon.
Live_NotStarted == beacon

\* The constructor starts the beacon of a device that was a server.
Live ==
    IF built THEN beacon
    ELSE IF HasRole("server") THEN Announcement(file) ELSE None

\* can_edit_layout.  (Of users nobody has verified, too, as long as the device
\* is not configured.)
CanEdit(u) ==
    CASE Read.role = "unconfigured" -> TRUE
      [] Read.role = "server"       -> Read.owner = u
      [] Read.role = "satellite"    -> FALSE

-----------------------------------------------------------------------------
(* The state file.                                                         *)

Write(s) ==
    /\ file' = s
    /\ ids' = IF s.id > ids THEN s.id ELSE ids
    /\ UNCHANGED <<losses, failed>>

LoseFile ==
    /\ file # None
    /\ losses < MaxLosses
    /\ file' = None
    /\ losses' = losses + 1

\* OSError from write_text: before the file was truncated, or after.
WriteFails ==
    /\ failed' = TRUE
    /\ LoseFile \/ UNCHANGED <<file, losses>>
    /\ UNCHANGED ids

\* A role without an owner; the id and the name stay.
Plain(r) == [Read EXCEPT !.role = r, !.owner = None]

-----------------------------------------------------------------------------
(* promote_to_server, shared by the promotion and by the recovery.         *)

\* Variant: a server is left as it is, whoever asks.
Owned_ByAnyone(u) == HasRole("server")

Owned(u) == HasRole("server") /\ file.owner = u

Keep == UNCHANGED <<file, ids, losses, failed>>

\* Variant: the state of a server is built anew, and draws an id, instead of changed.
Served_NewId(u, n) == [role |-> "server", id |-> ids + 1, name |-> n, owner |-> u]

Served(u, n) == [role |-> "server", id |-> Read.id, name |-> n, owner |-> u]

\* Variant: a beacon that is already on is left alone.
Promoted_KeepsBeacon(u, n) ==
    /\ IF Owned(u)
       THEN Keep /\ beacon' = Live
       ELSE /\ Write(Served(u, n))
            /\ beacon' = IF Live # None THEN Live ELSE Announcement(Served(u, n))
    /\ built' = TRUE

\* Idempotent for the owner; anyone else takes the device over.
Promoted(u, n) ==
    /\ IF Owned(u)
       THEN Keep /\ beacon' = Live
       ELSE Write(Served(u, n)) /\ beacon' = Announcement(Served(u, n))
    /\ built' = TRUE

\* The beacon is started after the write.
NotPromoted(u) ==
    /\ ~Owned(u)
    /\ WriteFails
    /\ beacon' = Live
    /\ built' = TRUE

\* join_as_satellite and reset_role stop the beacon before they write.
Unserved(r) ==
    /\ Write(Plain(r)) \/ WriteFails
    /\ beacon' = None
    /\ built' = TRUE

-----------------------------------------------------------------------------
(* The routes.                                                             *)

Goto(u, s) == req' = [req EXCEPT ![u] = s]

\* user_principal_dependency, on a thread of the pool.
Verify(u, k) ==
    /\ up
    /\ u \in token
    /\ req[u] \in {"idle", "granted"}
    /\ Goto(u, k)
    /\ UNCHANGED <<serviceVars, userVars, up>>

\* The handler runs, although the token or the account may be gone by now.
Serving(u, k) ==
    /\ up
    /\ req[u] = k
    /\ UNCHANGED <<token, up>>

Promote(u) ==
    /\ Serving(u, "promote")
    /\ \E n \in Names : Promoted(u, n)
    /\ Goto(u, "idle")
    /\ UNCHANGED acct

PromoteFails(u) ==
    /\ Serving(u, "promote")
    /\ NotPromoted(u)
    /\ Goto(u, "idle")
    /\ UNCHANGED acct

Reset(u) ==
    /\ Serving(u, "reset")
    /\ Unserved("unconfigured")
    /\ Goto(u, "idle")
    /\ UNCHANGED acct

\* Joining needs no token.
Join ==
    /\ up
    /\ Unserved("satellite")
    /\ UNCHANGED <<userVars, up, req>>

\* GET /api/control/status, the request that constructs the service on most
\* devices: the status page sends it when it opens.
GetStatus ==
    /\ up
    /\ ~built
    /\ beacon' = Live
    /\ built' = TRUE
    /\ Keep
    /\ UNCHANGED <<userVars, up, req>>

\* Any user may delete any account; access tokens stay valid.
DeleteUser(u, v) ==
    /\ Serving(u, "delete")
    /\ acct' = [acct EXCEPT ![v] = IF @ = "active" THEN "revoked" ELSE @]
    /\ Goto(u, "idle")
    /\ UNCHANGED serviceVars

-----------------------------------------------------------------------------
(* GET /api/control/permissions/layout-edit.                               *)

\* Variant: an owner who is not signed in counts as missing.
OwnerMissing_SignedOut == HasRole("server") /\ file.owner \notin token

OwnerMissing == HasRole("server") /\ file.owner \notin Active

AskWithoutUsers(u) ==
    /\ Serving(u, "ask")
    /\ Active = {}
    /\ beacon' = Live /\ built' = TRUE /\ Keep
    /\ Goto(u, "idle")
    /\ UNCHANGED acct

\* Ownership that points at a missing user goes to the one who asks.
Recover(u) ==
    /\ Serving(u, "ask")
    /\ Active # {}
    /\ OwnerMissing
    /\ Promoted(u, file.name)
    /\ Goto(u, "granted")
    /\ UNCHANGED acct

RecoverFails(u) ==
    /\ Serving(u, "ask")
    /\ Active # {}
    /\ OwnerMissing
    /\ NotPromoted(u)
    /\ Goto(u, "idle")
    /\ UNCHANGED acct

Answer(u) ==
    /\ Serving(u, "ask")
    /\ Active # {}
    /\ ~OwnerMissing
    /\ beacon' = Live /\ built' = TRUE /\ Keep
    /\ Goto(u, IF CanEdit(u) THEN "granted" ELSE "idle")
    /\ UNCHANGED acct

-----------------------------------------------------------------------------
(* The environment.                                                        *)

\* Registration or login; a revoked account does not come back.
SignIn(u) ==
    /\ up
    /\ acct[u] # "revoked"
    /\ acct' = [acct EXCEPT ![u] = "active"]
    /\ token' = token \cup {u}
    /\ UNCHANGED <<serviceVars, up, req>>

\* Expiry or logout.
TokenEnds(u) ==
    /\ u \in token
    /\ token' = token \ {u}
    /\ UNCHANGED <<serviceVars, acct, up, req>>

\* An update of the install prunes config/, under a running backend or not.
UpdaterDeletesFile ==
    /\ LoseFile
    /\ UNCHANGED <<userVars, up, req, built, beacon, ids, failed>>

\* The end of the backend, in the middle of a write or not.
Crash ==
    /\ up
    /\ LoseFile \/ UNCHANGED <<file, losses>>
    /\ up' = FALSE /\ built' = FALSE /\ beacon' = None
    /\ req' = [u \in Users |-> "idle"]
    /\ UNCHANGED <<userVars, ids, failed>>

Start ==
    /\ ~up
    /\ up' = TRUE
    /\ failed' = FALSE
    /\ UNCHANGED <<userVars, req, file, built, beacon, ids, losses>>

-----------------------------------------------------------------------------

Init ==
    /\ file = None /\ ids = 0 /\ losses = 0
    /\ up = FALSE /\ built = FALSE /\ beacon = None /\ failed = FALSE
    /\ acct = [u \in Users |-> "none"]
    /\ token = {}
    /\ req = [u \in Users |-> "idle"]

Next ==
    \/ \E u \in Users, k \in Requests : Verify(u, k)
    \/ \E u \in Users : Promote(u) \/ PromoteFails(u) \/ Reset(u)
    \/ \E u, v \in Users : DeleteUser(u, v)
    \/ \E u \in Users : AskWithoutUsers(u) \/ Recover(u) \/ RecoverFails(u) \/ Answer(u)
    \/ \E u \in Users : SignIn(u) \/ TokenEnds(u)
    \/ Join \/ GetStatus \/ UpdaterDeletesFile \/ Crash \/ Start

Spec == Init /\ [][Next]_vars

-----------------------------------------------------------------------------
(* Correctness.                                                            *)

\* Every variable stays in its type.
TypeOK ==
    /\ file \in State \cup {None}
    /\ up \in BOOLEAN /\ built \in BOOLEAN /\ failed \in BOOLEAN
    /\ beacon \in Announcements \cup {None}
    /\ acct \in [Users -> {"none", "active", "revoked"}]
    /\ token \in SUBSET Users
    /\ req \in [Users -> Requests \cup {"idle", "granted"}]
    /\ ids \in Nat /\ losses \in Nat

\* As long as the state file has contents, a beacon announces exactly the id and
\* the name stored in it, and only for a server: through take-overs, failed
\* writes, deletions of the file and restarts.
BeaconNeverLies ==
    beacon # None /\ file # None => HasRole("server") /\ beacon = Announcement(file)

\* A server whose service runs is discoverable, unless a write has failed since
\* the backend started (joining and resetting stop the beacon before they write).
SilentOnlyAfterFailure ==
    built /\ HasRole("server") /\ beacon = None => failed

\* Other devices know this one by its id.  Every loss of the state file costs it
\* one id at most, and take-overs, role changes, failed writes and restarts cost
\* none: what is stored carries the last id drawn after a loss.
IdentityPerLoss ==
    /\ ids <= losses + 1
    /\ file # None => file.id = ids

\* The permission endpoint takes a device away from its owner only when that
\* account is gone: an active owner is followed by another one only through a
\* promotion that this other user has asked for.
RecoverySparesOwners ==
    [][HasRole("server") /\ file.owner \in Active
         /\ HasRole("server")' /\ file'.owner # file.owner
       => \E u \in Users : req[u] = "promote" /\ file'.owner = u]_vars

\* The two endpoints agree: who is told that he may edit the layout passes the
\* check of the endpoint that saves it.
PermissionIsKept ==
    [][\A u \in Users : req[u] = "ask" /\ req'[u] = "granted" => CanEdit(u)']_vars

=============================================================================
