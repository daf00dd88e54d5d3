------------------------------ MODULE AuthDevices ------------------------------
(***************************************************************************)
(* The device registry of backend/services/unified_auth.py: registration,  *)
(* pairing by code or QR token, AutoMode, transfer, revocation, heartbeat, *)
(* and what the deletion of an account does to its devices.  Four handlers *)
(* link a device, each in its own copy of the code, and a fingerprint must *)
(* not be linked twice.                                                    *)
(*                                                                         *)
(* A handler is one step (see AuthAccounts); the account of the principal  *)
(* it runs for may have been deleted since the bearer token was verified,  *)
(* and an access token outlives its account anyway: a user who ever signed *)
(* in may act.  Refusals change nothing and have no action.                *)
(***************************************************************************)
EXTENDS Naturals, Sequences, FiniteSets

CONSTANTS
    User, Device, Fingerprint,
    Session,           \* pairing sessions
    Item,              \* AutoMode discoveries
    None,
    CodeTTL, QrTTL,    \* how long the code and the QR token of a session last
    MaxNow             \* bound of the clock

ASSUME TTLAssumption == CodeTTL \in Nat \ {0} /\ QrTTL \in Nat \ {0}
ASSUME BoundAssumption == MaxNow \in Nat
Sources == {"manual-register", "pairing", "automode"}

ASSUME NoneAssumption ==
    None \notin User /\ None \notin Device /\ None \notin Fingerprint /\ None \notin Sources

VARIABLES
    now,
    account,        \* accounts: none, active, deleted
    device,         \* devices
    pairing,        \* pairing_sessions
    pending,        \* automode.pending: the fingerprint seen, None without an entry
    history,        \* automode.history
    handed, uses    \* history: single-use tickets handed out, and their uses

vars == <<now, account, device, pairing, pending, history, handed, uses>>

Devices == [fingerprint : Fingerprint \cup {None}, owner : User \cup {None},
            revoked : BOOLEAN, status : {"none", "active", "revoked"},
            source : Sources \cup {None}]
NoDevice == [fingerprint |-> None, owner |-> None, revoked |-> FALSE,
             status |-> "none", source |-> None]

Pairings == [status : {"absent", "pending", "claimed", "completed"},
             fingerprint : Fingerprint \cup {None}, codeExp : Nat, qrExp : Nat,
             exp : Nat, device : Device \cup {None}]
NoPairing == [status |-> "absent", fingerprint |-> None, codeExp |-> 0, qrExp |-> 0,
              exp |-> 0, device |-> None]

Decisions == [item : Item, outcome : {"approved", "denied"}, device : Device \cup {None}]

Ticket == ({"claim", "collect"} \X Session) \cup ({"decide"} \X Item)

Known(u) == account[u] # "none"

Exists(d) == device[d].status # "none"

\* Variant: a paired device does not count.
Linked_Unpaired(f) ==
    \E d \in Device : /\ device[d].fingerprint = f /\ ~device[d].revoked
                      /\ device[d].source # "pairing"

\* The check that each of the linking handlers makes.
Linked(f) == \E d \in Device : device[d].fingerprint = f /\ ~device[d].revoked

\* _cleanup
KeptPairings ==
    [s \in Session |-> IF pairing[s].status \in {"pending", "claimed"} /\ pairing[s].exp > now
                       THEN pairing[s] ELSE NoPairing]

HandOut(t) == handed' = handed \cup {t}

Use(t) == uses' = [uses EXCEPT ![t] = @ + 1]

\* The new record that a linking handler writes.
Link(d, f, u, source) ==
    /\ Known(u)
    /\ ~Linked(f)
    /\ ~Exists(d)
    /\ device' = [device EXCEPT ![d] = [fingerprint |-> f, owner |-> u, revoked |-> FALSE,
                                        status |-> "active", source |-> source]]

-----------------------------------------------------------------------------
(* Devices.                                                                *)

RegisterDevice(u, d, f) ==
    /\ Link(d, f, u, "manual-register")
    /\ pairing' = KeptPairings
    /\ UNCHANGED <<now, account, pending, history, handed, uses>>

RevokeDevice(u, d) ==
    /\ Exists(d) /\ device[d].owner = u
    /\ device' = [device EXCEPT ![d].revoked = TRUE, ![d].status = "revoked"]
    /\ pairing' = KeptPairings
    /\ UNCHANGED <<now, account, pending, history, handed, uses>>

\* A revoked device may be transferred, and the target may be a deleted account.
TransferDevice(u, d, v) ==
    /\ Exists(d) /\ device[d].owner = u
    /\ Known(v)
    /\ device' = [device EXCEPT ![d].owner = v]
    /\ pairing' = KeptPairings
    /\ UNCHANGED <<now, account, pending, history, handed, uses>>

\* Variant: only the token is looked at, not the record.
Alive_Token(d) == Exists(d)

Alive(d) == Exists(d) /\ ~device[d].revoked

\* The device reports a status of its own wording.
Heartbeat(d, wording) ==
    /\ Alive(d)
    /\ device' = [device EXCEPT ![d].status = wording]
    /\ pairing' = KeptPairings
    /\ UNCHANGED <<now, account, pending, history, handed, uses>>

-----------------------------------------------------------------------------
(* Pairing.                                                                *)

Later(a, b) == IF a > b THEN a ELSE b

CreatePairing(s, f) ==
    /\ <<"claim", s>> \notin handed
    /\ pairing' = [KeptPairings EXCEPT ![s] =
           [status |-> "pending", fingerprint |-> f, codeExp |-> now + CodeTTL,
            qrExp |-> now + QrTTL, exp |-> now + Later(CodeTTL, QrTTL), device |-> None]]
    /\ HandOut(<<"claim", s>>)
    /\ UNCHANGED <<now, account, device, pending, history, uses>>

\* Variant: the session names no device, as it did when it was created.
Claimed_Unnamed(s, d) == [KeptPairings EXCEPT ![s].status = "claimed"]

\* Variant: the session gets the status of the device.
Claimed_Active(s, d) == [KeptPairings EXCEPT ![s].status = "active", ![s].device = d]

Claimed(s, d) == [KeptPairings EXCEPT ![s].status = "claimed", ![s].device = d]

\* _claim_pairing
ClaimPairing(u, s, d) ==
    /\ KeptPairings[s].status = "pending"
    /\ Link(d, KeptPairings[s].fingerprint, u, "pairing")
    /\ pairing' = Claimed(s, d)
    /\ Use(<<"claim", s>>)
    /\ HandOut(<<"collect", s>>)
    /\ UNCHANGED <<now, account, pending, history>>

ClaimCode(u, s, d) == KeptPairings[s].codeExp > now /\ ClaimPairing(u, s, d)

ClaimQr(u, s, d) == KeptPairings[s].qrExp > now /\ ClaimPairing(u, s, d)

\* Variant: the session stays claimed, and the next poll gets a token again.
Completed_Claimed(s) == KeptPairings

Completed(s) == [KeptPairings EXCEPT ![s].status = "completed"]

\* pairing_status of a claimed session: the device gets its token.  A poll that
\* comes after the expiry, or before the claim, gets nothing.
CollectToken(s) ==
    /\ KeptPairings[s].status = "claimed"
    /\ KeptPairings[s].qrExp > now
    /\ Exists(KeptPairings[s].device)
    /\ pairing' = Completed(s)
    /\ Use(<<"collect", s>>)
    /\ UNCHANGED <<now, account, device, pending, history, handed>>

-----------------------------------------------------------------------------
(* AutoMode.                                                               *)

\* Anyone on the network may report a discovery; a linked device is not queued.
ReportDiscovery(i, f) ==
    /\ <<"decide", i>> \notin handed
    /\ ~Linked(f)
    /\ pending' = [pending EXCEPT ![i] = f]
    /\ pairing' = KeptPairings
    /\ HandOut(<<"decide", i>>)
    /\ UNCHANGED <<now, account, device, history, uses>>

\* Variant: the decision is recorded, the item stays in the queue.
Dequeued_Stays(i) == pending

Dequeued(i) == [pending EXCEPT ![i] = None]

Record(i, outcome, d) ==
    /\ history' = Append(history, [item |-> i, outcome |-> outcome, device |-> d])
    /\ pending' = Dequeued(i)
    /\ pairing' = KeptPairings
    /\ Use(<<"decide", i>>)

Deny(u, i) ==
    /\ Known(u)
    /\ pending[i] # None
    /\ Record(i, "denied", None)
    /\ UNCHANGED <<now, account, device, handed>>

\* The device may have been linked since it was reported: the item then stays.
Approve(u, i, d) ==
    /\ pending[i] # None
    /\ Link(d, pending[i], u, "automode")
    /\ Record(i, "approved", d)
    /\ UNCHANGED <<now, account, handed>>

-----------------------------------------------------------------------------
(* Accounts and time.                                                      *)

SignUp(u) ==
    /\ account[u] = "none"
    /\ account' = [account EXCEPT ![u] = "active"]
    /\ pairing' = KeptPairings
    /\ UNCHANGED <<now, device, pending, history, handed, uses>>

\* Any user may delete any account.
DeleteUser(p, u) ==
    /\ Known(p)
    /\ account[u] = "active"
    /\ account' = [account EXCEPT ![u] = "deleted"]
    /\ device' = [d \in Device |-> IF device[d].owner = u
                                   THEN [device[d] EXCEPT !.revoked = TRUE, !.status = "revoked"]
                                   ELSE device[d]]
    /\ pairing' = KeptPairings
    /\ UNCHANGED <<now, pending, history, handed, uses>>

Tick ==
    /\ now < MaxNow
    /\ now' = now + 1
    /\ UNCHANGED <<account, device, pairing, pending, history, handed, uses>>

Init ==
    /\ now = 0
    /\ account = [u \in User |-> "none"]
    /\ device = [d \in Device |-> NoDevice]
    /\ pairing = [s \in Session |-> NoPairing]
    /\ pending = [i \in Item |-> None]
    /\ history = <<>>
    /\ handed = {}
    /\ uses = [t \in Ticket |-> 0]

Next ==
    \/ Tick
    \/ \E u \in User : SignUp(u)
    \/ \E p, u \in User : DeleteUser(p, u)
    \/ \E u \in User, d \in Device, f \in Fingerprint : RegisterDevice(u, d, f)
    \/ \E u \in User, d \in Device : RevokeDevice(u, d)
    \/ \E u, v \in User, d \in Device : TransferDevice(u, d, v)
    \/ \E d \in Device, wording \in {"active", "revoked"} : Heartbeat(d, wording)
    \/ \E s \in Session, f \in Fingerprint : CreatePairing(s, f)
    \/ \E u \in User, s \in Session, d \in Device : ClaimCode(u, s, d) \/ ClaimQr(u, s, d)
    \/ \E s \in Session : CollectToken(s)
    \/ \E i \in Item, f \in Fingerprint : ReportDiscovery(i, f)
    \/ \E u \in User, i \in Item : Deny(u, i)
    \/ \E u \in User, i \in Item, d \in Device : Approve(u, i, d)

Spec == Init /\ [][Next]_vars

-----------------------------------------------------------------------------
(* Properties.                                                             *)

\* The shape of the registry.
TypeOK ==
    /\ now \in Nat
    /\ account \in [User -> {"none", "active", "deleted"}]
    /\ device \in [Device -> Devices]
    /\ pairing \in [Session -> Pairings]
    /\ pending \in [Item -> Fingerprint \cup {None}]
    /\ history \in Seq(Decisions)
    /\ handed \subseteq Ticket
    /\ uses \in [Ticket -> Nat]

\* No order of registrations, claims, approvals, transfers, revocations and
\* deletions links one fingerprint to two devices in use.
OneLinkPerFingerprint ==
    \A d, e \in Device :
        /\ Exists(d) /\ ~device[d].revoked
        /\ Exists(e) /\ ~device[e].revoked
        /\ device[d].fingerprint = device[e].fingerprint
        => d = e

\* A claimed session names the device that was made for it: the record that
\* pairing_status looks up is there (its 500 "device_missing" cannot happen), has
\* the fingerprint that asked, and belongs to this session alone.
ClaimNamesItsDevice ==
    \A s \in Session : pairing[s].status \in {"claimed", "completed"} =>
        /\ pairing[s].device # None
        /\ Exists(pairing[s].device)
        /\ device[pairing[s].device].fingerprint = pairing[s].fingerprint
        /\ \A r \in Session : pairing[r].device = pairing[s].device => r = s

\* The status a device reports never hides that it was revoked: whatever request
\* comes last, the list a user reads tells what the flag tells the handlers.
StatusTellsRevoked ==
    \A d \in Device : device[d].revoked => device[d].status = "revoked"

\* The audit trail: a device linked by AutoMode has one approval that names it,
\* and what was decided waits no more.
AuditTrail ==
    /\ \A d \in Device : device[d].source = "automode" =>
           Cardinality({k \in DOMAIN history : history[k].device = d}) = 1
    /\ \A k \in DOMAIN history : pending[history[k].item] = None

-----------------------------------------------------------------------------
(* Codes, QR tokens and decisions are single use.                          *)

Usable(t) ==
    CASE t[1] = "claim"   -> KeptPairings[t[2]].status = "pending"
      [] t[1] = "collect" -> KeptPairings[t[2]].status = "claimed"
      [] t[1] = "decide"  -> pending[t[2]] # None

Phase ==
    [t \in Ticket |-> IF t \notin handed THEN "unissued"
                      ELSE IF Usable(t) THEN "live" ELSE "dead"]

Once == INSTANCE SingleUse WITH Stillborn <- {}, phase <- Phase, uses <- uses

\* A session is claimed once, by code or by QR token, its device token is handed
\* out once, and a discovery is decided once.
SingleUseTickets == Once!Spec

=============================================================================
