--------------------------- MODULE AuthDevicesProofs ---------------------------
(***************************************************************************)
(* Theorems about AuthDevices for any users, devices, fingerprints,        *)
(* pairing sessions, discoveries and lives of codes.                       *)
(***************************************************************************)
EXTENDS AuthDevices, FiniteSetTheorems, TLAPS

\* What _cleanup keeps of the sessions has the type of what it cleans.
LEMMA KeptTypes ==
    ASSUME TypeOK
    PROVE  KeptPairings \in [Session -> Pairings]
<1>1. NoPairing \in Pairings
  BY DEF NoPairing, Pairings
<1>2. QED
  BY <1>1 DEF TypeOK, KeptPairings

LEMMA LinkTypes ==
    ASSUME TypeOK, NEW d \in Device, NEW f \in Fingerprint, NEW u \in User,
           NEW source \in Sources, Link(d, f, u, source)
    PROVE  device' \in [Device -> Devices]
<1>1. [fingerprint |-> f, owner |-> u, revoked |-> FALSE, status |-> "active",
       source |-> source] \in Devices
  BY DEF Devices
<1>2. QED
  BY <1>1 DEF TypeOK, Link

LEMMA ClaimTypes ==
    ASSUME TypeOK, NEW s \in Session, NEW d \in Device
    PROVE  Claimed(s, d) \in [Session -> Pairings]
<1>1. [KeptPairings[s] EXCEPT !.status = "claimed", !.device = d] \in Pairings
  BY KeptTypes DEF Pairings
<1>2. QED
  BY <1>1, KeptTypes DEF Claimed

LEMMA UseTypes ==
    ASSUME TypeOK, NEW t \in Ticket, Use(t)
    PROVE  uses' \in [Ticket -> Nat]
BY DEF TypeOK, Use

LEMMA RecordTypes ==
    ASSUME TypeOK, NEW i \in Item, NEW o \in {"approved", "denied"},
           NEW d \in Device \cup {None}, Record(i, o, d)
    PROVE  /\ history' \in Seq(Decisions)
           /\ pending' \in [Item -> Fingerprint \cup {None}]
           /\ pairing' \in [Session -> Pairings]
           /\ uses' \in [Ticket -> Nat]
<1>1. [item |-> i, outcome |-> o, device |-> d] \in Decisions
  BY DEF Decisions
<1>2. history' \in Seq(Decisions)
  BY <1>1 DEF TypeOK, Record
<1>3. QED
  BY <1>2, KeptTypes, UseTypes DEF TypeOK, Record, Dequeued, Ticket

\* Every step keeps the shape of the registry.
LEMMA TypeStep == TypeOK /\ [Next]_vars => TypeOK'
<1> SUFFICES ASSUME TypeOK, [Next]_vars PROVE TypeOK'
  OBVIOUS
<1>k. KeptPairings \in [Session -> Pairings]
  BY KeptTypes
<1>t. /\ \A s \in Session : <<"claim", s>> \in Ticket /\ <<"collect", s>> \in Ticket
      /\ \A i \in Item : <<"decide", i>> \in Ticket
  BY DEF Ticket
<1>1. CASE UNCHANGED vars
  BY <1>1 DEF TypeOK, vars
<1>2. CASE Tick
  BY <1>2 DEF TypeOK, Tick
<1>3. ASSUME NEW u \in User, SignUp(u)
      PROVE  TypeOK'
  BY <1>3, <1>k DEF TypeOK, SignUp
<1>4. ASSUME NEW p \in User, NEW u \in User, DeleteUser(p, u)
      PROVE  TypeOK'
  <2>1. \A d \in Device : [device[d] EXCEPT !.revoked = TRUE, !.status = "revoked"] \in Devices
    BY DEF TypeOK, Devices
  <2>2. device' \in [Device -> Devices]
    BY <1>4, <2>1 DEF TypeOK, DeleteUser
  <2>3. QED
    BY <1>4, <1>k, <2>2 DEF TypeOK, DeleteUser
<1>5. ASSUME NEW u \in User, NEW d \in Device, NEW f \in Fingerprint, RegisterDevice(u, d, f)
      PROVE  TypeOK'
  BY <1>5, <1>k, LinkTypes DEF TypeOK, RegisterDevice, Sources
<1>6. ASSUME NEW u \in User, NEW d \in Device, RevokeDevice(u, d)
      PROVE  TypeOK'
  <2>1. [device[d] EXCEPT !.revoked = TRUE, !.status = "revoked"] \in Devices
    BY DEF TypeOK, Devices
  <2>2. QED
    BY <1>6, <1>k, <2>1 DEF TypeOK, RevokeDevice
<1>7. ASSUME NEW u \in User, NEW v \in User, NEW d \in Device, TransferDevice(u, d, v)
      PROVE  TypeOK'
  <2>1. [device[d] EXCEPT !.owner = v] \in Devices
    BY DEF TypeOK, Devices
  <2>2. QED
    BY <1>7, <1>k, <2>1 DEF TypeOK, TransferDevice
<1>8. ASSUME NEW d \in Device, NEW wording \in {"active", "revoked"}, Heartbeat(d, wording)
      PROVE  TypeOK'
  <2>1. [device[d] EXCEPT !.status = wording] \in Devices
    BY DEF TypeOK, Devices
  <2>2. QED
    BY <1>8, <1>k, <2>1 DEF TypeOK, Heartbeat
<1>9. ASSUME NEW s \in Session, NEW f \in Fingerprint, CreatePairing(s, f)
      PROVE  TypeOK'
  <2>1. [status |-> "pending", fingerprint |-> f, codeExp |-> now + CodeTTL,
         qrExp |-> now + QrTTL, exp |-> now + Later(CodeTTL, QrTTL), device |-> None]
            \in Pairings
    BY TTLAssumption DEF TypeOK, Pairings, Later
  <2>2. QED
    BY <1>9, <1>k, <1>t, <2>1 DEF TypeOK, CreatePairing, HandOut
<1>10. ASSUME NEW u \in User, NEW s \in Session, NEW d \in Device, ClaimPairing(u, s, d)
       PROVE  TypeOK'
  <2>1. KeptPairings[s].fingerprint \in Fingerprint \cup {None}
    BY <1>k DEF Pairings
  <2>2. [fingerprint |-> KeptPairings[s].fingerprint, owner |-> u, revoked |-> FALSE,
         status |-> "active", source |-> "pairing"] \in Devices
    BY <2>1 DEF Devices, Sources
  <2>3. device' \in [Device -> Devices]
    BY <1>10, <2>2 DEF TypeOK, ClaimPairing, Link
  <2>4. QED
    BY <1>10, <1>t, <2>3, ClaimTypes, UseTypes DEF TypeOK, ClaimPairing, HandOut
<1>11. ASSUME NEW s \in Session, CollectToken(s)
       PROVE  TypeOK'
  <2>1. [KeptPairings[s] EXCEPT !.status = "completed"] \in Pairings
    BY <1>k DEF Pairings
  <2>2. QED
    BY <1>11, <1>k, <1>t, <2>1, UseTypes DEF TypeOK, CollectToken, Completed
<1>12. ASSUME NEW i \in Item, NEW f \in Fingerprint, ReportDiscovery(i, f)
       PROVE  TypeOK'
  BY <1>12, <1>k, <1>t DEF TypeOK, ReportDiscovery, HandOut
<1>13. ASSUME NEW u \in User, NEW i \in Item, Deny(u, i)
       PROVE  TypeOK'
  BY <1>13, RecordTypes DEF TypeOK, Deny
<1>14. ASSUME NEW u \in User, NEW i \in Item, NEW d \in Device, Approve(u, i, d)
       PROVE  TypeOK'
  <2>1. pending[i] \in Fingerprint
    BY <1>14 DEF TypeOK, Approve
  <2>2. device' \in [Device -> Devices]
    BY <1>14, <2>1, LinkTypes DEF Approve, Sources
  <2>3. QED
    BY <1>14, <2>2, RecordTypes DEF TypeOK, Approve
<1>15. QED
  BY <1>1, <1>2, <1>3, <1>4, <1>5, <1>6, <1>7, <1>8, <1>9, <1>10, <1>11, <1>12, <1>13, <1>14
  DEF Next, ClaimCode, ClaimQr

LEMMA TypeInit == Init => TypeOK
<1> SUFFICES ASSUME Init PROVE TypeOK
  OBVIOUS
<1>1. NoDevice \in Devices /\ NoPairing \in Pairings
  BY DEF NoDevice, Devices, NoPairing, Pairings
<1>2. <<>> \in Seq(Decisions)
  OBVIOUS
<1>3. QED
  BY <1>1, <1>2 DEF Init, TypeOK

-----------------------------------------------------------------------------
(* Links.                                                                  *)

\* Every record that has an owner was linked.
OwnedExist == \A d \in Device : device[d].owner # None => Exists(d)

\* What every handler but the four linking ones does to a record.
Revised(d) ==
    /\ device'[d].fingerprint = device[d].fingerprint
    /\ device'[d].source = device[d].source
    /\ Exists(d)' = Exists(d)
    /\ device'[d].owner # None => Exists(d)
    /\ device[d].revoked => device'[d].revoked
    /\ \/ device'[d].status = "revoked"
       \/ device'[d].revoked = FALSE
       \/ device'[d].revoked = device[d].revoked /\ device'[d].status = device[d].status

DevicesKept == \A d \in Device : Revised(d)

\* What a linking handler does.
Links(d) ==
    /\ ~Linked(device'[d].fingerprint)
    /\ ~Exists(d) /\ Exists(d)' /\ ~device'[d].revoked
    /\ \A e \in Device \ {d} : device'[e] = device[e]

LEMMA LinkLinks ==
    ASSUME TypeOK, NEW d \in Device, NEW f, NEW u, NEW source, Link(d, f, u, source)
    PROVE  /\ Links(d)
           /\ device'[d].fingerprint = f
           /\ device'[d].source = source
<1>1. /\ device'[d] = [fingerprint |-> f, owner |-> u, revoked |-> FALSE,
                       status |-> "active", source |-> source]
      /\ \A e \in Device \ {d} : device'[e] = device[e]
  BY DEF TypeOK, Link
<1>2. QED
  BY <1>1 DEF Links, Link, Exists

LEMMA WithdrawnRecord ==
    ASSUME NEW r \in Devices, NEW q, q = [r EXCEPT !.revoked = TRUE, !.status = "revoked"]
    PROVE  /\ q.fingerprint = r.fingerprint /\ q.source = r.source /\ q.owner = r.owner
           /\ q.status = "revoked" /\ q.revoked
BY DEF Devices

LEMMA ReviseKeeps ==
    ASSUME TypeOK, OwnedExist, [Next]_vars,
           ~(\E u \in User, d \in Device, f \in Fingerprint : RegisterDevice(u, d, f)),
           ~(\E u \in User, s \in Session, d \in Device : ClaimPairing(u, s, d)),
           ~(\E u \in User, i \in Item, d \in Device : Approve(u, i, d))
    PROVE  DevicesKept
<1> SUFFICES ASSUME NEW d \in Device PROVE Revised(d)
  BY DEF DevicesKept
<1>r. device[d] \in Devices /\ (device[d].owner # None => Exists(d))
  BY DEF TypeOK, OwnedExist
<1>1. CASE device'[d] = device[d]
  BY <1>r, <1>1 DEF Revised, Exists
<1>2. CASE Exists(d) /\ device'[d] = [device[d] EXCEPT !.revoked = TRUE, !.status = "revoked"]
  <2>1. /\ device'[d].fingerprint = device[d].fingerprint
        /\ device'[d].source = device[d].source
        /\ device'[d].status = "revoked" /\ device'[d].revoked
    BY <1>r, <1>2, WithdrawnRecord
  <2>2. QED
    BY <1>2, <2>1 DEF Revised, Exists
<1>3. ASSUME NEW p \in User, NEW u \in User, DeleteUser(p, u)
      PROVE  Revised(d)
  BY <1>r, <1>1, <1>2, <1>3, NoneAssumption DEF DeleteUser
<1>4. ASSUME NEW u \in User, NEW e \in Device, RevokeDevice(u, e)
      PROVE  Revised(d)
  <2>1. CASE d = e
    BY <1>2, <1>4, <2>1 DEF RevokeDevice, TypeOK
  <2>2. CASE d # e
    BY <1>1, <1>4, <2>2 DEF RevokeDevice, TypeOK
  <2>3. QED
    BY <2>1, <2>2
<1>5. ASSUME NEW u \in User, NEW v \in User, NEW e \in Device, TransferDevice(u, e, v)
      PROVE  Revised(d)
  BY <1>r, <1>5 DEF TransferDevice, Revised, Exists, TypeOK, Devices
<1>6. ASSUME NEW e \in Device, NEW wording \in {"active", "revoked"}, Heartbeat(e, wording)
      PROVE  Revised(d)
  BY <1>r, <1>6 DEF Heartbeat, Alive, Revised, Exists, TypeOK, Devices
<1>7. QED
  BY <1>1, <1>3, <1>4, <1>5, <1>6
  DEF Next, vars, Tick, SignUp, CreatePairing, ClaimCode, ClaimQr, CollectToken,
      ReportDiscovery, Deny

\* Records are not deleted, and keep their fingerprint.
DevicesGrow ==
    \A d \in Device : Exists(d) => Exists(d)' /\ device'[d].fingerprint = device[d].fingerprint

LinkInv == TypeOK /\ OwnedExist /\ OneLinkPerFingerprint /\ StatusTellsRevoked

LEMMA RevisedStep ==
    ASSUME LinkInv, TypeOK', DevicesKept
    PROVE  LinkInv' /\ DevicesGrow
<1>1. \A d \in Device : Revised(d)
  BY DEF DevicesKept
<1>2. OwnedExist' /\ DevicesGrow
  BY <1>1 DEF Revised, OwnedExist, DevicesGrow, Exists
<1>3. StatusTellsRevoked'
  BY <1>1 DEF Revised, LinkInv, StatusTellsRevoked
<1>4. \A d \in Device : Exists(d)' /\ ~device'[d].revoked => Exists(d) /\ ~device[d].revoked
  BY <1>1 DEF Revised
<1>5. OneLinkPerFingerprint'
  BY <1>1, <1>4 DEF Revised, LinkInv, OneLinkPerFingerprint
<1>6. QED
  BY <1>2, <1>3, <1>5 DEF LinkInv

LEMMA LinksStep ==
    ASSUME LinkInv, TypeOK', NEW d \in Device, Links(d)
    PROVE  LinkInv' /\ DevicesGrow
<1>1. /\ Exists(d)' /\ ~device'[d].revoked /\ ~Exists(d)
      /\ \A e \in Device \ {d} : device'[e] = device[e] /\ Exists(e)' = Exists(e)
  BY DEF Links, Exists
<1>2. OwnedExist' /\ DevicesGrow
  BY <1>1 DEF LinkInv, OwnedExist, DevicesGrow
<1>3. StatusTellsRevoked'
  BY <1>1 DEF LinkInv, StatusTellsRevoked
<1>4. \A e \in Device \ {d} :
          Exists(e) /\ ~device[e].revoked => device[e].fingerprint # device'[d].fingerprint
  BY DEF Links, Linked
<1>5. OneLinkPerFingerprint'
  BY <1>1, <1>4 DEF LinkInv, OneLinkPerFingerprint
<1>6. QED
  BY <1>2, <1>3, <1>5 DEF LinkInv

LEMMA RegisterLinks ==
    ASSUME TypeOK, NEW u \in User, NEW d \in Device, NEW f \in Fingerprint,
           RegisterDevice(u, d, f)
    PROVE  Links(d) /\ device'[d].source = "manual-register"
BY LinkLinks DEF RegisterDevice

LEMMA ClaimLinks ==
    ASSUME TypeOK, NEW u \in User, NEW s \in Session, NEW d \in Device, ClaimPairing(u, s, d)
    PROVE  /\ Links(d) /\ device'[d].source = "pairing"
           /\ device'[d].fingerprint = KeptPairings[s].fingerprint
BY LinkLinks DEF ClaimPairing

LEMMA ApproveLinks ==
    ASSUME TypeOK, NEW u \in User, NEW i \in Item, NEW d \in Device, Approve(u, i, d)
    PROVE  Links(d) /\ device'[d].source = "automode"
BY LinkLinks DEF Approve

\* Every step revises records or links one.
LEMMA DeviceStep ==
    ASSUME LinkInv, [Next]_vars
    PROVE  DevicesKept \/ \E d \in Device : Links(d)
BY ReviseKeeps, RegisterLinks, ClaimLinks, ApproveLinks DEF LinkInv

LEMMA LinkStep == LinkInv /\ [Next]_vars => LinkInv' /\ DevicesGrow
<1> SUFFICES ASSUME LinkInv, [Next]_vars PROVE LinkInv' /\ DevicesGrow
  OBVIOUS
<1>1. TypeOK'
  BY TypeStep DEF LinkInv
<1>2. QED
  BY <1>1, DeviceStep, RevisedStep, LinksStep

-----------------------------------------------------------------------------
(* Pairing sessions.                                                       *)

SameTickets(s) ==
    /\ <<"claim", s>> \in handed' <=> <<"claim", s>> \in handed
    /\ <<"collect", s>> \in handed' <=> <<"collect", s>> \in handed

\* What a step does to a session: _cleanup at most, or one of three handlers.
Passed(s) ==
    /\ pairing'[s] = pairing[s] \/ pairing'[s] = KeptPairings[s]
    /\ SameTickets(s)

Created(s) ==
    /\ <<"claim", s>> \notin handed /\ <<"claim", s>> \in handed'
    /\ <<"collect", s>> \in handed' <=> <<"collect", s>> \in handed
    /\ pairing'[s].status = "pending" /\ pairing'[s].device = None
    /\ pairing'[s].exp > now'

TakenOver(s) ==
    /\ pairing'[s].fingerprint = KeptPairings[s].fingerprint
    /\ pairing'[s].exp = KeptPairings[s].exp
    /\ now' = now
    /\ <<"claim", s>> \in handed' <=> <<"claim", s>> \in handed

ClaimedNow(s) ==
    /\ KeptPairings[s].status = "pending"
    /\ TakenOver(s)
    /\ pairing'[s].status = "claimed"
    /\ <<"collect", s>> \in handed'
    /\ \E d \in Device : /\ pairing'[s].device = d
                         /\ ~Exists(d) /\ Exists(d)'
                         /\ device'[d].fingerprint = KeptPairings[s].fingerprint
    /\ \A r \in Session \ {s} : pairing'[r] = KeptPairings[r]

CollectedNow(s) ==
    /\ KeptPairings[s].status = "claimed"
    /\ TakenOver(s)
    /\ pairing'[s].status = "completed"
    /\ pairing'[s].device = KeptPairings[s].device
    /\ <<"collect", s>> \in handed' <=> <<"collect", s>> \in handed

SessionStep(s) == Passed(s) \/ Created(s) \/ ClaimedNow(s) \/ CollectedNow(s)

LEMMA ClaimedFields ==
    ASSUME NEW p \in Pairings, NEW d
    PROVE  /\ [p EXCEPT !.status = "claimed", !.device = d].status = "claimed"
           /\ [p EXCEPT !.status = "claimed", !.device = d].device = d
           /\ [p EXCEPT !.status = "claimed", !.device = d].fingerprint = p.fingerprint
           /\ [p EXCEPT !.status = "claimed", !.device = d].exp = p.exp
BY DEF Pairings

LEMMA CompletedFields ==
    ASSUME TypeOK, NEW s \in Session, NEW q,
           q = [KeptPairings[s] EXCEPT !.status = "completed"]
    PROVE  /\ q.status = "completed" /\ q.device = KeptPairings[s].device
           /\ q.fingerprint = KeptPairings[s].fingerprint /\ q.exp = KeptPairings[s].exp
<1>1. KeptPairings[s] \in Pairings
  BY KeptTypes
<1>2. QED
  BY <1>1 DEF Pairings

LEMMA ClaimSession ==
    ASSUME TypeOK, NEW u \in User, NEW q \in Session, NEW d \in Device, ClaimPairing(u, q, d),
           NEW s \in Session
    PROVE  SessionStep(s)
<1>1. /\ pairing'[q] = [KeptPairings[q] EXCEPT !.status = "claimed", !.device = d]
      /\ \A r \in Session \ {q} : pairing'[r] = KeptPairings[r]
  BY KeptTypes DEF ClaimPairing, Claimed
<1>2. handed' = handed \cup {<<"collect", q>>}
  BY DEF ClaimPairing, HandOut
<1>3. CASE s # q
  BY <1>1, <1>2, <1>3 DEF SessionStep, Passed, SameTickets
<1>4. CASE s = q
  <2>1. /\ pairing'[q].status = "claimed" /\ pairing'[q].device = d
        /\ pairing'[q].fingerprint = KeptPairings[q].fingerprint
        /\ pairing'[q].exp = KeptPairings[q].exp
    <3>1. KeptPairings[q] \in Pairings
      BY KeptTypes
    <3>2. QED
      BY <1>1, <3>1, ClaimedFields
  <2>2. KeptPairings[q].status = "pending" /\ now' = now
    BY DEF ClaimPairing
  <2>3. ~Exists(d) /\ Exists(d)' /\ device'[d].fingerprint = KeptPairings[q].fingerprint
    BY ClaimLinks DEF Links
  <2>4. ClaimedNow(q)
    BY <1>1, <1>2, <2>1, <2>2, <2>3 DEF ClaimedNow, TakenOver
  <2>5. QED
    BY <1>4, <2>4 DEF SessionStep
<1>5. QED
  BY <1>3, <1>4

LEMMA SessionSteps ==
    ASSUME TypeOK, [Next]_vars, NEW s \in Session
    PROVE  SessionStep(s)
<1>1. CASE UNCHANGED <<pairing, handed>>
  BY <1>1 DEF SessionStep, Passed, SameTickets
<1>2. CASE pairing' = KeptPairings /\ handed' = handed
  BY <1>2 DEF SessionStep, Passed, SameTickets
<1>3. ASSUME NEW q \in Session, NEW f \in Fingerprint, CreatePairing(q, f)
      PROVE  SessionStep(s)
  <2> DEFINE new == [status |-> "pending", fingerprint |-> f, codeExp |-> now + CodeTTL,
                     qrExp |-> now + QrTTL, exp |-> now + Later(CodeTTL, QrTTL),
                     device |-> None]
  <2>1. /\ pairing'[q] = new
        /\ \A r \in Session \ {q} : pairing'[r] = KeptPairings[r]
    BY <1>3, KeptTypes DEF CreatePairing
  <2>2. new.status = "pending" /\ new.device = None /\ new.exp > now
    BY TTLAssumption DEF TypeOK, Later
  <2>3. /\ <<"claim", q>> \notin handed /\ handed' = handed \cup {<<"claim", q>>}
        /\ now' = now
    BY <1>3 DEF CreatePairing, HandOut
  <2> HIDE DEF new
  <2>4. CASE s = q
    BY <2>1, <2>2, <2>3, <2>4 DEF SessionStep, Created
  <2>5. CASE s # q
    BY <2>1, <2>3, <2>5 DEF SessionStep, Passed, SameTickets
  <2>6. QED
    BY <2>4, <2>5
<1>4. ASSUME NEW u \in User, NEW q \in Session, NEW d \in Device, ClaimPairing(u, q, d)
      PROVE  SessionStep(s)
  BY <1>4, ClaimSession
<1>5. ASSUME NEW q \in Session, CollectToken(q)
      PROVE  SessionStep(s)
  <2>1. /\ pairing'[q] = [KeptPairings[q] EXCEPT !.status = "completed"]
        /\ \A r \in Session \ {q} : pairing'[r] = KeptPairings[r]
    BY <1>5, KeptTypes DEF CollectToken, Completed
  <2>2. handed' = handed /\ now' = now /\ KeptPairings[q].status = "claimed"
    BY <1>5 DEF CollectToken
  <2>3. CASE s = q
    BY <2>1, <2>2, <2>3, CompletedFields DEF SessionStep, CollectedNow, TakenOver
  <2>4. CASE s # q
    BY <2>1, <2>2, <2>4 DEF SessionStep, Passed, SameTickets
  <2>5. QED
    BY <2>3, <2>4
<1>6. ASSUME NEW i \in Item, NEW f \in Fingerprint, ReportDiscovery(i, f)
      PROVE  SessionStep(s)
  BY <1>6 DEF ReportDiscovery, HandOut, SessionStep, Passed, SameTickets
<1>7. QED
  BY <1>1, <1>2, <1>3, <1>4, <1>5, <1>6
  DEF Next, vars, Tick, SignUp, DeleteUser, RegisterDevice, RevokeDevice, TransferDevice,
      Heartbeat, ClaimCode, ClaimQr, Deny, Approve, Record

\* A session names a device from its claim on, and no other session names it.
ClaimSound ==
    \A s \in Session :
        /\ pairing[s].device # None <=> pairing[s].status \in {"claimed", "completed"}
        /\ pairing[s].device # None =>
               /\ pairing[s].device \in Device
               /\ Exists(pairing[s].device)
               /\ device[pairing[s].device].fingerprint = pairing[s].fingerprint
               /\ \A r \in Session : pairing[r].device = pairing[s].device => r = s

\* Where the tickets of a session are handed out.
SessionTickets ==
    \A s \in Session :
        /\ pairing[s].status # "absent" => <<"claim", s>> \in handed
        /\ <<"collect", s>> \in handed =>
               <<"claim", s>> \in handed /\ pairing[s].status # "pending"
        /\ pairing[s].status \in {"claimed", "completed"} => <<"collect", s>> \in handed

\* What the record of a session tells after a step.
LEMMA SessionFacts ==
    ASSUME TypeOK, ClaimSound, NEW s \in Session, SessionStep(s)
    PROVE  /\ pairing'[s].device # None <=> pairing'[s].status \in {"claimed", "completed"}
           /\ \/ ClaimedNow(s)
              \/ pairing'[s].device # None =>
                     /\ pairing'[s].device = pairing[s].device
                     /\ pairing'[s].fingerprint = pairing[s].fingerprint
<1>1. CASE Passed(s)
  BY <1>1 DEF Passed, KeptPairings, NoPairing, ClaimSound
<1>2. CASE Created(s)
  BY <1>2 DEF Created
<1>3. CASE ClaimedNow(s)
  BY <1>3, NoneAssumption DEF ClaimedNow
<1>4. CASE CollectedNow(s)
  <2>1. KeptPairings[s] = pairing[s] /\ pairing[s].status = "claimed"
    BY <1>4 DEF CollectedNow, KeptPairings, NoPairing
  <2>2. QED
    BY <1>4, <2>1 DEF CollectedNow, TakenOver, ClaimSound
<1>5. QED
  BY <1>1, <1>2, <1>3, <1>4 DEF SessionStep

LEMMA ClaimStep ==
    ASSUME LinkInv, ClaimSound, [Next]_vars
    PROVE  ClaimSound'
<1>g. DevicesGrow
  BY LinkStep
<1>f. \A s \in Session :
          /\ pairing'[s].device # None <=> pairing'[s].status \in {"claimed", "completed"}
          /\ \/ ClaimedNow(s)
             \/ pairing'[s].device # None =>
                    /\ pairing'[s].device = pairing[s].device
                    /\ pairing'[s].fingerprint = pairing[s].fingerprint
  BY SessionSteps, SessionFacts DEF LinkInv
<1>1. CASE \A s \in Session : ~ClaimedNow(s)
  BY <1>f, <1>g, <1>1 DEF ClaimSound, DevicesGrow, Exists
<1>2. ASSUME NEW q \in Session, ClaimedNow(q)
      PROVE  ClaimSound'
  <2>1. PICK d \in Device : /\ pairing'[q].device = d
                            /\ ~Exists(d) /\ Exists(d)'
                            /\ device'[d].fingerprint = KeptPairings[q].fingerprint
    BY <1>2 DEF ClaimedNow
  <2>2. pairing'[q].fingerprint = KeptPairings[q].fingerprint
    BY <1>2 DEF ClaimedNow, TakenOver
  <2>3. \A r \in Session \ {q} : pairing'[r].device # None =>
            /\ pairing'[r].device = pairing[r].device
            /\ pairing'[r].fingerprint = pairing[r].fingerprint
            /\ pairing'[r].device \in Device /\ Exists(pairing[r].device)
            /\ device[pairing[r].device].fingerprint = pairing[r].fingerprint
            /\ pairing'[r].device # d
    BY <1>2, <2>1 DEF ClaimedNow, KeptPairings, NoPairing, ClaimSound
  <2>4. \A r \in Session \ {q} : pairing'[r].device # None =>
            /\ Exists(pairing[r].device)'
            /\ device'[pairing'[r].device].fingerprint = pairing'[r].fingerprint
    BY <1>g, <2>3 DEF DevicesGrow, Exists
  <2>5. \A r, s \in Session : pairing'[r].device # None /\ pairing'[r].device = pairing'[s].device
                                  => r = s
    BY <2>1, <2>3, NoneAssumption DEF ClaimSound
  <2>6. Exists(pairing[q].device)'
    BY <2>1 DEF Exists
  <2>7. QED
    BY <1>f, <2>1, <2>2, <2>3, <2>4, <2>5, <2>6 DEF ClaimSound
<1>3. QED
  BY <1>1, <1>2

LEMMA SessionTicketStep ==
    ASSUME TypeOK, SessionTickets, [Next]_vars
    PROVE  SessionTickets'
<1> SUFFICES ASSUME NEW s \in Session
             PROVE  /\ pairing'[s].status # "absent" => <<"claim", s>> \in handed'
                    /\ <<"collect", s>> \in handed' =>
                           <<"claim", s>> \in handed' /\ pairing'[s].status # "pending"
                    /\ pairing'[s].status \in {"claimed", "completed"} =>
                           <<"collect", s>> \in handed'
  BY DEF SessionTickets
<1>1. SessionStep(s)
  BY SessionSteps
<1>2. KeptPairings[s] = pairing[s] \/ KeptPairings[s] = NoPairing
  BY DEF KeptPairings
<1>3. QED
  BY <1>1, <1>2
  DEF SessionTickets, SessionStep, Passed, SameTickets, Created, ClaimedNow, CollectedNow,
      TakenOver, NoPairing

-----------------------------------------------------------------------------
(* Discoveries and their decisions.                                        *)

\* What a step does to a discovery.
ItemStep(i) ==
    \/ /\ pending'[i] = pending[i]
       /\ <<"decide", i>> \in handed' <=> <<"decide", i>> \in handed
    \/ /\ <<"decide", i>> \notin handed /\ <<"decide", i>> \in handed'
       /\ pending'[i] # None
    \/ /\ pending[i] # None /\ pending'[i] = None
       /\ <<"decide", i>> \in handed' <=> <<"decide", i>> \in handed

\* What a decision does, and what every other step leaves.
Decided(i, d) ==
    /\ pending[i] # None
    /\ pending' = [pending EXCEPT ![i] = None]
    /\ handed' = handed
    /\ \E o \in {"approved", "denied"} :
           history' = Append(history, [item |-> i, outcome |-> o, device |-> d])

LEMMA ItemSteps ==
    ASSUME TypeOK, [Next]_vars, NEW i \in Item
    PROVE  ItemStep(i)
<1>1. CASE UNCHANGED <<pending, handed>>
  BY <1>1 DEF ItemStep
<1>2. CASE pending' = pending /\ \E q \in Session :
               handed' = handed \cup {<<"claim", q>>} \/ handed' = handed \cup {<<"collect", q>>}
  BY <1>2 DEF ItemStep
<1>3. ASSUME NEW j \in Item, NEW f \in Fingerprint, ReportDiscovery(j, f)
      PROVE  ItemStep(i)
  BY <1>3, NoneAssumption DEF TypeOK, ReportDiscovery, HandOut, ItemStep
<1>4. ASSUME NEW j \in Item, NEW u \in User,
             Deny(u, j) \/ \E d \in Device : Approve(u, j, d)
      PROVE  ItemStep(i)
  BY <1>4 DEF TypeOK, Deny, Approve, Record, Dequeued, ItemStep
<1>5. QED
  BY <1>1, <1>2, <1>3, <1>4
  DEF Next, vars, Tick, SignUp, DeleteUser, RegisterDevice, RevokeDevice, TransferDevice,
      Heartbeat, CreatePairing, ClaimCode, ClaimQr, ClaimPairing, CollectToken, HandOut

\* A discovery in the queue was reported.
ItemTickets == \A i \in Item : pending[i] # None => <<"decide", i>> \in handed

LEMMA ItemTicketStep ==
    ASSUME TypeOK, ItemTickets, [Next]_vars
    PROVE  ItemTickets'
BY ItemSteps DEF ItemTickets, ItemStep

\* The history tells of each device linked by AutoMode once, and of discoveries
\* that were reported and wait no more.
HistorySound ==
    /\ \A d \in Device : device[d].source = "automode" =>
           \E k \in DOMAIN history : history[k].device = d
    /\ \A j, k \in DOMAIN history :
           history[j].device # None /\ history[j].device = history[k].device => j = k
    /\ \A k \in DOMAIN history : history[k].device # None =>
           history[k].device \in Device /\ Exists(history[k].device)
    /\ \A k \in DOMAIN history :
           /\ history[k].item \in Item
           /\ pending[history[k].item] = None
           /\ <<"decide", history[k].item>> \in handed

LEMMA AppendFacts ==
    ASSUME NEW S, NEW h \in Seq(S), NEW x, NEW h2, h2 = Append(h, x)
    PROVE  /\ DOMAIN h2 = DOMAIN h \cup {Len(h) + 1}
           /\ \A k \in DOMAIN h : h2[k] = h[k] /\ k # Len(h) + 1
           /\ h2[Len(h) + 1] = x
OBVIOUS

\* Sources are kept, but for a record that is linked.
SourcesKept ==
    \A d \in Device : device'[d].source = "automode" => device[d].source = "automode"

LEMMA HistoryKept ==
    ASSUME LinkInv, HistorySound, history' = history, SourcesKept, DevicesGrow,
           \A i \in Item : ItemStep(i)
    PROVE  HistorySound'
<1>1. \A k \in DOMAIN history :
          LET i == history[k].item
          IN  i \in Item /\ pending'[i] = None /\ <<"decide", i>> \in handed'
  BY DEF HistorySound, ItemStep
<1>2. \A k \in DOMAIN history : history[k].device # None => Exists(history[k].device)'
  BY DEF HistorySound, DevicesGrow
<1>3. QED
  BY <1>1, <1>2 DEF HistorySound, SourcesKept, Exists

LEMMA HistoryGrows ==
    ASSUME LinkInv, HistorySound, ItemTickets, DevicesGrow,
           NEW i \in Item, NEW d \in Device \cup {None}, Decided(i, d),
           d = None => SourcesKept,
           d # None => Links(d)
    PROVE  HistorySound'
<1>1. PICK o \in {"approved", "denied"} :
          history' = Append(history, [item |-> i, outcome |-> o, device |-> d])
  BY DEF Decided
<1> DEFINE n == Len(history) + 1
           x == [item |-> i, outcome |-> o, device |-> d]
<1>2. /\ DOMAIN history' = DOMAIN history \cup {n}
      /\ \A k \in DOMAIN history : history'[k] = history[k] /\ k # n
      /\ history'[n] = x
  BY <1>1, AppendFacts DEF LinkInv, TypeOK
<1>x. history'[n].item = i /\ history'[n].device = d
  BY <1>2
<1> HIDE DEF n, x
<1>3. \A k \in DOMAIN history' :
          /\ history'[k].item \in Item
          /\ pending'[history'[k].item] = None
          /\ <<"decide", history'[k].item>> \in handed'
  BY <1>2, <1>x DEF HistorySound, ItemTickets, Decided, LinkInv, TypeOK
<1>4. \A k \in DOMAIN history : history[k].device # None =>
          /\ history[k].device \in Device /\ history[k].device # d
          /\ device'[history[k].device].status # "none"
  <2>1. CASE d = None
    BY <2>1 DEF HistorySound, DevicesGrow, Exists
  <2>2. CASE d # None
    BY <2>2 DEF HistorySound, DevicesGrow, Links, Exists
  <2>3. QED
    BY <2>1, <2>2
<1>5. \A j, k \in DOMAIN history' :
          history'[j].device # None /\ history'[j].device = history'[k].device => j = k
  BY <1>2, <1>x, <1>4 DEF HistorySound
<1>6. \A k \in DOMAIN history' : history'[k].device # None =>
          history'[k].device \in Device /\ Exists(history[k].device)'
  BY <1>2, <1>x, <1>4 DEF Links, Exists
<1>7. ASSUME NEW e \in Device, device'[e].source = "automode"
      PROVE  \E k \in DOMAIN history' : history'[k].device = e
  <2>1. CASE e = d
    BY <1>2, <1>x, <2>1
  <2>2. CASE e # d
    <3>1. device[e].source = "automode"
      BY <1>7, <2>2 DEF SourcesKept, Links
    <3>2. QED
      BY <1>2, <3>1 DEF HistorySound
  <2>3. QED
    BY <2>1, <2>2
<1>8. QED
  BY <1>3, <1>5, <1>6, <1>7 DEF HistorySound

LEMMA LinksSources ==
    ASSUME NEW d \in Device, Links(d), device'[d].source # "automode"
    PROVE  SourcesKept
BY DEF Links, SourcesKept

LEMMA HistoryStep ==
    ASSUME LinkInv, HistorySound, ItemTickets, [Next]_vars
    PROVE  HistorySound'
<1>1. DevicesGrow /\ TypeOK /\ \A i \in Item : ItemStep(i)
  BY LinkStep, ItemSteps DEF LinkInv
<1>2. DevicesKept => SourcesKept
  BY DEF DevicesKept, Revised, SourcesKept
<1>3. ASSUME NEW u \in User, NEW i \in Item, Deny(u, i)
      PROVE  HistorySound'
  <2>1. Decided(i, None) /\ SourcesKept
    BY <1>3 DEF Deny, Record, Dequeued, Decided, SourcesKept
  <2>2. QED
    BY <1>1, <2>1, HistoryGrows
<1>4. ASSUME NEW u \in User, NEW i \in Item, NEW d \in Device, Approve(u, i, d)
      PROVE  HistorySound'
  <2>1. Decided(i, d) /\ Links(d)
    BY <1>1, <1>4, ApproveLinks DEF Approve, Record, Dequeued, Decided
  <2>2. QED
    BY <1>1, <2>1, NoneAssumption, HistoryGrows
<1>5. CASE /\ ~(\E u \in User, i \in Item : Deny(u, i))
           /\ ~(\E u \in User, i \in Item, d \in Device : Approve(u, i, d))
  <2>1. history' = history
    BY <1>5
    DEF Next, vars, Tick, SignUp, DeleteUser, RegisterDevice, RevokeDevice, TransferDevice,
        Heartbeat, CreatePairing, ClaimCode, ClaimQr, ClaimPairing, CollectToken,
        ReportDiscovery
  <2>2. SourcesKept
    <3>1. ASSUME NEW u \in User, NEW d \in Device, NEW f \in Fingerprint, RegisterDevice(u, d, f)
          PROVE  SourcesKept
      BY <1>1, <3>1, RegisterLinks, LinksSources
    <3>2. ASSUME NEW u \in User, NEW s \in Session, NEW d \in Device, ClaimPairing(u, s, d)
          PROVE  SourcesKept
      BY <1>1, <3>2, ClaimLinks, LinksSources
    <3>3. QED
      BY <1>1, <1>2, <1>5, <3>1, <3>2, ReviseKeeps DEF LinkInv
  <2>3. QED
    BY <1>1, <2>1, <2>2, HistoryKept
<1>6. QED
  BY <1>3, <1>4, <1>5

LEMMA HistoryGivesTrail ==
    ASSUME HistorySound
    PROVE  AuditTrail
<1>1. ASSUME NEW d \in Device, device[d].source = "automode"
      PROVE  Cardinality({k \in DOMAIN history : history[k].device = d}) = 1
  <2>1. PICK k \in DOMAIN history : history[k].device = d
    BY <1>1 DEF HistorySound
  <2>2. {j \in DOMAIN history : history[j].device = d} = {k}
    BY <2>1, NoneAssumption DEF HistorySound
  <2>3. QED
    BY <2>2, FS_Singleton
<1>2. QED
  BY <1>1 DEF HistorySound, AuditTrail

-----------------------------------------------------------------------------
(* The registry keeps the promise of SingleUse.                            *)

Inv == LinkInv /\ ClaimSound /\ SessionTickets /\ ItemTickets /\ HistorySound

LEMMA InvInit == Init => Inv
<1> SUFFICES ASSUME Init PROVE Inv
  OBVIOUS
<1>1. LinkInv
  BY TypeInit DEF Init, LinkInv, OwnedExist, OneLinkPerFingerprint, StatusTellsRevoked, Exists,
     NoDevice
<1>2. ClaimSound /\ SessionTickets /\ ItemTickets
  BY DEF Init, ClaimSound, SessionTickets, ItemTickets, NoPairing
<1>3. HistorySound
  <2>1. \A d \in Device : device[d].source # "automode"
    BY NoneAssumption DEF Init, NoDevice, Sources
  <2>2. DOMAIN history = {}
    BY DEF Init
  <2>3. QED
    BY <2>1, <2>2 DEF HistorySound
<1>4. QED
  BY <1>1, <1>2, <1>3 DEF Inv

LEMMA InvStep == Inv /\ [Next]_vars => Inv'
BY LinkStep, ClaimStep, SessionTicketStep, ItemTicketStep, HistoryStep DEF Inv, LinkInv

LEMMA TimePasses == TypeOK /\ [Next]_vars => now' >= now
<1> SUFFICES ASSUME TypeOK, [Next]_vars PROVE now' >= now
  OBVIOUS
<1>1. CASE Tick
  BY <1>1 DEF TypeOK, Tick
<1>2. CASE ~Tick
  <2>1. now' = now
    BY <1>2 DEF Next, vars, SignUp, DeleteUser, RegisterDevice, RevokeDevice, TransferDevice,
       Heartbeat, CreatePairing, ClaimCode, ClaimQr, ClaimPairing, CollectToken,
       ReportDiscovery, Deny, Approve
  <2>2. QED
    BY <2>1 DEF TypeOK
<1>3. QED
  BY <1>1, <1>2

LEMMA HandedGrows ==
    ASSUME Inv, Next, NEW t \in Ticket, t \in handed
    PROVE  t \in handed'
<1>1. \A s \in Session : SessionStep(s)
  BY SessionSteps DEF Inv, LinkInv
<1>2. \A i \in Item : ItemStep(i)
  BY ItemSteps DEF Inv, LinkInv
<1>3. \A s \in Session :
          /\ <<"claim", s>> \in handed => <<"claim", s>> \in handed'
          /\ <<"collect", s>> \in handed => <<"collect", s>> \in handed'
  <2> SUFFICES ASSUME NEW s \in Session
               PROVE  /\ <<"claim", s>> \in handed => <<"claim", s>> \in handed'
                      /\ <<"collect", s>> \in handed => <<"collect", s>> \in handed'
    OBVIOUS
  <2>1. CASE Passed(s)
    BY <2>1 DEF Passed, SameTickets
  <2>2. CASE Created(s)
    BY <2>2 DEF Created
  <2>3. CASE ClaimedNow(s)
    BY <2>3 DEF ClaimedNow, TakenOver
  <2>4. CASE CollectedNow(s)
    BY <2>4 DEF CollectedNow, TakenOver
  <2>5. QED
    BY <1>1, <2>1, <2>2, <2>3, <2>4 DEF SessionStep
<1>4. \A i \in Item : <<"decide", i>> \in handed => <<"decide", i>> \in handed'
  BY <1>2 DEF ItemStep
<1>5. \/ \E s \in Session : t = <<"claim", s>> \/ t = <<"collect", s>>
      \/ \E i \in Item : t = <<"decide", i>>
  BY DEF Ticket
<1>6. QED
  BY <1>3, <1>4, <1>5

LEMMA NewTicketUsable ==
    ASSUME Inv, Next, NEW t \in Ticket, t \notin handed, t \in handed'
    PROVE  Usable(t)'
<1>1. ASSUME NEW s \in Session, t = <<"claim", s>>
      PROVE  Usable(t)'
  <2>1. Created(s)
    BY <1>1, SessionSteps
    DEF Inv, LinkInv, SessionStep, Passed, SameTickets, ClaimedNow, CollectedNow, TakenOver
  <2>2. KeptPairings'[s].status = "pending"
    BY <2>1 DEF Created, KeptPairings
  <2>3. QED
    BY <1>1, <2>2 DEF Usable
<1>2. ASSUME NEW s \in Session, t = <<"collect", s>>
      PROVE  Usable(t)'
  <2>1. ClaimedNow(s)
    BY <1>2, SessionSteps
    DEF Inv, LinkInv, SessionStep, Passed, SameTickets, Created, CollectedNow
  <2>2. KeptPairings[s].status = "pending" /\ KeptPairings[s].exp > now
    BY <2>1 DEF ClaimedNow, KeptPairings, NoPairing
  <2>3. KeptPairings'[s].status = "claimed"
    BY <2>1, <2>2 DEF ClaimedNow, TakenOver, KeptPairings
  <2>4. QED
    BY <1>2, <2>3 DEF Usable
<1>3. ASSUME NEW i \in Item, t = <<"decide", i>>
      PROVE  Usable(t)'
  BY <1>3, ItemSteps DEF Inv, LinkInv, ItemStep, Usable
<1>4. QED
  BY <1>1, <1>2, <1>3 DEF Ticket

LEMMA UsableBefore ==
    ASSUME Inv, Inv', Next, NEW t \in Ticket, t \in handed, Usable(t)'
    PROVE  Usable(t)
<1>0. /\ now \in Nat /\ now' \in Nat /\ now' >= now
      /\ \A s \in Session : pairing'[s].exp \in Nat
  BY TimePasses DEF Inv, LinkInv, TypeOK, Pairings
<1>1. ASSUME NEW s \in Session, NEW p \in {"pending", "claimed"}, Passed(s),
             KeptPairings'[s].status = p
      PROVE  KeptPairings[s].status = p
  <2>1. pairing'[s].status = p /\ pairing'[s].exp > now'
    BY <1>1 DEF KeptPairings, NoPairing
  <2>2. pairing'[s] = pairing[s]
    BY <1>1, <2>1 DEF Passed, KeptPairings, NoPairing
  <2>3. QED
    BY <1>0, <2>1, <2>2 DEF KeptPairings
<1>2. ASSUME NEW s \in Session, t = <<"claim", s>>
      PROVE  Usable(t)
  <2>1. KeptPairings'[s].status = "pending"
    BY <1>2 DEF Usable
  <2>2. pairing'[s].status = "pending"
    BY <2>1 DEF KeptPairings, NoPairing
  <2>3. Passed(s)
    BY <1>2, <2>2, SessionSteps
    DEF Inv, LinkInv, SessionStep, Created, ClaimedNow, CollectedNow
  <2>4. QED
    BY <1>1, <1>2, <2>1, <2>3 DEF Usable
<1>3. ASSUME NEW s \in Session, t = <<"collect", s>>
      PROVE  Usable(t)
  <2>1. KeptPairings'[s].status = "claimed"
    BY <1>3 DEF Usable
  <2>2. pairing'[s].status = "claimed"
    BY <2>1 DEF KeptPairings, NoPairing
  <2>3. ~ClaimedNow(s)
    BY <1>3 DEF ClaimedNow, KeptPairings, NoPairing, Inv, SessionTickets
  <2>4. Passed(s)
    BY <2>2, <2>3, SessionSteps DEF Inv, LinkInv, SessionStep, Created, CollectedNow
  <2>5. QED
    BY <1>1, <1>3, <2>1, <2>4 DEF Usable
<1>4. ASSUME NEW i \in Item, t = <<"decide", i>>
      PROVE  Usable(t)
  BY <1>4, ItemSteps DEF Inv, LinkInv, ItemStep, Usable
<1>5. QED
  BY <1>2, <1>3, <1>4 DEF Ticket

\* What a redemption is, in terms of the registry.
Spent(t) ==
    /\ t \in Ticket /\ t \in handed /\ t \in handed'
    /\ Usable(t) /\ ~Usable(t)'
    /\ uses' = [uses EXCEPT ![t] = @ + 1]

LEMMA UseSpends ==
    ASSUME Inv, Inv', Next
    PROVE  uses' = uses \/ \E t \in Ticket : Spent(t)
<1>1. ASSUME NEW u \in User, NEW s \in Session, NEW d \in Device, ClaimPairing(u, s, d)
      PROVE  Spent(<<"claim", s>>)
  <2>1. KeptPairings[s].status = "pending" /\ pairing[s].status # "absent"
    BY <1>1 DEF ClaimPairing, KeptPairings, NoPairing
  <2>2. <<"claim", s>> \in Ticket /\ <<"claim", s>> \in handed
    BY <2>1 DEF Ticket, Inv, SessionTickets
  <2>3. pairing'[s].status = "claimed"
    <3>1. KeptPairings[s] \in Pairings
      BY KeptTypes DEF Inv, LinkInv
    <3>2. pairing'[s] = [KeptPairings[s] EXCEPT !.status = "claimed", !.device = d]
      BY <1>1, KeptTypes DEF Inv, LinkInv, ClaimPairing, Claimed
    <3>3. QED
      BY <3>1, <3>2, ClaimedFields
  <2>4. KeptPairings'[s].status # "pending"
    BY <2>3 DEF KeptPairings, NoPairing
  <2>5. QED
    BY <1>1, <2>1, <2>2, <2>4, HandedGrows DEF Spent, Usable, ClaimPairing, Use
<1>2. ASSUME NEW s \in Session, CollectToken(s)
      PROVE  Spent(<<"collect", s>>)
  <2>1. KeptPairings[s].status = "claimed" /\ pairing[s].status = "claimed"
    BY <1>2 DEF CollectToken, KeptPairings, NoPairing
  <2>2. <<"collect", s>> \in Ticket /\ <<"collect", s>> \in handed
    BY <2>1 DEF Ticket, Inv, SessionTickets
  <2>3. pairing'[s].status = "completed"
    BY <1>2, KeptTypes, CompletedFields DEF Inv, LinkInv, CollectToken, Completed
  <2>4. KeptPairings'[s].status # "claimed"
    BY <2>3 DEF KeptPairings, NoPairing
  <2>5. QED
    BY <1>2, <2>1, <2>2, <2>4, HandedGrows DEF Spent, Usable, CollectToken, Use
<1>3. ASSUME NEW i \in Item, NEW o, NEW d, pending[i] # None, Record(i, o, d)
      PROVE  Spent(<<"decide", i>>)
  <2>1. <<"decide", i>> \in Ticket /\ <<"decide", i>> \in handed
    BY <1>3 DEF Ticket, Inv, ItemTickets
  <2>2. pending'[i] = None
    BY <1>3 DEF Record, Dequeued, Inv, LinkInv, TypeOK
  <2>3. QED
    BY <1>3, <2>1, <2>2, HandedGrows DEF Spent, Usable, Record, Use
<1>4. \/ uses' = uses
      \/ \E u \in User, s \in Session, d \in Device : ClaimPairing(u, s, d)
      \/ \E s \in Session : CollectToken(s)
      \/ \E i \in Item : pending[i] # None /\ \E o, d : Record(i, o, d)
  BY DEF Next, Tick, SignUp, DeleteUser, RegisterDevice, RevokeDevice, TransferDevice,
     Heartbeat, CreatePairing, ClaimCode, ClaimQr, ReportDiscovery, Deny, Approve
<1>5. QED
  BY <1>1, <1>2, <1>3, <1>4 DEF Spent

LEMMA OnceInit == Init => Once!Init
BY DEF Init, Once!Init, Phase

LEMMA OnceStep ==
    ASSUME Inv, Inv', Next
    PROVE  Once!Next
<1>1. DOMAIN Phase' = Ticket
  BY DEF Phase
<1>2. \A t \in Ticket :
          /\ Phase[t] = IF t \notin handed THEN "unissued"
                        ELSE IF Usable(t) THEN "live" ELSE "dead"
          /\ Phase'[t] = IF t \notin handed' THEN "unissued"
                         ELSE IF Usable(t)' THEN "live" ELSE "dead"
  BY DEF Phase
<1>3. \A t \in Ticket : Phase'[t] \in Once!Onward(t, Phase[t])
  <2> SUFFICES ASSUME NEW t \in Ticket PROVE Phase'[t] \in Once!Onward(t, Phase[t])
    OBVIOUS
  <2>1. CASE t \notin handed
    BY <1>2, <2>1, NewTicketUsable DEF Once!Onward
  <2>2. CASE t \in handed
    BY <1>2, <2>2, UsableBefore, HandedGrows DEF Once!Onward
  <2>3. QED
    BY <2>1, <2>2
<1>4. Once!Age \/ \E t \in Ticket : Once!Redeem(t)
  <2>1. CASE uses' = uses
    BY <2>1 DEF Once!Age
  <2>2. ASSUME NEW t \in Ticket, Spent(t)
        PROVE  Once!Redeem(t)
    BY <1>2, <2>2 DEF Spent, Once!Redeem
  <2>3. QED
    BY <2>1, <2>2, UseSpends
<1>5. QED
  BY <1>1, <1>3, <1>4 DEF Once!Next

-----------------------------------------------------------------------------
(* Theorems.                                                               *)

\* What the theorems below follow from.
THEOREM DevicesInvariant == Spec => []Inv
BY InvInit, InvStep, PTL DEF Spec

\* The registry keeps its shape.
THEOREM DevicesTypeCorrect == Spec => []TypeOK
<1>1. Inv => TypeOK
  BY DEF Inv, LinkInv
<1>2. QED
  BY <1>1, DevicesInvariant, PTL

\* The four linking handlers never link one fingerprint to two devices in use.
THEOREM LinkedOnce == Spec => []OneLinkPerFingerprint
<1>1. Inv => OneLinkPerFingerprint
  BY DEF Inv, LinkInv
<1>2. QED
  BY <1>1, DevicesInvariant, PTL

\* A claimed session leads to the device that was made for it.
THEOREM ClaimsNameDevices == Spec => []ClaimNamesItsDevice
<1>1. Inv => ClaimNamesItsDevice
  BY DEF Inv, ClaimSound, ClaimNamesItsDevice
<1>2. QED
  BY <1>1, DevicesInvariant, PTL

\* A heartbeat never makes a revoked device look active.
THEOREM RevokedShows == Spec => []StatusTellsRevoked
<1>1. Inv => StatusTellsRevoked
  BY DEF Inv, LinkInv
<1>2. QED
  BY <1>1, DevicesInvariant, PTL

\* Each device that AutoMode linked is in the history once.
THEOREM TrailIsComplete == Spec => []AuditTrail
<1>1. Inv => AuditTrail
  BY HistoryGivesTrail DEF Inv
<1>2. QED
  BY <1>1, DevicesInvariant, PTL

\* A session is claimed once, its token collected once, a discovery decided once.
THEOREM DeviceTicketsAreSingleUse == Spec => SingleUseTickets
<1>1. Inv /\ Inv' /\ [Next]_vars => [Once!Next]_<<Phase, uses>>
  <2> SUFFICES ASSUME Inv, Inv', [Next]_vars PROVE [Once!Next]_<<Phase, uses>>
    OBVIOUS
  <2>1. CASE UNCHANGED vars
    <3>1. Phase' = Phase /\ uses' = uses
      BY <2>1 DEF vars, Phase, Usable, KeptPairings
    <3>2. QED
      BY <3>1
  <2>2. QED
    BY <2>1, OnceStep
<1>2. QED
  BY <1>1, OnceInit, DevicesInvariant, PTL DEF Spec, SingleUseTickets, Once!Spec

\* So no pairing session is claimed twice, no token collected twice and no discovery
\* decided twice, by any users and through any number of handlers.
THEOREM DeviceRedeemedOnce == Spec => []Once!AtMostOnce
<1>1. Once!Init => Once!AtMostOnce
  BY DEF Once!Init, Once!AtMostOnce
<1>2. Once!AtMostOnce /\ [Once!Next]_<<Phase, uses>> => Once!AtMostOnce'
  <2> SUFFICES ASSUME Once!AtMostOnce, [Once!Next]_<<Phase, uses>>
               PROVE  Once!AtMostOnce'
    OBVIOUS
  <2>1. CASE UNCHANGED <<Phase, uses>>
    BY <2>1 DEF Once!AtMostOnce
  <2>2. ASSUME NEW t \in Ticket, Phase[t] = "dead", Once!Next
        PROVE  Phase'[t] = "dead"
    BY <2>2 DEF Once!Next, Once!Onward
  <2>3. CASE Once!Next /\ Once!Age
    BY <2>2, <2>3 DEF Once!Age, Once!AtMostOnce
  <2>4. ASSUME Once!Next, NEW t \in Ticket, Once!Redeem(t)
        PROVE  Once!AtMostOnce'
    <3>1. /\ uses' = [uses EXCEPT ![t] = uses[t] + 1]
          /\ Phase[t] = "live" /\ Phase'[t] = "dead"
      BY <2>4 DEF Once!Redeem
    <3>2. uses \in [Ticket -> {0, 1}] /\ uses[t] # 1
      BY <3>1 DEF Once!AtMostOnce
    <3>3. uses[t] + 1 = 1
      BY <3>2
    <3>4. uses' = [uses EXCEPT ![t] = 1]
      BY <3>1, <3>3
    <3>5. QED
      BY <2>2, <2>4, <3>1, <3>2, <3>4 DEF Once!AtMostOnce
  <2>5. QED
    BY <2>1, <2>3, <2>4 DEF Once!Next
<1>3. QED
  BY <1>1, <1>2, DeviceTicketsAreSingleUse, PTL DEF SingleUseTickets, Once!Spec

=============================================================================
