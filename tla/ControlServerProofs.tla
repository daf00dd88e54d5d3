------------------------- MODULE ControlServerProofs -------------------------
(***************************************************************************)
(* Theorems about ControlServer for any users, names and losses of the     *)
(* state file.                                                             *)
(***************************************************************************)
EXTENDS ControlServer, TLAPS

\* Before the service is constructed there is no beacon, and constructing it
\* starts the one the file asks for.
Unbuilt == /\ ~built => beacon = None
           /\ ~up => ~built

\* The file holds the last id that was drawn for it, and as long as nothing is
\* stored the losses pay for all ids there were: the next one is still free.
Identities ==
    /\ file # None => file.id = ids /\ ids <= losses + 1
    /\ file = None => ids <= losses

Inv == /\ TypeOK
       /\ Unbuilt
       /\ Identities
       /\ BeaconNeverLies
       /\ SilentOnlyAfterFailure

\* What a handler starts from: the contents read, and the beacon as it is once
\* the service is constructed.
LEMMA HandlerStart ==
    ASSUME Inv
    PROVE  /\ Read \in State
           /\ Read.id = IF file = None THEN ids + 1 ELSE ids
           /\ Live \in Announcements \cup {None}
           /\ Live # None /\ file # None =>
                 HasRole("server") /\ Live = Announcement(file)
           /\ HasRole("server") /\ Live = None => failed
<1>1. Read \in State
  BY NameAssumption DEF Inv, TypeOK, Read, State, Roles
<1>2. Read.id = IF file = None THEN ids + 1 ELSE ids
  BY DEF Inv, TypeOK, Identities, Read
<1>3. HasRole("server") => Announcement(file) \in Announcements
  BY DEF Inv, TypeOK, HasRole, Announcement, Announcements, State
<1>4. Live \in Announcements \cup {None}
  BY <1>3 DEF Inv, TypeOK, Live
<1>5. Live # None /\ file # None => HasRole("server") /\ Live = Announcement(file)
  BY DEF Inv, Live, BeaconNeverLies
<1>6. HasRole("server") /\ Live = None => failed
  BY <1>3, NoneAssumption DEF Inv, Live, SilentOnlyAfterFailure
<1>7. QED
  BY <1>1, <1>2, <1>4, <1>5, <1>6


-----------------------------------------------------------------------------
(* The pieces the handlers are made of.                                    *)

\* What every handler leaves to prove: its effect on the service, and that the
\* users' part keeps its type.
ServiceInv ==
    /\ file \in State \cup {None}
    /\ built \in BOOLEAN /\ failed \in BOOLEAN
    /\ beacon \in Announcements \cup {None}
    /\ ids \in Nat /\ losses \in Nat
    /\ Identities
    /\ BeaconNeverLies
    /\ SilentOnlyAfterFailure

\* A write stores the id that was read, or the fresh one.
LEMMA WriteStep ==
    ASSUME Inv, NEW s \in State, s.id = Read.id, Write(s)
    PROVE  /\ file' = s /\ file' # None
           /\ file' \in State /\ ids' \in Nat /\ losses' \in Nat
           /\ failed' = failed
           /\ Identities'
<1>1. s # None
  BY NoneAssumption
<1>2. s.id = ids' /\ ids' <= losses' + 1
  BY HandlerStart DEF Inv, TypeOK, Identities, Write
<1>3. file' = s /\ losses' = losses /\ failed' = failed /\ ids' \in Nat
  BY DEF Write, Inv, TypeOK, State
<1>4. Identities'
  BY <1>1, <1>2, <1>3 DEF Identities
<1>5. QED
  BY <1>1, <1>3, <1>4 DEF Inv, TypeOK

LEMMA LoseStep ==
    ASSUME Inv, LoseFile, UNCHANGED ids
    PROVE  file' = None /\ losses' \in Nat /\ Identities'
BY LossAssumption DEF Inv, TypeOK, Identities, LoseFile

LEMMA WriteFailsStep ==
    ASSUME Inv, WriteFails
    PROVE  /\ failed' = TRUE
           /\ file' \in {file, None}
           /\ file' \in State \cup {None} /\ ids' \in Nat /\ losses' \in Nat
           /\ Identities'
<1>1. CASE LoseFile
  BY <1>1, LoseStep DEF WriteFails, Inv, TypeOK
<1>2. CASE UNCHANGED <<file, losses>>
  BY <1>2 DEF WriteFails, Inv, TypeOK, Identities
<1>3. QED
  BY <1>1, <1>2 DEF WriteFails

LEMMA ServedFacts ==
    ASSUME Inv, NEW u \in Users, NEW n \in Names
    PROVE  /\ Served(u, n) \in State /\ Served(u, n).id = Read.id
           /\ Served(u, n).role = "server"
           /\ Announcement(Served(u, n)) \in Announcements
BY HandlerStart DEF Served, State, Roles, Announcement, Announcements

LEMMA PlainFacts ==
    ASSUME Inv, NEW r \in Roles
    PROVE  Plain(r) \in State /\ Plain(r).id = Read.id /\ Plain(r).role = r
BY HandlerStart DEF Plain, State

\* The file is left alone, and the service is constructed if it was not.
LEMMA BuildStep ==
    ASSUME Inv, Keep, beacon' = Live, built' = TRUE
    PROVE  ServiceInv'
BY HandlerStart DEF ServiceInv, Keep, Inv, TypeOK, Identities, BeaconNeverLies,
   SilentOnlyAfterFailure, HasRole, Announcement

LEMMA PromotedStep ==
    ASSUME Inv, NEW u \in Users, NEW n \in Names, Promoted(u, n)
    PROVE  ServiceInv' /\ built' = TRUE
<1>1. CASE Owned(u)
  BY <1>1, BuildStep DEF Promoted
<1>2. CASE ~Owned(u)
  <2>1. /\ Write(Served(u, n)) /\ built' = TRUE
        /\ beacon' = Announcement(Served(u, n))
    BY <1>2 DEF Promoted
  <2>2. beacon' \in Announcements /\ beacon' # None /\ HasRole("server")'
    BY <2>1, ServedFacts, WriteStep, NoneAssumption DEF HasRole
  <2>3. beacon' = Announcement(file)'
    BY <2>1, ServedFacts, WriteStep DEF Announcement
  <2>4. QED
    BY <2>1, <2>2, <2>3, ServedFacts, WriteStep
       DEF ServiceInv, BeaconNeverLies, SilentOnlyAfterFailure, Inv, TypeOK
<1>3. QED
  BY <1>1, <1>2

LEMMA NotPromotedStep ==
    ASSUME Inv, NEW u \in Users, NotPromoted(u)
    PROVE  ServiceInv' /\ built' = TRUE
BY HandlerStart, WriteFailsStep
   DEF NotPromoted, ServiceInv, BeaconNeverLies, SilentOnlyAfterFailure, HasRole, Announcement

LEMMA UnservedStep ==
    ASSUME Inv, NEW r \in Roles \ {"server"}, Unserved(r)
    PROVE  ServiceInv' /\ built' = TRUE
<1>1. CASE Write(Plain(r))
  <2>1. ~HasRole("server")'
    BY <1>1, PlainFacts, WriteStep DEF HasRole
  <2>2. QED
    BY <1>1, <2>1, PlainFacts, WriteStep
       DEF Unserved, ServiceInv, BeaconNeverLies, SilentOnlyAfterFailure, Inv, TypeOK
<1>2. CASE WriteFails
  BY <1>2, WriteFailsStep
     DEF Unserved, ServiceInv, BeaconNeverLies, SilentOnlyAfterFailure
<1>3. QED
  BY <1>1, <1>2 DEF Unserved

-----------------------------------------------------------------------------
(* The inductive invariant.                                                *)

LEMMA Initially == Init => Inv
<1> SUFFICES ASSUME Init PROVE Inv
  OBVIOUS
<1>1. TypeOK
  BY DEF Init, TypeOK
<1>2. Unbuilt /\ Identities /\ BeaconNeverLies /\ SilentOnlyAfterFailure
  BY DEF Init, Unbuilt, Identities, BeaconNeverLies, SilentOnlyAfterFailure
<1>3. QED
  BY <1>1, <1>2 DEF Inv

\* A handler ends with the service constructed and its user's page served.
LEMMA HandlerStep ==
    ASSUME Inv, NEW u \in Users, NEW k, Serving(u, k),
           ServiceInv', built' = TRUE,
           NEW s \in {"idle", "granted"}, Goto(u, s), UNCHANGED acct
    PROVE  Inv'
BY DEF Serving, Goto, Unbuilt, ServiceInv, Inv, TypeOK

LEMMA RequestStep ==
    ASSUME Inv, NEW u \in Users,
           \/ Promote(u) \/ PromoteFails(u) \/ Reset(u)
           \/ AskWithoutUsers(u) \/ Recover(u) \/ RecoverFails(u) \/ Answer(u)
    PROVE  Inv'
<1>1. CASE Promote(u)
  <2>1. ServiceInv' /\ built' = TRUE
    BY <1>1, PromotedStep DEF Promote
  <2>2. QED
    BY <1>1, <2>1, HandlerStep DEF Promote
<1>2. CASE PromoteFails(u)
  <2>1. ServiceInv' /\ built' = TRUE
    BY <1>2, NotPromotedStep DEF PromoteFails
  <2>2. QED
    BY <1>2, <2>1, HandlerStep DEF PromoteFails
<1>3. CASE Reset(u)
  <2>1. ServiceInv' /\ built' = TRUE
    BY <1>3, UnservedStep DEF Reset, Roles
  <2>2. QED
    BY <1>3, <2>1, HandlerStep DEF Reset
<1>4. CASE AskWithoutUsers(u)
  <2>1. ServiceInv' /\ built' = TRUE
    BY <1>4, BuildStep DEF AskWithoutUsers
  <2>2. QED
    BY <1>4, <2>1, HandlerStep DEF AskWithoutUsers
<1>5. CASE Recover(u)
  <2>1. file.name \in Names
    BY <1>5, NoneAssumption DEF Recover, OwnerMissing, HasRole, Inv, TypeOK, State
  <2>2. ServiceInv' /\ built' = TRUE
    BY <1>5, <2>1, PromotedStep DEF Recover
  <2>3. QED
    BY <1>5, <2>2, HandlerStep DEF Recover
<1>6. CASE RecoverFails(u)
  <2>1. ServiceInv' /\ built' = TRUE
    BY <1>6, NotPromotedStep DEF RecoverFails
  <2>2. QED
    BY <1>6, <2>1, HandlerStep DEF RecoverFails
<1>7. CASE Answer(u)
  <2>1. ServiceInv' /\ built' = TRUE
    BY <1>7, BuildStep DEF Answer
  <2>2. QED
    BY <1>7, <2>1, HandlerStep DEF Answer
<1>8. QED
  BY <1>1, <1>2, <1>3, <1>4, <1>5, <1>6, <1>7

\* Steps that touch neither the file nor the service.
LEMMA UserStep ==
    ASSUME Inv, UNCHANGED serviceVars, UNCHANGED up,
           acct' \in [Users -> {"none", "active", "revoked"}],
           token' \in SUBSET Users,
           req' \in [Users -> Requests \cup {"idle", "granted"}]
    PROVE  Inv'
BY DEF serviceVars, Inv, TypeOK, Unbuilt, Identities, BeaconNeverLies,
   SilentOnlyAfterFailure, HasRole, Announcement

LEMMA InvStep ==
    ASSUME Inv, [Next]_vars
    PROVE  Inv'
<1>1. CASE UNCHANGED vars
  BY <1>1, UserStep DEF vars, userVars, Inv, TypeOK
<1>2. CASE \E u \in Users, k \in Requests : Verify(u, k)
  BY <1>2, UserStep DEF Verify, Goto, userVars, Inv, TypeOK
<1>3. CASE \E u \in Users : Promote(u) \/ PromoteFails(u) \/ Reset(u)
  BY <1>3, RequestStep
<1>4. CASE \E u, v \in Users : DeleteUser(u, v)
  <2> PICK u \in Users, v \in Users : DeleteUser(u, v)
    BY <1>4
  <2>1. acct' \in [Users -> {"none", "active", "revoked"}]
    BY DEF DeleteUser, Inv, TypeOK
  <2>2. req' \in [Users -> Requests \cup {"idle", "granted"}]
    BY DEF DeleteUser, Goto, Inv, TypeOK
  <2>3. QED
    BY <2>1, <2>2, UserStep DEF DeleteUser, Serving, Inv, TypeOK
<1>5. CASE \E u \in Users :
             AskWithoutUsers(u) \/ Recover(u) \/ RecoverFails(u) \/ Answer(u)
  BY <1>5, RequestStep
<1>6. CASE \E u \in Users : SignIn(u) \/ TokenEnds(u)
  BY <1>6, UserStep DEF SignIn, TokenEnds, Inv, TypeOK
<1>7. CASE Join
  <2>1. ServiceInv' /\ built' = TRUE
    BY <1>7, UnservedStep DEF Join, Roles
  <2>2. QED
    BY <1>7, <2>1, SMT DEF Join, userVars, Unbuilt, ServiceInv, Inv, TypeOK
<1>8. CASE GetStatus
  <2>1. ServiceInv' /\ built' = TRUE
    BY <1>8, BuildStep DEF GetStatus
  <2>2. QED
    BY <1>8, <2>1, SMT DEF GetStatus, userVars, Unbuilt, ServiceInv, Inv, TypeOK
<1>9. CASE UpdaterDeletesFile
  BY <1>9, LoseStep DEF UpdaterDeletesFile, userVars, Inv, TypeOK, Unbuilt,
     BeaconNeverLies, SilentOnlyAfterFailure, HasRole
<1>10. CASE Crash
  <2>1. /\ file' \in State \cup {None} /\ losses' \in Nat /\ ids' \in Nat
        /\ Identities'
    <3>1. CASE LoseFile
      BY <1>10, <3>1, LoseStep DEF Crash, Inv, TypeOK
    <3>2. CASE UNCHANGED <<file, losses>>
      BY <1>10, <3>2 DEF Crash, Inv, TypeOK, Identities
    <3>3. QED
      BY <1>10, <3>1, <3>2 DEF Crash
  <2>2. QED
    BY <1>10, <2>1 DEF Crash, userVars, Inv, TypeOK, Unbuilt, BeaconNeverLies,
       SilentOnlyAfterFailure
<1>11. CASE Start
  BY <1>11 DEF Start, userVars, Inv, TypeOK, Unbuilt, Identities,
     BeaconNeverLies, SilentOnlyAfterFailure, HasRole, Announcement
<1>12. QED
  BY <1>1, <1>2, <1>3, <1>4, <1>5, <1>6, <1>7, <1>8, <1>9, <1>10, <1>11 DEF Next

LEMMA Invariant == Spec => []Inv
BY Initially, InvStep, PTL DEF Spec

-----------------------------------------------------------------------------

\* Every variable stays in its type: what is read back from the state file after a
\* loss, a failed write or a restart is a state the handlers can go on from.
THEOREM TypeCorrect == Spec => []TypeOK
BY Invariant, PTL DEF Inv

\* Whatever is written, lost or torn, the beacon announces what the file stores.
THEOREM HonestBeacon == Spec => []BeaconNeverLies
BY Invariant, PTL DEF Inv

\* Without a failed write, every server whose service runs is discoverable.
THEOREM ServersAreHeard == Spec => []SilentOnlyAfterFailure
BY Invariant, PTL DEF Inv

\* Whatever the handlers write, the id stored is the last one drawn, and never
\* were more drawn than the file was lost, and one.
THEOREM OneIdentityPerLoss == Spec => []IdentityPerLoss
<1>1. Inv => IdentityPerLoss
  BY DEF Inv, TypeOK, Identities, IdentityPerLoss
<1>2. QED
  BY <1>1, Invariant, PTL

-----------------------------------------------------------------------------
(* The permission endpoint.                                                *)

\* Only its two favourable answers open the editor on a page.
LEMMA Granting ==
    ASSUME Inv, [Next]_vars, NEW u \in Users, req[u] = "ask", req'[u] = "granted"
    PROVE  Recover(u) \/ (Answer(u) /\ CanEdit(u))
<1>1. ASSUME NEW v \in Users, NEW s \in Requests \cup {"idle"}, Goto(v, s)
      PROVE  FALSE
  BY <1>1 DEF Goto, Inv, TypeOK, Requests
<1>2. req' # req
  OBVIOUS
<1>3. ASSUME NEW v \in Users, NEW s, Goto(v, s)
      PROVE  v = u
  BY <1>3 DEF Goto, Inv, TypeOK
<1>4. Next
  BY <1>2 DEF vars
<1>5. ASSUME NEW v \in Users, NEW k \in Requests PROVE ~Verify(v, k)
  BY <1>1 DEF Verify
<1>6. ASSUME NEW v \in Users
      PROVE  /\ ~Promote(v) /\ ~PromoteFails(v) /\ ~Reset(v)
             /\ ~AskWithoutUsers(v) /\ ~RecoverFails(v)
  BY <1>1 DEF Promote, PromoteFails, Reset, AskWithoutUsers, RecoverFails
<1>7. ASSUME NEW v \in Users, NEW w \in Users PROVE ~DeleteUser(v, w)
  BY <1>1 DEF DeleteUser
<1>8. ASSUME NEW v \in Users PROVE ~SignIn(v) /\ ~TokenEnds(v)
  BY <1>2 DEF SignIn, TokenEnds
<1>9. ~Join /\ ~GetStatus /\ ~UpdaterDeletesFile /\ ~Start
  BY <1>2 DEF Join, GetStatus, UpdaterDeletesFile, Start
<1>10. ~Crash
  BY DEF Crash
<1>11. PICK v \in Users : Recover(v) \/ Answer(v)
  BY <1>4, <1>5, <1>6, <1>7, <1>8, <1>9, <1>10 DEF Next
<1>12. v = u
  BY <1>3, <1>11 DEF Recover, Answer
<1>13. Answer(u) => CanEdit(u)
  BY <1>1 DEF Answer
<1>14. QED
  BY <1>11, <1>12, <1>13

\* Whoever is told that he may edit the layout may save it.
THEOREM AnswersAgree == Spec => PermissionIsKept
<1>1. ASSUME Inv, [Next]_vars, NEW u \in Users, req[u] = "ask", req'[u] = "granted"
      PROVE  CanEdit(u)'
  <2>1. CASE Recover(u)
    <3>1. file.name \in Names
      BY <1>1, <2>1, NoneAssumption DEF Recover, OwnerMissing, HasRole, Inv, TypeOK, State
    <3>2. CASE Owned(u)
      BY <1>1, <2>1, <3>2 DEF Recover, Promoted, Keep, Owned, HasRole, CanEdit, Read
    <3>3. CASE ~Owned(u)
      <4>1. file' = Served(u, file.name) /\ file' # None
        BY <1>1, <2>1, <3>1, <3>3, ServedFacts, WriteStep DEF Recover, Promoted
      <4>2. QED
        BY <4>1 DEF Served, CanEdit, Read
    <3>4. QED
      BY <3>2, <3>3
  <2>2. CASE Answer(u) /\ CanEdit(u)
    BY <2>2 DEF Answer, Keep, CanEdit, Read
  <2>3. QED
    BY <1>1, <2>1, <2>2, Granting
<1>2. Inv /\ [Next]_vars =>
        [\A u \in Users : req[u] = "ask" /\ req'[u] = "granted" => CanEdit(u)']_vars
  BY <1>1
<1>3. QED
  BY <1>2, Invariant, PTL DEF Spec, PermissionIsKept

\* An active owner loses the device to another one only by a promotion.
THEOREM OwnersAreSpared == Spec => RecoverySparesOwners
<1>1. ASSUME Inv, [Next]_vars, HasRole("server"), file.owner \in Active,
             HasRole("server")', file'.owner # file.owner
      PROVE  \E u \in Users : req[u] = "promote" /\ file'.owner = u
  <2>1. file' # file
    BY <1>1
  <2>2. ~LoseFile
    BY <1>1 DEF LoseFile, HasRole
  <2>3. ~WriteFails
    BY <2>1, <2>2 DEF WriteFails
  <2>4. ASSUME NEW r \in {"unconfigured", "satellite"} PROVE ~Unserved(r)
    <3>1. ~Write(Plain(r))
      BY <1>1, PlainFacts DEF Write, HasRole, Roles
    <3>2. QED
      BY <2>3, <3>1 DEF Unserved
  <2>5. ASSUME NEW u \in Users
        PROVE  /\ ~PromoteFails(u) /\ ~Reset(u) /\ ~AskWithoutUsers(u)
               /\ ~RecoverFails(u) /\ ~Answer(u) /\ ~SignIn(u) /\ ~TokenEnds(u)
    BY <2>1, <2>3, <2>4 DEF PromoteFails, NotPromoted, Reset, AskWithoutUsers,
       RecoverFails, Answer, SignIn, TokenEnds, Keep, serviceVars
  <2>6. ASSUME NEW u \in Users PROVE ~Recover(u)
    BY <1>1 DEF Recover, OwnerMissing
  <2>7. ~Join /\ ~GetStatus /\ ~UpdaterDeletesFile /\ ~Crash /\ ~Start
    BY <2>1, <2>2, <2>4 DEF Join, GetStatus, UpdaterDeletesFile, Crash, Start, Keep
  <2>8. ASSUME NEW u \in Users, NEW v \in Users PROVE ~DeleteUser(u, v)
    BY <2>1 DEF DeleteUser, serviceVars
  <2>9. ASSUME NEW u \in Users, NEW k \in Requests PROVE ~Verify(u, k)
    BY <2>1 DEF Verify, serviceVars
  <2>10. PICK u \in Users : Promote(u)
    BY <1>1, <2>1, <2>5, <2>6, <2>7, <2>8, <2>9 DEF Next, vars, serviceVars
  <2>11. PICK n \in Names : Promoted(u, n)
    BY <2>10 DEF Promote
  <2>12. file' = Served(u, n)
    BY <2>1, <2>11 DEF Promoted, Keep, Write
  <2>13. QED
    BY <2>10, <2>12 DEF Promote, Serving, Served
<1>2. QED
  BY <1>1, Invariant, PTL DEF Spec, RecoverySparesOwners

=============================================================================
