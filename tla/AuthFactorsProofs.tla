--------------------------- MODULE AuthFactorsProofs ---------------------------
(***************************************************************************)
(* Theorems about AuthFactors for any users, enrolments, batches of backup *)
(* codes, devices, tokens and renewal periods.                             *)
(***************************************************************************)
EXTENDS AuthFactors, TLAPS

LEMMA KeptTypes ==
    ASSUME TypeOK
    PROVE  KeptRevoked \in [Token -> Nat]
BY DEF TypeOK, KeptRevoked, RevokedAt

\* Every step keeps the shape of the registry and of the tokens.
LEMMA TypeStep == TypeOK /\ [Next]_vars => TypeOK'
<1> SUFFICES ASSUME TypeOK, [Next]_vars PROVE TypeOK'
  OBVIOUS
<1> USE DEF totpVars, trustVars
<1>k. KeptRevoked \in [Token -> Nat]
  BY KeptTypes
<1>1. CASE UNCHANGED vars
  BY <1>1 DEF TypeOK, vars
<1>2. CASE Tick
  BY <1>2 DEF TypeOK, Tick
<1>3. ASSUME NEW u \in User, NEW k \in Secret, TotpSetupBegin(u, k)
      PROVE  TypeOK'
  <2>1. [secret |-> k, confirmed |-> FALSE, exp |-> now + SetupTTL] \in Setups
    BY TTLAssumption DEF TypeOK, Setups
  <2>2. setup' \in [User -> Setups]
    BY <1>3, <2>1 DEF TypeOK, TotpSetupBegin
  <2>3. QED
    BY <1>3, <1>k, <2>2 DEF TypeOK, TotpSetupBegin
<1>4. ASSUME NEW u \in User, NEW b \in Batch, TotpSetupConfirm(u, b)
      PROVE  TypeOK'
  <2>1. [setup[u] EXCEPT !.confirmed = TRUE] \in Setups /\ setup[u].secret \in Secret
    BY <1>4 DEF TypeOK, TotpSetupConfirm, Setups
  <2>2. setup' \in [User -> Setups] /\ totp' \in [User -> Secret \cup {None}]
    BY <1>4, <2>1 DEF TypeOK, TotpSetupConfirm
  <2>3. {b} \X Code \subseteq Ticket
    BY DEF Ticket
  <2>4. backup' \in [User -> SUBSET Ticket]
    BY <1>4, <2>3 DEF TypeOK, TotpSetupConfirm
  <2>5. QED
    BY <1>4, <1>k, <2>2, <2>4 DEF TypeOK, TotpSetupConfirm
<1>5. ASSUME NEW u \in User, NEW t \in Ticket, TotpVerifyBackup(u, t)
      PROVE  TypeOK'
  BY <1>5, <1>k DEF TypeOK, TotpVerifyBackup, Taken
<1>6. ASSUME NEW u \in User, TotpDisable(u)
      PROVE  TypeOK'
  <2>1. NoSetup \in Setups
    BY DEF NoSetup, Setups
  <2>2. setup' \in [User -> Setups]
    BY <1>6, <2>1 DEF TypeOK, TotpDisable, Forgotten
  <2>3. QED
    BY <1>6, <1>k, <2>2 DEF TypeOK, TotpDisable
<1>7. ASSUME NEW u \in User, NEW f \in Fingerprint, NEW t \in Token, NEW ttl \in RenewalTTL,
             IssueTrustedDevice(u, f, t, ttl)
      PROVE  TypeOK'
  <2>1. now + ttl \in Nat
    BY TTLAssumption DEF TypeOK
  <2>2. /\ [user |-> u, fingerprint |-> f, exp |-> now + ttl] \in Tokens
        /\ [token |-> t, exp |-> now + ttl, revoked |-> FALSE] \in Entries
    BY <2>1 DEF Tokens, Entries
  <2>3. token' \in [Token -> Tokens] /\ trusted' \in [User -> [Fingerprint -> Entries]]
    BY <1>7, <2>2 DEF TypeOK, IssueTrustedDevice
  <2>4. revokedJti' \in [Token -> Nat]
    <3>1. trusted[u][f].exp \in Nat
      BY DEF TypeOK, Entries
    <3>2. revokedJti' = [x \in Token |-> IF x \in Displaced(u, f) THEN trusted[u][f].exp
                                         ELSE KeptRevoked[x]]
      BY <1>7 DEF IssueTrustedDevice
    <3>3. QED
      BY <1>k, <3>1, <3>2
  <2>5. Displaced(u, f) \subseteq Token
    <3>1. trusted[u][f].token \in Token \cup {None}
      BY DEF TypeOK, Entries
    <3>2. QED
      BY <3>1 DEF Displaced, Active
  <2>6. QED
    BY <1>7, <2>3, <2>4, <2>5 DEF TypeOK, IssueTrustedDevice
<1>8. ASSUME NEW u \in User, NEW f \in Fingerprint, RevokeTrustedDevice(u, f)
      PROVE  TypeOK'
  <2>1. [trusted[u][f] EXCEPT !.revoked = TRUE] \in Entries
    <3>1. trusted[u][f] \in Entries
      BY DEF TypeOK
    <3>2. \A e \in Entries : [e EXCEPT !.revoked = TRUE] \in Entries
      BY DEF Entries
    <3>3. QED
      BY <3>1, <3>2
  <2>2. trusted' \in [User -> [Fingerprint -> Entries]]
    BY <1>8, <2>1 DEF TypeOK, RevokeTrustedDevice
  <2>3. QED
    BY <1>8, <2>2 DEF TypeOK, RevokeTrustedDevice
<1>9. QED
  BY <1>1, <1>2, <1>3, <1>4, <1>5, <1>6, <1>7, <1>8 DEF Next

LEMMA TypeInit == Init => TypeOK
<1> SUFFICES ASSUME Init PROVE TypeOK
  OBVIOUS
<1>1. NoSetup \in Setups /\ NoToken \in Tokens /\ NoEntry \in Entries
  BY DEF NoSetup, Setups, NoToken, Tokens, NoEntry, Entries
<1>2. QED
  BY <1>1 DEF Init, TypeOK

-----------------------------------------------------------------------------
(* Enrolments.                                                             *)

\* A secret belongs to the one enrolment that drew it.
SecretsApart ==
    \A u \in User :
        /\ setup[u].secret # None => setup[u].secret \in drawn
        /\ totp[u] # None => totp[u] \in drawn
        /\ \A v \in User :
               /\ setup[u].secret # None /\ setup[u].secret = setup[v].secret => u = v
               /\ totp[u] # None /\ totp[u] = setup[v].secret => u = v

EnrolmentInv == TypeOK /\ OneEnrolment /\ SecretsApart

LEMMA EnrolmentStep == EnrolmentInv /\ [Next]_vars => EnrolmentInv'
<1> SUFFICES ASSUME EnrolmentInv, [Next]_vars PROVE EnrolmentInv'
  OBVIOUS
<1> USE DEF EnrolmentInv
<1>t. TypeOK'
  BY TypeStep
<1>1. CASE UNCHANGED <<setup, totp, backup, drawn>>
  BY <1>t, <1>1 DEF OneEnrolment, SecretsApart
<1>2. ASSUME NEW u \in User, NEW k \in Secret, TotpSetupBegin(u, k)
      PROVE  EnrolmentInv'
  <2>1. /\ k \notin drawn /\ drawn' = drawn \cup {k} /\ k # None
        /\ totp' = totp /\ backup' = backup
        /\ setup'[u].secret = k /\ ~setup'[u].confirmed
        /\ \A v \in User \ {u} : setup'[v] = setup[v]
    BY <1>2, NoneAssumption DEF TotpSetupBegin, TypeOK
  <2>2. OneEnrolment'
    BY <2>1 DEF OneEnrolment, SecretsApart
  <2>3. SecretsApart'
    BY <2>1 DEF SecretsApart
  <2>4. QED
    BY <1>t, <2>2, <2>3
<1>3. ASSUME NEW u \in User, NEW b \in Batch, TotpSetupConfirm(u, b)
      PROVE  EnrolmentInv'
  <2>1. /\ setup[u].secret # None /\ drawn' = drawn
        /\ totp'[u] = setup[u].secret
        /\ setup'[u].secret = setup[u].secret /\ setup'[u].confirmed
        /\ \A v \in User \ {u} : setup'[v] = setup[v] /\ totp'[v] = totp[v]
                                 /\ backup'[v] = backup[v]
    BY <1>3 DEF TotpSetupConfirm, TypeOK, Setups
  <2>2. OneEnrolment'
    BY <2>1 DEF OneEnrolment, SecretsApart
  <2>3. SecretsApart'
    BY <2>1 DEF SecretsApart
  <2>4. QED
    BY <1>t, <2>2, <2>3
<1>4. ASSUME NEW u \in User, NEW t \in Ticket, TotpVerifyBackup(u, t)
      PROVE  EnrolmentInv'
  <2>1. /\ totp[u] # None /\ totp' = totp /\ setup' = setup /\ drawn' = drawn
        /\ \A v \in User \ {u} : backup'[v] = backup[v]
    BY <1>4 DEF TotpVerifyBackup, TypeOK
  <2>2. QED
    BY <1>t, <2>1 DEF OneEnrolment, SecretsApart
<1>5. ASSUME NEW u \in User, TotpDisable(u)
      PROVE  EnrolmentInv'
  <2>1. /\ totp'[u] = None /\ backup'[u] = {} /\ drawn' = drawn
        /\ setup'[u].secret = None /\ ~setup'[u].confirmed
        /\ \A v \in User \ {u} : setup'[v] = setup[v] /\ totp'[v] = totp[v]
                                 /\ backup'[v] = backup[v]
    BY <1>5 DEF TotpDisable, Forgotten, NoSetup, TypeOK
  <2>2. OneEnrolment'
    BY <2>1 DEF OneEnrolment
  <2>3. SecretsApart'
    BY <2>1 DEF SecretsApart
  <2>4. QED
    BY <1>t, <2>2, <2>3
<1>6. QED
  BY <1>1, <1>2, <1>3, <1>4, <1>5
  DEF Next, vars, totpVars, Tick, IssueTrustedDevice, RevokeTrustedDevice

-----------------------------------------------------------------------------
(* Trusted devices.                                                        *)

\* An entry tells of a token in circulation and knows when it expires; a token
\* that was replaced is in circulation, and listed until it expires.
TrustSound ==
    /\ \A u \in User, f \in Fingerprint : trusted[u][f].token # None =>
           /\ token[trusted[u][f].token] # NoToken
           /\ token[trusted[u][f].token].exp = trusted[u][f].exp
    /\ \A t \in replaced :
           /\ token[t] # NoToken
           /\ token[t].exp > now => revokedJti[t] = token[t].exp

LEMMA TrustStep ==
    ASSUME TypeOK, TrustSound, [Next]_vars
    PROVE  TrustSound'
<1>t. TypeOK'
  BY TypeStep
<1>n. now \in Nat /\ now' \in Nat
  BY <1>t DEF TypeOK
<1>1. CASE UNCHANGED vars
  BY <1>1 DEF vars, trustVars, TrustSound
<1>2. CASE Tick
  BY <1>n, <1>2 DEF Tick, trustVars, TrustSound, TypeOK, Tokens
<1>3. CASE now' = now /\ UNCHANGED trustVars /\ revokedJti' = KeptRevoked
  BY <1>3 DEF trustVars, TrustSound, KeptRevoked, RevokedAt, TypeOK
<1>4. ASSUME NEW u \in User, NEW f \in Fingerprint, NEW t \in Token, NEW ttl \in RenewalTTL,
             IssueTrustedDevice(u, f, t, ttl)
      PROVE  TrustSound'
  <2> DEFINE new == [user |-> u, fingerprint |-> f, exp |-> now + ttl]
             entry == [token |-> t, exp |-> now + ttl, revoked |-> FALSE]
  <2>1. /\ token[t] = NoToken /\ now' = now
        /\ token'[t] = new /\ \A x \in Token \ {t} : token'[x] = token[x]
        /\ trusted'[u][f] = entry
        /\ \A v \in User, g \in Fingerprint :
               v # u \/ g # f => trusted'[v][g] = trusted[v][g]
        /\ \A x \in Token : revokedJti'[x] = IF x \in Displaced(u, f) THEN trusted[u][f].exp
                                             ELSE KeptRevoked[x]
        /\ replaced' = replaced \cup Displaced(u, f)
    BY <1>4 DEF IssueTrustedDevice, TypeOK
  <2>2. /\ new # NoToken /\ new.exp = now + ttl
        /\ entry.token = t /\ entry.exp = now + ttl
    BY NoneAssumption DEF NoToken
  <2> HIDE DEF new, entry
  <2>3. \A x \in Displaced(u, f) : /\ x \in Token /\ x # t
                                   /\ token[x] # NoToken /\ token[x].exp = trusted[u][f].exp
    BY <2>1 DEF Displaced, Active, TrustSound, TypeOK, Entries
  <2>4. \A x \in replaced : x \in Token /\ x # t
    BY <2>1 DEF TrustSound, TypeOK
  <2>5. \A v \in User, g \in Fingerprint : trusted'[v][g].token # None =>
            /\ token'[trusted'[v][g].token] # NoToken
            /\ token'[trusted'[v][g].token].exp = trusted'[v][g].exp
    <3> SUFFICES ASSUME NEW v \in User, NEW g \in Fingerprint, trusted'[v][g].token # None
                 PROVE  /\ token'[trusted'[v][g].token] # NoToken
                        /\ token'[trusted'[v][g].token].exp = trusted'[v][g].exp
      OBVIOUS
    <3>1. CASE v = u /\ g = f
      BY <2>1, <2>2, <3>1
    <3>2. CASE v # u \/ g # f
      <4>1. trusted[v][g].token \in Token
        BY <2>1, <3>2 DEF TypeOK, Entries
      <4>2. QED
        BY <2>1, <3>2, <4>1 DEF TrustSound
    <3>3. QED
      BY <3>1, <3>2
  <2>6. \A x \in replaced' :
            /\ token'[x] # NoToken
            /\ token'[x].exp > now' => revokedJti'[x] = token'[x].exp
    <3>1. ASSUME NEW x \in Displaced(u, f)
          PROVE  /\ token'[x] # NoToken
                 /\ token'[x].exp > now' => revokedJti'[x] = token'[x].exp
      BY <2>1, <2>3, <3>1
    <3>2. ASSUME NEW x \in replaced, x \notin Displaced(u, f)
          PROVE  /\ token'[x] # NoToken
                 /\ token'[x].exp > now' => revokedJti'[x] = token'[x].exp
      BY <2>1, <2>4, <3>2 DEF TrustSound, KeptRevoked, RevokedAt
    <3>3. QED
      BY <2>1, <3>1, <3>2
  <2>7. QED
    BY <2>5, <2>6 DEF TrustSound
<1>5. ASSUME NEW u \in User, NEW f \in Fingerprint, RevokeTrustedDevice(u, f)
      PROVE  TrustSound'
  <2>1. /\ now' = now /\ UNCHANGED <<token, replaced, revokedJti>>
        /\ \A v \in User, g \in Fingerprint :
               /\ trusted'[v][g].token = trusted[v][g].token
               /\ trusted'[v][g].exp = trusted[v][g].exp
    BY <1>5 DEF RevokeTrustedDevice, TypeOK, Entries
  <2>2. QED
    BY <2>1 DEF TrustSound
<1>6. QED
  BY <1>1, <1>2, <1>3, <1>4, <1>5
  DEF Next, TotpSetupBegin, TotpSetupConfirm, TotpVerifyBackup, TotpDisable

LEMMA TrustRefuses ==
    ASSUME TypeOK, TrustSound
    PROVE  ReplacedIsRefused
<1> SUFFICES ASSUME NEW t \in replaced, NEW late \in {now, now + 1},
                    token[t].exp > now, token[t].exp > late, RevokedAt(late)[t] = 0
             PROVE  FALSE
  BY DEF ReplacedIsRefused, VerifiedAt
<1>1. t \in Token /\ revokedJti[t] = token[t].exp /\ now \in Nat
  BY DEF TypeOK, TrustSound
<1>2. RevokedAt(late)[t] = token[t].exp
  BY <1>1 DEF RevokedAt
<1>3. QED
  BY <1>1, <1>2

-----------------------------------------------------------------------------
(* Backup codes.                                                           *)

\* A code is with the user it was shown to.
CodesSound ==
    \A u \in User : \A t \in backup[u] : issuedTo[t[1]] = u

\* What a step does to the codes: a new batch is all there, others only shrink.
CodeStep ==
    /\ \A b \in Batch : issuedTo[b] # None => issuedTo'[b] = issuedTo[b]
    /\ \A u \in User : \A t \in backup'[u] :
           t \in backup[u] \/ (issuedTo[t[1]] = None /\ issuedTo'[t[1]] = u)
    /\ \A b \in Batch : issuedTo[b] = None /\ issuedTo'[b] # None =>
           /\ issuedTo'[b] \in User
           /\ totp'[issuedTo'[b]] # None
           /\ {b} \X Code \subseteq backup'[issuedTo'[b]]

LEMMA CodeSteps ==
    ASSUME TypeOK, [Next]_vars
    PROVE  CodeStep
<1>1. CASE UNCHANGED <<issuedTo, backup>>
  BY <1>1 DEF CodeStep
<1>2. ASSUME NEW u \in User, NEW b \in Batch, TotpSetupConfirm(u, b)
      PROVE  CodeStep
  <2>1. /\ issuedTo[b] = None /\ issuedTo'[b] = u
        /\ \A c \in Batch \ {b} : issuedTo'[c] = issuedTo[c]
        /\ backup'[u] = {b} \X Code
        /\ \A v \in User \ {u} : backup'[v] = backup[v]
        /\ totp'[u] # None
    BY <1>2 DEF TotpSetupConfirm, TypeOK
  <2>2. \A t \in {b} \X Code : t[1] = b
    OBVIOUS
  <2>3. QED
    BY <2>1, <2>2 DEF CodeStep
<1>3. ASSUME NEW u \in User, NEW t \in Ticket, TotpVerifyBackup(u, t)
      PROVE  CodeStep
  BY <1>3 DEF TotpVerifyBackup, Taken, TypeOK, CodeStep
<1>4. ASSUME NEW u \in User, TotpDisable(u)
      PROVE  CodeStep
  BY <1>4 DEF TotpDisable, TypeOK, CodeStep
<1>5. QED
  BY <1>1, <1>2, <1>3, <1>4
  DEF Next, vars, totpVars, Tick, TotpSetupBegin, IssueTrustedDevice, RevokeTrustedDevice

LEMMA CodesStep ==
    ASSUME TypeOK, CodesSound, [Next]_vars
    PROVE  CodesSound'
<1>1. CodeStep /\ TypeOK'
  BY CodeSteps, TypeStep
<1>2. \A u \in User : \A t \in backup[u] : t[1] \in Batch /\ issuedTo[t[1]] # None
  BY NoneAssumption DEF TypeOK, Ticket, CodesSound
<1>3. QED
  BY <1>1, <1>2 DEF CodeStep, CodesSound

-----------------------------------------------------------------------------
(* The registry keeps the promise of SingleUse.                            *)

Inv == EnrolmentInv /\ TrustSound /\ CodesSound

LEMMA InvInit == Init => Inv
<1> SUFFICES ASSUME Init PROVE Inv
  OBVIOUS
<1>1. EnrolmentInv
  BY TypeInit DEF Init, EnrolmentInv, OneEnrolment, SecretsApart, NoSetup
<1>2. TrustSound /\ CodesSound
  BY DEF Init, TrustSound, CodesSound, NoEntry
<1>3. QED
  BY <1>1, <1>2 DEF Inv

LEMMA InvStep == Inv /\ [Next]_vars => Inv'
BY EnrolmentStep, TrustStep, CodesStep DEF Inv, EnrolmentInv

Live(t) == totp[issuedTo[t[1]]] # None /\ t \in backup[issuedTo[t[1]]]

\* A code is in force after a step if it was shown with it, and only if it was in
\* force before when it had been shown.
LEMMA LiveStep ==
    ASSUME Inv, Inv', Next, NEW t \in Ticket
    PROVE  /\ issuedTo[t[1]] # None => issuedTo'[t[1]] = issuedTo[t[1]]
           /\ issuedTo[t[1]] = None /\ issuedTo'[t[1]] # None => Live(t)'
           /\ issuedTo[t[1]] # None /\ Live(t)' => Live(t)
<1>1. CodeStep /\ t[1] \in Batch /\ t \in {t[1]} \X Code
  BY CodeSteps DEF Inv, EnrolmentInv, Ticket
<1>2. issuedTo[t[1]] # None => issuedTo'[t[1]] = issuedTo[t[1]]
  BY <1>1 DEF CodeStep
<1>3. issuedTo[t[1]] = None /\ issuedTo'[t[1]] # None => Live(t)'
  BY <1>1 DEF CodeStep, Live
<1>4. ASSUME issuedTo[t[1]] # None, Live(t)'
      PROVE  Live(t)
  <2> DEFINE u == issuedTo[t[1]]
  <2>1. u \in User /\ t \in backup'[u]
    BY <1>1, <1>2, <1>4 DEF Live, Inv, EnrolmentInv, TypeOK
  <2>2. t \in backup[u]
    BY <1>1, <1>4, <2>1 DEF CodeStep
  <2>3. totp[u] # None
    BY <2>1, <2>2 DEF Inv, EnrolmentInv, OneEnrolment
  <2>4. QED
    BY <2>2, <2>3 DEF Live
<1>5. QED
  BY <1>2, <1>3, <1>4

\* A code that is taken was in force, and is not any more.
LEMMA TakeSpends ==
    ASSUME Inv, Inv', NEW u \in User, NEW t \in Ticket, TotpVerifyBackup(u, t)
    PROVE  /\ issuedTo[t[1]] # None /\ issuedTo'[t[1]] # None
           /\ Live(t) /\ ~Live(t)'
           /\ uses' = [uses EXCEPT ![t] = @ + 1]
<1>1. issuedTo[t[1]] = u /\ u # None /\ issuedTo' = issuedTo
  BY NoneAssumption DEF TotpVerifyBackup, Inv, CodesSound
<1>2. t \in backup[u] /\ totp[u] # None /\ t \notin backup'[u]
  BY DEF TotpVerifyBackup, Taken, Inv, EnrolmentInv, TypeOK
<1>3. QED
  BY <1>1, <1>2 DEF Live, TotpVerifyBackup

LEMMA OnceInit == Init => Once!Init
<1> SUFFICES ASSUME Init PROVE Once!Init
  OBVIOUS
<1>1. \A t \in Ticket : t[1] \in Batch
  BY DEF Ticket
<1>2. QED
  BY <1>1 DEF Init, Once!Init, Phase

LEMMA OnceStep ==
    ASSUME Inv, Inv', Next
    PROVE  Once!Next
<1>1. DOMAIN Phase' = Ticket
  BY DEF Phase
<1>2. \A t \in Ticket :
          /\ Phase[t] = IF issuedTo[t[1]] = None THEN "unissued"
                        ELSE IF Live(t) THEN "live" ELSE "dead"
          /\ Phase'[t] = IF issuedTo'[t[1]] = None THEN "unissued"
                         ELSE IF Live(t)' THEN "live" ELSE "dead"
  BY DEF Phase, Live
<1>3. \A t \in Ticket : Phase'[t] \in Once!Onward(t, Phase[t])
  BY <1>2, LiveStep DEF Once!Onward
<1>4. Once!Age \/ \E t \in Ticket : Once!Redeem(t)
  <2>1. ASSUME NEW u \in User, NEW t \in Ticket, TotpVerifyBackup(u, t)
        PROVE  Once!Redeem(t)
    BY <1>2, <2>1, TakeSpends DEF Once!Redeem
  <2>2. CASE ~(\E u \in User, t \in Ticket : TotpVerifyBackup(u, t))
    BY <2>2 DEF Next, Tick, TotpSetupBegin, TotpSetupConfirm, TotpDisable,
       IssueTrustedDevice, RevokeTrustedDevice, totpVars, Once!Age
  <2>3. QED
    BY <2>1, <2>2
<1>5. QED
  BY <1>1, <1>3, <1>4 DEF Once!Next

-----------------------------------------------------------------------------
(* Theorems.                                                               *)

\* What the theorems below follow from.
THEOREM FactorsInvariant == Spec => []Inv
BY InvInit, InvStep, PTL DEF Spec

\* The registry and the tokens keep their shape.
THEOREM FactorsTypeCorrect == Spec => []TypeOK
<1>1. Inv => TypeOK
  BY DEF Inv, EnrolmentInv
<1>2. QED
  BY <1>1, FactorsInvariant, PTL

\* What is on record of a user's authenticator is one enrolment, and his own.
THEOREM EnrolmentsApart == Spec => []OneEnrolment
<1>1. Inv => OneEnrolment
  BY DEF Inv, EnrolmentInv
<1>2. QED
  BY <1>1, FactorsInvariant, PTL

\* A trusted-device token that gave way to a newer one is refused to its end.
THEOREM ReplacedAreRefused == Spec => []ReplacedIsRefused
<1>1. Inv => ReplacedIsRefused
  BY TrustRefuses DEF Inv, EnrolmentInv
<1>2. QED
  BY <1>1, FactorsInvariant, PTL

\* A backup code is taken once, and not after the enrolment it was shown with.
THEOREM BackupCodesAreSingleUse == Spec => SingleUseTickets
<1>1. Inv /\ Inv' /\ [Next]_vars => [Once!Next]_<<Phase, uses>>
  <2> SUFFICES ASSUME Inv, Inv', [Next]_vars PROVE [Once!Next]_<<Phase, uses>>
    OBVIOUS
  <2>1. CASE UNCHANGED vars
    <3>1. Phase' = Phase /\ uses' = uses
      BY <2>1 DEF vars, totpVars, Phase
    <3>2. QED
      BY <3>1
  <2>2. QED
    BY <2>1, OnceStep
<1>2. QED
  BY <1>1, OnceInit, FactorsInvariant, PTL DEF Spec, SingleUseTickets, Once!Spec

\* So no backup code is taken twice, although every sign-in with one looks for it in
\* a list that other enrolments replace.
THEOREM CodesTakenOnce == Spec => []Once!AtMostOnce
<1>1. Once!Init => Once!AtMostOnce
  BY DEF Once!Init, Once!AtMostOnce
<1>2. Once!AtMostOnce /\ [Once!Next]_<<Phase, uses>> => Once!AtMostOnce'
  <2> SUFFICES ASSUME Once!AtMostOnce, [Once!Next]_<<Phase, uses>>
               PROVE  Once!AtMostOnce'
    OBVIOUS
  <2>1. CASE UNCHANGED <<Phase, uses>>
    BY <2>1 DEF Once!AtMostOnce
  <2>2. ASSUME NEW t \in Ticket, Phase[t] = "dead", Once!Next
        PROVE  Phase'[t] = "dead"
    BY <2>2 DEF Once!Next, Once!Onward
  <2>3. CASE Once!Next /\ Once!Age
    BY <2>2, <2>3 DEF Once!Age, Once!AtMostOnce
  <2>4. ASSUME Once!Next, NEW t \in Ticket, Once!Redeem(t)
        PROVE  Once!AtMostOnce'
    <3>1. /\ uses' = [uses EXCEPT ![t] = uses[t] + 1]
          /\ Phase[t] = "live" /\ Phase'[t] = "dead"
      BY <2>4 DEF Once!Redeem
    <3>2. uses \in [Ticket -> {0, 1}] /\ uses[t] # 1
      BY <3>1 DEF Once!AtMostOnce
    <3>3. uses[t] + 1 = 1
      BY <3>2
    <3>4. uses' = [uses EXCEPT ![t] = 1]
      BY <3>1, <3>3
    <3>5. QED
      BY <2>2, <2>4, <3>1, <3>2, <3>4 DEF Once!AtMostOnce
  <2>5. QED
    BY <2>1, <2>3, <2>4 DEF Once!Next
<1>3. QED
  BY <1>1, <1>2, BackupCodesAreSingleUse, PTL DEF SingleUseTickets, Once!Spec

=============================================================================
