----------------------------- MODULE AuthFactors -----------------------------
(***************************************************************************)
(* Second factors of backend/services/unified_auth.py: the enrolment of an *)
(* authenticator (TOTP) with its backup codes, and the trusted-device      *)
(* tokens that spare a device the second factor.                           *)
(*                                                                         *)
(* A handler is one step (see AuthAccounts).  A code typed by the user is  *)
(* right or wrong; a right one comes from an authenticator that holds the  *)
(* secret, or is one of the backup codes.  A live TOTP code changes        *)
(* nothing, so totp_verify has an action for backup codes only.            *)
(***************************************************************************)
EXTENDS Naturals

CONSTANTS
    User,          \* accounts
    Secret,        \* secrets that enrolments draw
    Batch, Code,   \* batches of backup codes, and the codes of one
    Fingerprint,   \* devices that may be trusted
    Token,         \* trusted-device tokens
    None,
    SetupTTL,      \* how long an enrolment may be confirmed
    RenewalTTL,    \* renewal frequencies: monthly, weekly, daily
    MaxNow         \* bound of the clock

ASSUME TTLAssumption ==
    SetupTTL \in Nat \ {0} /\ RenewalTTL \subseteq Nat \ {0} /\ RenewalTTL # {}
ASSUME BoundAssumption == MaxNow \in Nat
ASSUME NoneAssumption ==
    None \notin User /\ None \notin Secret /\ None \notin Fingerprint /\ None \notin Token

Ticket == Batch \X Code

VARIABLES
    now,
    setup,         \* totp_setups
    totp,          \* totp_secret of each user, None unless totp_enabled
    backup,        \* backup_codes
    token,         \* trusted-device tokens in circulation
    trusted,       \* trusted_devices
    revokedJti,    \* revoked_jti: until when a token is listed, 0 if it is not
    drawn,         \* history: the secrets drawn so far
    issuedTo,      \* history: the user each batch of backup codes was shown to
    uses,          \* history: how often each backup code was taken
    replaced       \* history: tokens that gave way to a newer one

totpVars == <<setup, totp, backup, drawn, issuedTo, uses>>
trustVars == <<token, trusted, replaced>>
vars == <<now, totpVars, trustVars, revokedJti>>

Setups == [secret : Secret \cup {None}, confirmed : BOOLEAN, exp : Nat]
NoSetup == [secret |-> None, confirmed |-> FALSE, exp |-> 0]

Tokens == [user : User \cup {None}, fingerprint : Fingerprint \cup {None}, exp : Nat]
NoToken == [user |-> None, fingerprint |-> None, exp |-> 0]

Entries == [token : Token \cup {None}, exp : Nat, revoked : BOOLEAN]
NoEntry == [token |-> None, exp |-> 0, revoked |-> FALSE]

\* Variant: an entry goes one tick before its token expires.
RevokedAt_Early(at) == [t \in Token |-> IF revokedJti[t] > at + 1 THEN revokedJti[t] ELSE 0]

\* _cleanup: the list of revoked tokens, when the clock shows at.
RevokedAt(at) == [t \in Token |-> IF revokedJti[t] > at THEN revokedJti[t] ELSE 0]

KeptRevoked == RevokedAt(now)

-----------------------------------------------------------------------------
(* TOTP.                                                                   *)

\* A new enrolment replaces one that is under way, and leaves a confirmed secret
\* in force.
TotpSetupBegin(u, k) ==
    /\ k \notin drawn
    /\ drawn' = drawn \cup {k}
    /\ setup' = [setup EXCEPT ![u] = [secret |-> k, confirmed |-> FALSE,
                                      exp |-> now + SetupTTL]]
    /\ revokedJti' = KeptRevoked
    /\ UNCHANGED <<now, totp, backup, issuedTo, uses, trustVars>>

\* The enrolment stays on record, and may be confirmed again until it expires.
TotpSetupConfirm(u, b) ==
    /\ setup[u].secret # None
    /\ setup[u].exp > now
    /\ issuedTo[b] = None
    /\ setup' = [setup EXCEPT ![u].confirmed = TRUE]
    /\ totp' = [totp EXCEPT ![u] = setup[u].secret]
    /\ backup' = [backup EXCEPT ![u] = {b} \X Code]
    /\ issuedTo' = [issuedTo EXCEPT ![b] = u]
    /\ revokedJti' = KeptRevoked
    /\ UNCHANGED <<now, drawn, uses, trustVars>>

\* Variant: the code is looked up and left where it is.
Taken_Left(u, t) == backup[u]

Taken(u, t) == backup[u] \ {t}

TotpVerifyBackup(u, t) ==
    /\ totp[u] # None
    /\ t \in backup[u]
    /\ backup' = [backup EXCEPT ![u] = Taken(u, t)]
    /\ uses' = [uses EXCEPT ![t] = @ + 1]
    /\ revokedJti' = KeptRevoked
    /\ UNCHANGED <<now, setup, totp, drawn, issuedTo, trustVars>>

\* Variant: the enrolment becomes a JSON null.
Forgotten_Null(u) == [setup EXCEPT ![u] = None]

\* Variant: the enrolment stays.
Forgotten_Setup(u) == setup

Forgotten(u) == [setup EXCEPT ![u] = NoSetup]

TotpDisable(u) ==
    /\ totp' = [totp EXCEPT ![u] = None]
    /\ setup' = Forgotten(u)
    /\ backup' = [backup EXCEPT ![u] = {}]
    /\ revokedJti' = KeptRevoked
    /\ UNCHANGED <<now, drawn, issuedTo, uses, trustVars>>

-----------------------------------------------------------------------------
(* Trusted devices.                                                        *)

Active(u, f) == trusted[u][f].token # None /\ ~trusted[u][f].revoked

\* The token that a new one for the same device replaces, unless it was revoked.
Displaced(u, f) == IF Active(u, f) THEN {trusted[u][f].token} ELSE {}

IssueTrustedDevice(u, f, t, ttl) ==
    /\ token[t] = NoToken
    /\ token' = [token EXCEPT ![t] = [user |-> u, fingerprint |-> f, exp |-> now + ttl]]
    /\ trusted' = [trusted EXCEPT ![u][f] = [token |-> t, exp |-> now + ttl, revoked |-> FALSE]]
    /\ revokedJti' = [x \in Token |-> IF x \in Displaced(u, f) THEN trusted[u][f].exp
                                      ELSE KeptRevoked[x]]
    /\ replaced' = replaced \cup Displaced(u, f)
    /\ UNCHANGED <<now, totpVars>>

\* The entry is marked; the token is not put on the revocation list, and nothing
\* is cleaned up.
RevokeTrustedDevice(u, f) ==
    /\ trusted[u][f].token # None
    /\ trusted' = [trusted EXCEPT ![u][f].revoked = TRUE]
    /\ UNCHANGED <<now, totpVars, token, replaced, revokedJti>>

\* verify_trusted_device_token: the entry is looked up by user and device, and is
\* not compared with the token.  The list is cleaned up by a later reading of the
\* clock than the one that the token's expiry is compared with.
VerifiedAt(t, late) ==
    /\ token[t].exp > now
    /\ RevokedAt(late)[t] = 0
    /\ Active(token[t].user, token[t].fingerprint)

Tick ==
    /\ now < MaxNow
    /\ now' = now + 1
    /\ UNCHANGED <<totpVars, trustVars, revokedJti>>

Init ==
    /\ now = 0
    /\ setup = [u \in User |-> NoSetup]
    /\ totp = [u \in User |-> None]
    /\ backup = [u \in User |-> {}]
    /\ token = [t \in Token |-> NoToken]
    /\ trusted = [u \in User |-> [f \in Fingerprint |-> NoEntry]]
    /\ revokedJti = [t \in Token |-> 0]
    /\ drawn = {}
    /\ issuedTo = [b \in Batch |-> None]
    /\ uses = [t \in Ticket |-> 0]
    /\ replaced = {}

Next ==
    \/ Tick
    \/ \E u \in User, k \in Secret : TotpSetupBegin(u, k)
    \/ \E u \in User, b \in Batch : TotpSetupConfirm(u, b)
    \/ \E u \in User, t \in Ticket : TotpVerifyBackup(u, t)
    \/ \E u \in User : TotpDisable(u)
    \/ \E u \in User, f \in Fingerprint, t \in Token, ttl \in RenewalTTL :
           IssueTrustedDevice(u, f, t, ttl)
    \/ \E u \in User, f \in Fingerprint : RevokeTrustedDevice(u, f)

Spec == Init /\ [][Next]_vars

-----------------------------------------------------------------------------
(* Properties.                                                             *)

\* The shape of the registry and of the tokens in circulation.
TypeOK ==
    /\ now \in Nat
    /\ setup \in [User -> Setups]
    /\ totp \in [User -> Secret \cup {None}]
    /\ backup \in [User -> SUBSET Ticket]
    /\ token \in [Token -> Tokens]
    /\ trusted \in [User -> [Fingerprint -> Entries]]
    /\ revokedJti \in [Token -> Nat]
    /\ drawn \subseteq Secret
    /\ issuedTo \in [Batch -> User \cup {None}]
    /\ uses \in [Ticket -> Nat]
    /\ replaced \subseteq Token

\* What is on record of an authenticator is one enrolment: a user without TOTP has
\* no backup codes and no confirmed enrolment left that could bring the secret
\* back, and an enrolment that was begun and not confirmed is not in force.
OneEnrolment ==
    \A u \in User :
        /\ totp[u] = None => backup[u] = {} /\ ~setup[u].confirmed
        /\ totp[u] # None /\ setup[u].secret = totp[u] => setup[u].confirmed
        /\ \A v \in User : totp[u] # None /\ totp[u] = totp[v] => u = v

\* A trusted-device token that was replaced by a newer one while in force is
\* refused for the rest of its life, through every clean-up of the list, unless the
\* two readings of the clock have its expiry between them.  (Only while in force: one
\* that was revoked is not listed, and the next token's entry lets it pass again.)
ReplacedIsRefused ==
    \A t \in replaced : \A late \in {now, now + 1} :
        token[t].exp > late => ~VerifiedAt(t, late)

-----------------------------------------------------------------------------
(* Backup codes are single use.                                            *)

Phase ==
    [t \in Ticket |-> IF issuedTo[t[1]] = None THEN "unissued"
                      ELSE IF totp[issuedTo[t[1]]] # None /\ t \in backup[issuedTo[t[1]]]
                           THEN "live" ELSE "dead"]

Once == INSTANCE SingleUse WITH Stillborn <- {}, phase <- Phase, uses <- uses

\* A backup code works once, and the codes of an earlier enrolment never again.
SingleUseTickets == Once!Spec

=============================================================================
