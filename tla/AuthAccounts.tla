----------------------------- MODULE AuthAccounts -----------------------------
(***************************************************************************)
(* Accounts, sign-in and tokens of backend/services/unified_auth.py: local *)
(* and provider accounts, lockout, password reset, the rotation of refresh *)
(* tokens, logout, deletion, and the OAuth redirect flow.                  *)
(*                                                                         *)
(* The routes are coroutines without an await: no two handlers mix.  Only  *)
(* the bearer token is verified earlier, on a thread; the handler acts on  *)
(* a principal that may have lost its account since.  The updater, another *)
(* process, swaps config/ as a whole and removes the registry file: the    *)
(* next read is empty, while the tokens its clients hold are still signed  *)
(* and unexpired.  A loss between a read and the write that follows it is  *)
(* undone by the write.  A local sign-in writes, reads again and writes    *)
(* again: these are two steps, the second of which may find the file lost, *)
(* or not be taken (process ends, disk full).                              *)
(*                                                                         *)
(* Time is a clock of coarse ticks.  A pair is the access and the refresh  *)
(* token that one sign-in issues.  A password is right or wrong.  Requests *)
(* refused before anything is written (401, 403, 404, 409, 423, 429)       *)
(* change nothing and have no action; the rate limiter is one of them.     *)
(***************************************************************************)
EXTENDS Naturals

CONSTANTS
    User,        \* ids that accounts may get (uuid4: never drawn twice)
    Email,       \* addresses
    Subject,     \* identities at the external provider
    Reset,       \* password reset tokens
    OState,      \* states of OAuth redirects
    Pair,        \* token pairs, numbered in the order of issue
    AccessTTL, RefreshTTL, ResetTTL, StateTTL,
    LockTTL,     \* how long an account stays locked
    MaxFailed,   \* wrong passwords that lock it
    None,
    MaxNow,      \* bound of the clock
    MaxLosses    \* bound: how often the registry file is lost

ASSUME PairAssumption == Pair \subseteq Nat
ASSUME TTLAssumption ==
    /\ AccessTTL \in Nat \ {0} /\ RefreshTTL \in Nat \ {0}
    /\ ResetTTL \in Nat \ {0} /\ StateTTL \in Nat \ {0}
    /\ LockTTL \in Nat \ {0} /\ MaxFailed \in Nat \ {0}
ASSUME BoundAssumption == MaxNow \in Nat /\ MaxLosses \in Nat
ASSUME NoneAssumption == None \notin User /\ None \notin Email

Token == {"access", "refresh"} \X Pair
Ticket == ({"refresh"} \X Pair) \cup ({"reset"} \X Reset) \cup ({"oauth"} \X OState)

VARIABLES
    now,
    account,        \* users, with what deletion and lockout change
    emailIndex,     \* local_email_index
    providerIndex,  \* provider_index
    holder, exp,    \* the tokens in circulation: whose, and until when
    session,        \* refresh_sessions
    revokedJti,     \* revoked_jti: until when a token is listed, 0 if it is not
    reset,          \* local_reset_tokens
    oauth,          \* oauth_states: until when a state is kept, 0 if it is not
    signing,        \* whose local sign-in is between its two writes
    losses,
    handed, uses    \* history: tickets handed out, and how often each was used

indexVars == <<emailIndex, providerIndex>>
tokenVars == <<holder, exp>>
registryVars == <<session, revokedJti, reset, oauth>>
ghostVars == <<handed, uses>>
handlerVars == <<account, indexVars, tokenVars, registryVars, ghostVars>>
vars == <<now, handlerVars, signing, losses>>

Kinds == {"none", "local", "cloud", "lost"}
Accounts == [kind : Kinds, email : Email \cup {None}, revoked : BOOLEAN,
             failed : Nat, lockUntil : Nat]
Resets == [state : {"absent", "open", "used"}, user : User \cup {None}, exp : Nat]

NoAccount == [kind |-> "none", email |-> None, revoked |-> FALSE,
              failed |-> 0, lockUntil |-> 0]
NoReset == [state |-> "absent", user |-> None, exp |-> 0]

Exists(u) == account[u].kind \in {"local", "cloud"}

-----------------------------------------------------------------------------
(* _cleanup: what a handler sees, and writes back when it writes.          *)

\* Variant: an entry goes one tick before what it stands against.
Unexpired_Early(t, at) == t > at + 1

Unexpired(t, at) == t > at

\* The list of revoked tokens, cleaned up when the clock shows at.
RevokedAt(at) ==
    [t \in Token |-> IF Unexpired(revokedJti[t], at) THEN revokedJti[t] ELSE 0]

KeptRevoked == RevokedAt(now)

\* A session expires with its refresh token.
KeptSessions ==
    [n \in Pair |-> IF session[n] = "live" /\ exp[<<"refresh", n>>] > now
                    THEN "live" ELSE "absent"]

KeptResets ==
    [r \in Reset |-> IF reset[r].state = "open" /\ reset[r].exp > now
                     THEN reset[r] ELSE NoReset]

KeptStates == [o \in OState |-> IF oauth[o] > now THEN oauth[o] ELSE 0]

Save(s, j, r, o) ==
    /\ session' = s
    /\ revokedJti' = j
    /\ reset' = r
    /\ oauth' = o

-----------------------------------------------------------------------------
(* Tokens.                                                                 *)

\* _decode_token: signed and unexpired, and not on the revocation list.  The list
\* is cleaned up by a later reading of the clock, which may show the next tick.
AcceptedAt(t, late) ==
    /\ holder[t[2]] # None
    /\ exp[t] > now
    /\ RevokedAt(late)[t] = 0

Readings == {now, now + 1}

Accepted(t) == \E late \in Readings : AcceptedAt(t, late)

\* What refresh asks of a refresh token.
Refreshable(n) ==
    /\ KeptSessions[n] = "live"
    /\ Accepted(<<"refresh", n>>)
    /\ Exists(holder[n])
    /\ ~account[holder[n]].revoked

\* The principals a handler may run for: the bearer token was accepted once.
Principal == {u \in User : \E n \in Pair : holder[n] = u}

\* Pairs have no order but that of their issue.
NextPair(n) == holder[n] = None /\ \A m \in Pair : m < n => holder[m] # None

\* _issue_user_token_pair
Issue(n, u) ==
    /\ NextPair(n)
    /\ holder' = [holder EXCEPT ![n] = u]
    /\ exp' = [exp EXCEPT ![<<"access", n>>] = now + AccessTTL,
                          ![<<"refresh", n>>] = now + RefreshTTL]

HandOut(t) == handed' = handed \cup {t}

Use(t) == uses' = [uses EXCEPT ![t] = @ + 1]

\* A sign-in stores its session, after what _cleanup kept.
StoreSession(n, o) == Save([KeptSessions EXCEPT ![n] = "live"], KeptRevoked, KeptResets, o)

-----------------------------------------------------------------------------
(* Local accounts.                                                         *)

LocalAccount(e) ==
    [kind |-> "local", email |-> e, revoked |-> FALSE, failed |-> 0, lockUntil |-> 0]

AddLocal(u, e) ==
    /\ account[u].kind = "none"
    /\ emailIndex[e] = None
    /\ account' = [account EXCEPT ![u] = LocalAccount(e)]
    /\ emailIndex' = [emailIndex EXCEPT ![e] = u]

\* The first write of a registration.
LocalRegister(u, e) ==
    /\ AddLocal(u, e)
    /\ Save(KeptSessions, KeptRevoked, KeptResets, KeptStates)
    /\ signing' = u
    /\ UNCHANGED <<now, providerIndex, tokenVars, losses, ghostVars>>

Locked(u) == account[u].lockUntil > now

MayTry(e) == emailIndex[e] # None /\ ~Locked(emailIndex[e])

Forgive(u) == account' = [account EXCEPT ![u].failed = 0, ![u].lockUntil = 0]

\* The first write of a login.
LocalLogin(e) ==
    /\ MayTry(e)
    /\ Forgive(emailIndex[e])
    /\ Save(KeptSessions, KeptRevoked, KeptResets, KeptStates)
    /\ signing' = emailIndex[e]
    /\ UNCHANGED <<now, indexVars, tokenVars, losses, ghostVars>>

\* The second write of both: the session goes into the registry as it is read
\* now, even when the account is not in it any more.  Nothing is cleaned up.
SignedIn(n) ==
    /\ signing # None
    /\ Issue(n, signing)
    /\ session' = [session EXCEPT ![n] = "live"]
    /\ HandOut(<<"refresh", n>>)
    /\ signing' = None
    /\ UNCHANGED <<now, account, indexVars, revokedJti, reset, oauth, losses, uses>>

\* The handler ends between its writes: an account, and no session.
CutShort ==
    /\ signing # None
    /\ signing' = None
    /\ UNCHANGED <<now, handlerVars, losses>>

\* Variant: the lock is a JSON null.
LockAfter_Null(u, attempts) == None

\* Variant: only the wrong password that reaches the limit locks.
LockAfter_Once(u, attempts) ==
    IF attempts = MaxFailed THEN now + LockTTL ELSE account[u].lockUntil

LockAfter(u, attempts) ==
    IF attempts >= MaxFailed THEN now + LockTTL ELSE account[u].lockUntil

WrongPassword(e) ==
    /\ MayTry(e)
    /\ LET u == emailIndex[e]
           attempts == account[u].failed + 1
       IN  account' = [account EXCEPT ![u].failed = attempts,
                                      ![u].lockUntil = LockAfter(u, attempts)]
    /\ Save(KeptSessions, KeptRevoked, KeptResets, KeptStates)
    /\ UNCHANGED <<now, indexVars, tokenVars, losses, ghostVars>>

ResetRequest(e, r) ==
    /\ emailIndex[e] # None
    /\ <<"reset", r>> \notin handed
    /\ Save(KeptSessions, KeptRevoked,
            [KeptResets EXCEPT ![r] = [state |-> "open", user |-> emailIndex[e],
                                       exp |-> now + ResetTTL]],
            KeptStates)
    /\ HandOut(<<"reset", r>>)
    /\ UNCHANGED <<now, account, indexVars, tokenVars, losses, uses>>

\* Variant: the entry is not marked.
MarkUsed_Open(r) == KeptResets

MarkUsed(r) == [KeptResets EXCEPT ![r].state = "used"]

\* Sessions, and other reset tokens of the account, stay as they are.
ResetConfirm(r) ==
    /\ KeptResets[r].state = "open"
    /\ Exists(KeptResets[r].user)
    /\ Forgive(KeptResets[r].user)
    /\ Save(KeptSessions, KeptRevoked, MarkUsed(r), KeptStates)
    /\ Use(<<"reset", r>>)
    /\ UNCHANGED <<now, indexVars, tokenVars, losses, handed>>

-----------------------------------------------------------------------------
(* Provider accounts.                                                      *)

\* _ensure_user, and the refusal of an account that was deleted.
EnsureUser(s, e, u) ==
    \/ /\ providerIndex[s] = u
       /\ ~account[u].revoked
       /\ account' = [account EXCEPT ![u].email = e]
       /\ UNCHANGED indexVars
    \/ /\ providerIndex[s] = None
       /\ account[u].kind = "none"
       /\ account' = [account EXCEPT ![u] = [NoAccount EXCEPT !.kind = "cloud", !.email = e]]
       /\ providerIndex' = [providerIndex EXCEPT ![s] = u]
       /\ UNCHANGED emailIndex

Login(s, e, u, n) ==
    /\ EnsureUser(s, e, u)
    /\ Issue(n, u)
    /\ StoreSession(n, KeptStates)
    /\ HandOut(<<"refresh", n>>)
    /\ UNCHANGED <<now, losses, uses>>

OauthBegin(o) ==
    /\ <<"oauth", o>> \notin handed
    /\ Save(KeptSessions, KeptRevoked, KeptResets, [KeptStates EXCEPT ![o] = now + StateTTL])
    /\ HandOut(<<"oauth", o>>)
    /\ UNCHANGED <<now, account, indexVars, tokenVars, losses, uses>>

TakeState(o) == [KeptStates EXCEPT ![o] = 0]

\* The state goes with the first write, before the provider is asked.
OauthCallback(o, s, e, u, n) ==
    /\ KeptStates[o] # 0
    /\ EnsureUser(s, e, u)
    /\ Issue(n, u)
    /\ StoreSession(n, TakeState(o))
    /\ HandOut(<<"refresh", n>>)
    /\ Use(<<"oauth", o>>)
    /\ UNCHANGED <<now, losses>>

\* The exchange fails, or the account was deleted, or the handler ends.
OauthCallbackFails(o) ==
    /\ KeptStates[o] # 0
    /\ Save(KeptSessions, KeptRevoked, KeptResets, TakeState(o))
    /\ Use(<<"oauth", o>>)
    /\ UNCHANGED <<now, account, indexVars, tokenVars, losses, handed>>

-----------------------------------------------------------------------------
(* Rotation, logout, deletion.                                             *)

Refresh(n, m) ==
    /\ Refreshable(n)
    /\ Issue(m, holder[n])
    /\ Save([KeptSessions EXCEPT ![n] = "revoked", ![m] = "live"],
            [KeptRevoked EXCEPT ![<<"refresh", n>>] = exp[<<"refresh", n>>]],
            KeptResets, KeptStates)
    /\ HandOut(<<"refresh", m>>)
    /\ Use(<<"refresh", n>>)
    /\ UNCHANGED <<now, account, indexVars, losses>>

\* One or two tokens (bearer and body), of any type; all must be accepted.
Presented == {{t1, t2} : t1, t2 \in Token}

Logout(ts) ==
    /\ \A t \in ts : Accepted(t)
    /\ Save([n \in Pair |-> IF <<"refresh", n>> \in ts /\ KeptSessions[n] = "live"
                            THEN "revoked" ELSE KeptSessions[n]],
            [t \in Token |-> IF t \in ts THEN exp[t] ELSE KeptRevoked[t]],
            KeptResets, KeptStates)
    /\ UNCHANGED <<now, account, indexVars, tokenVars, losses, ghostVars>>

\* Variant: the address stays in the index.
Unindex_Kept(e) == emailIndex

\* The index is asked by address, whatever kind of account is deleted.
Unindex(e) == [emailIndex EXCEPT ![e] = None]

\* Variant: the sessions of the account go on.
EndSessions_Kept(u) == KeptSessions

EndSessions(u) ==
    [n \in Pair |-> IF KeptSessions[n] = "live" /\ holder[n] = u
                    THEN "revoked" ELSE KeptSessions[n]]

\* Any signed-in user may delete any account.
DeleteUser(u) ==
    /\ Principal # {}
    /\ Exists(u) /\ ~account[u].revoked
    /\ account' = [account EXCEPT ![u].revoked = TRUE]
    /\ emailIndex' = Unindex(account[u].email)
    /\ Save(EndSessions(u),
            [t \in Token |-> IF t[1] = "refresh" /\ KeptSessions[t[2]] = "live" /\ holder[t[2]] = u
                             THEN exp[t] ELSE KeptRevoked[t]],
            KeptResets, KeptStates)
    /\ UNCHANGED <<now, providerIndex, tokenVars, losses, ghostVars>>

\* The updater swaps config/ without the registry.
LoseRegistry ==
    /\ losses < MaxLosses
    /\ losses' = losses + 1
    /\ account' = [u \in User |-> IF account[u].kind = "none" THEN NoAccount
                                  ELSE [NoAccount EXCEPT !.kind = "lost"]]
    /\ emailIndex' = [e \in Email |-> None]
    /\ providerIndex' = [s \in Subject |-> None]
    /\ Save([n \in Pair |-> "absent"], [t \in Token |-> 0],
            [r \in Reset |-> NoReset], [o \in OState |-> 0])
    /\ UNCHANGED <<now, signing, tokenVars, ghostVars>>

Tick ==
    /\ now < MaxNow
    /\ now' = now + 1
    /\ UNCHANGED <<handlerVars, signing, losses>>

-----------------------------------------------------------------------------

Init ==
    /\ now = 0
    /\ account = [u \in User |-> NoAccount]
    /\ emailIndex = [e \in Email |-> None]
    /\ providerIndex = [s \in Subject |-> None]
    /\ holder = [n \in Pair |-> None]
    /\ exp = [t \in Token |-> 0]
    /\ session = [n \in Pair |-> "absent"]
    /\ revokedJti = [t \in Token |-> 0]
    /\ reset = [r \in Reset |-> NoReset]
    /\ oauth = [o \in OState |-> 0]
    /\ signing = None
    /\ losses = 0
    /\ handed = {}
    /\ uses = [t \in Ticket |-> 0]

\* The handlers that write once, or whose second write reads nothing that the
\* first one left.
Handler ==
    \/ \E e \in Email : WrongPassword(e)
    \/ \E e \in Email, r \in Reset : ResetRequest(e, r)
    \/ \E r \in Reset : ResetConfirm(r)
    \/ \E s \in Subject, e \in Email, u \in User, n \in Pair : Login(s, e, u, n)
    \/ \E o \in OState : OauthBegin(o) \/ OauthCallbackFails(o)
    \/ \E o \in OState, s \in Subject, e \in Email, u \in User, n \in Pair :
           OauthCallback(o, s, e, u, n)
    \/ \E n, m \in Pair : Refresh(n, m)
    \/ \E ts \in Presented : Logout(ts)
    \/ \E u \in User : DeleteUser(u)

Next ==
    \/ Tick \/ LoseRegistry
    \/ signing = None /\ \E u \in User, e \in Email : LocalRegister(u, e)
    \/ signing = None /\ \E e \in Email : LocalLogin(e)
    \/ \E n \in Pair : SignedIn(n)
    \/ CutShort
    \/ signing = None /\ Handler /\ UNCHANGED signing

Spec == Init /\ [][Next]_vars

-----------------------------------------------------------------------------
(* Properties.                                                             *)

\* The shape of the registry and of the tokens in circulation.
TypeOK ==
    /\ now \in Nat /\ losses \in Nat
    /\ account \in [User -> Accounts]
    /\ emailIndex \in [Email -> User \cup {None}]
    /\ providerIndex \in [Subject -> User \cup {None}]
    /\ holder \in [Pair -> User \cup {None}]
    /\ exp \in [Token -> Nat]
    /\ session \in [Pair -> {"absent", "live", "revoked"}]
    /\ revokedJti \in [Token -> Nat]
    /\ reset \in [Reset -> Resets]
    /\ oauth \in [OState -> Nat]
    /\ signing \in User \cup {None}
    /\ handed \subseteq Ticket
    /\ uses \in [Ticket -> Nat]

\* An address leads to a local account that has this address and was not
\* deleted.  local_login trusts the index: it does not look at "revoked".  (Not the
\* other way round: Unindex takes the address from a local account in use when a
\* provider account with that address is deleted.)
IndexSound ==
    \A e \in Email : emailIndex[e] # None =>
        LET a == account[emailIndex[e]]
        IN  a.kind = "local" /\ a.email = e /\ ~a.revoked

\* No order of sign-ins, deletions, resets and losses of the registry, one of them
\* under a sign-in, leaves a deleted account with a live session: every live one is
\* of an account that was made and whose deletion is not on record.  (It need not
\* be there: the session of a sign-in under which the registry was lost stays, and
\* cannot be refreshed.)
NoSessionForDeleted ==
    \A n \in Pair : session[n] = "live" =>
        /\ holder[n] # None
        /\ account[holder[n]].kind # "none" /\ ~account[holder[n]].revoked

\* After the first MaxFailed, wrong passwords are looked at only once per lock
\* period: an expired lock gives one more guess, not a fresh budget.
GuessesBounded ==
    \A u \in User :
        account[u].failed >= MaxFailed => (account[u].failed - MaxFailed) * LockTTL <= now

\* A token that was refused once (logged out, rotated, expired) is not accepted
\* again: an entry of revoked_jti is not forgotten before its token expires.  Only a
\* request whose two readings of the clock have the expiry between them may pass.
\* (The loss of the registry loses the list, too.)
NeverAcceptedAgain ==
    [][ losses' = losses =>
          \A t \in Token : holder[t[2]] # None /\ ~AcceptedAt(t, now) =>
              \A late \in Readings' : exp[t] > late => ~AcceptedAt(t, late)' ]_vars

-----------------------------------------------------------------------------
(* Refresh tokens, reset tokens and OAuth states are single use.           *)

Usable(t) ==
    CASE t[1] = "refresh" -> Refreshable(t[2])
      [] t[1] = "reset"   -> KeptResets[t[2]].state = "open" /\ Exists(KeptResets[t[2]].user)
      [] t[1] = "oauth"   -> KeptStates[t[2]] # 0

Phase ==
    [t \in Ticket |-> IF t \notin handed THEN "unissued"
                      ELSE IF Usable(t) THEN "live" ELSE "dead"]

\* The refresh token of a sign-in under which the registry was lost is never live.
Once == INSTANCE SingleUse
            WITH Stillborn <- {"refresh"} \X Pair, phase <- Phase, uses <- uses

\* Every ticket is used at most once and never comes back to life, whatever the
\* order of refreshes, logouts, resets, deletions, expiries and clean-ups.
SingleUseTickets == Once!Spec

=============================================================================
