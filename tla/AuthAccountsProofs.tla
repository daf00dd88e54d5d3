-------------------------- MODULE AuthAccountsProofs --------------------------
(***************************************************************************)
(* Theorems about AuthAccounts for any accounts, tokens, lives of tokens   *)
(* and losses of the registry file.                                        *)
(***************************************************************************)
EXTENDS AuthAccounts, TLAPS

\* What _cleanup keeps has the type of what it cleans.
LEMMA KeptTypes ==
    ASSUME TypeOK
    PROVE  /\ KeptSessions \in [Pair -> {"absent", "live", "revoked"}]
           /\ KeptRevoked \in [Token -> Nat]
           /\ KeptResets \in [Reset -> Resets]
           /\ KeptStates \in [OState -> Nat]
<1>1. NoReset \in Resets
  BY DEF NoReset, Resets
<1>2. QED
  BY <1>1 DEF TypeOK, KeptSessions, KeptRevoked, RevokedAt, KeptResets, KeptStates

LEMMA IssueTypes ==
    ASSUME TypeOK, NEW n \in Pair, NEW u \in User, Issue(n, u)
    PROVE  /\ holder' \in [Pair -> User \cup {None}]
           /\ exp' \in [Token -> Nat]
<1>1. now + AccessTTL \in Nat /\ now + RefreshTTL \in Nat
  BY TTLAssumption DEF TypeOK
<1>2. QED
  BY <1>1 DEF TypeOK, Issue

LEMMA CounterTypes ==
    ASSUME NEW a \in Accounts, NEW f \in Nat, NEW l \in Nat
    PROVE  [a EXCEPT !.failed = f, !.lockUntil = l] \in Accounts
BY DEF Accounts

LEMMA ForgiveTypes ==
    ASSUME TypeOK, NEW u, Forgive(u)
    PROVE  account' \in [User -> Accounts]
<1>1. account' = [v \in User |-> IF v = u THEN [account[v] EXCEPT !.failed = 0, !.lockUntil = 0]
                                 ELSE account[v]]
  BY DEF TypeOK, Forgive
<1>2. \A v \in User : [account[v] EXCEPT !.failed = 0, !.lockUntil = 0] \in Accounts
  BY CounterTypes DEF TypeOK
<1>3. QED
  BY <1>1, <1>2 DEF TypeOK

LEMMA StoreTypes ==
    ASSUME TypeOK, NEW n \in Pair, NEW o \in [OState -> Nat], StoreSession(n, o)
    PROVE  /\ session' \in [Pair -> {"absent", "live", "revoked"}]
           /\ revokedJti' \in [Token -> Nat]
           /\ reset' \in [Reset -> Resets]
           /\ oauth' \in [OState -> Nat]
BY KeptTypes DEF StoreSession, Save

LEMMA CleanTypes ==
    ASSUME TypeOK, Save(KeptSessions, KeptRevoked, KeptResets, KeptStates)
    PROVE  /\ session' \in [Pair -> {"absent", "live", "revoked"}]
           /\ revokedJti' \in [Token -> Nat]
           /\ reset' \in [Reset -> Resets]
           /\ oauth' \in [OState -> Nat]
BY KeptTypes DEF Save

LEMMA AddLocalTypes ==
    ASSUME TypeOK, NEW u \in User, NEW e \in Email, AddLocal(u, e)
    PROVE  /\ account' \in [User -> Accounts]
           /\ emailIndex' \in [Email -> User \cup {None}]
<1>1. LocalAccount(e) \in Accounts
  BY DEF LocalAccount, Accounts, Kinds
<1>2. QED
  BY <1>1 DEF TypeOK, AddLocal

LEMMA EnsureTypes ==
    ASSUME TypeOK, NEW s \in Subject, NEW e \in Email, NEW u \in User, EnsureUser(s, e, u)
    PROVE  /\ account' \in [User -> Accounts]
           /\ emailIndex' \in [Email -> User \cup {None}]
           /\ providerIndex' \in [Subject -> User \cup {None}]
<1>1. [NoAccount EXCEPT !.kind = "cloud", !.email = e] \in Accounts
  BY DEF NoAccount, Accounts, Kinds
<1>2. CASE providerIndex[s] = u
  BY <1>1, <1>2, NoneAssumption DEF TypeOK, EnsureUser, indexVars, Accounts
<1>3. CASE providerIndex[s] = None
  BY <1>1, <1>3, NoneAssumption DEF TypeOK, EnsureUser, indexVars
<1>4. QED
  BY <1>2, <1>3 DEF EnsureUser

\* Every step keeps the shape of the registry and of the tokens.
LEMMA TypeStep == TypeOK /\ [Next]_vars => TypeOK'
<1> SUFFICES ASSUME TypeOK, [Next]_vars PROVE TypeOK'
  OBVIOUS
<1> USE DEF handlerVars, indexVars, tokenVars, registryVars, ghostVars
<1>t. /\ \A n \in Pair : <<"refresh", n>> \in Ticket
      /\ \A r \in Reset : <<"reset", r>> \in Ticket
      /\ \A o \in OState : <<"oauth", o>> \in Ticket
  BY DEF Ticket
<1>1. CASE UNCHANGED vars
  BY <1>1 DEF TypeOK, vars
<1>2. CASE Tick
  BY <1>2 DEF TypeOK, Tick
<1>3. CASE LoseRegistry
  <2>1. /\ NoAccount \in Accounts /\ [NoAccount EXCEPT !.kind = "lost"] \in Accounts
        /\ NoReset \in Resets
    BY DEF NoAccount, Accounts, Kinds, NoReset, Resets
  <2>2. account' \in [User -> Accounts]
    BY <1>3, <2>1 DEF LoseRegistry
  <2>3. QED
    BY <1>3, <2>1, <2>2 DEF TypeOK, LoseRegistry, Save
<1>4. ASSUME NEW u \in User, NEW e \in Email, LocalRegister(u, e)
      PROVE  TypeOK'
  BY <1>4, AddLocalTypes, CleanTypes DEF TypeOK, LocalRegister
<1>5. ASSUME NEW n \in Pair, SignedIn(n)
      PROVE  TypeOK'
  <2>1. signing \in User
    BY <1>5 DEF TypeOK, SignedIn
  <2>2. QED
    BY <1>t, <1>5, <2>1, IssueTypes DEF TypeOK, SignedIn, HandOut
<1>6. CASE CutShort
  BY <1>6 DEF TypeOK, CutShort
<1>7. ASSUME NEW e \in Email, WrongPassword(e), UNCHANGED signing
      PROVE  TypeOK'
  <2>1. account' \in [User -> Accounts]
    <3> DEFINE u == emailIndex[e]
               attempts == account[u].failed + 1
    <3>1. u \in User
      BY <1>7 DEF TypeOK, WrongPassword, MayTry
    <3>2. attempts \in Nat /\ LockAfter(u, attempts) \in Nat
      BY <3>1, TTLAssumption DEF TypeOK, Accounts, LockAfter
    <3>3. account' = [account EXCEPT ![u].failed = attempts,
                                     ![u].lockUntil = LockAfter(u, attempts)]
      BY <1>7 DEF WrongPassword
    <3>4. [account[u] EXCEPT !.failed = attempts, !.lockUntil = LockAfter(u, attempts)]
              \in Accounts
      BY <3>1, <3>2, CounterTypes DEF TypeOK
    <3> HIDE DEF u, attempts
    <3>5. QED
      BY <3>1, <3>3, <3>4 DEF TypeOK
  <2>2. QED
    BY <1>7, <2>1, CleanTypes DEF TypeOK, WrongPassword
<1>8. ASSUME NEW e \in Email, LocalLogin(e)
      PROVE  TypeOK'
  BY <1>8, ForgiveTypes, CleanTypes DEF TypeOK, LocalLogin, MayTry
<1>9. ASSUME NEW e \in Email, NEW r \in Reset, ResetRequest(e, r), UNCHANGED signing
      PROVE  TypeOK'
  <2>1. [state |-> "open", user |-> emailIndex[e], exp |-> now + ResetTTL] \in Resets
    BY TTLAssumption DEF TypeOK, Resets
  <2>2. QED
    BY <1>t, <1>9, <2>1, KeptTypes DEF TypeOK, ResetRequest, Save, HandOut
<1>10. ASSUME NEW r \in Reset, ResetConfirm(r), UNCHANGED signing
       PROVE  TypeOK'
  <2>1. MarkUsed(r) \in [Reset -> Resets]
    <3>1. [KeptResets[r] EXCEPT !.state = "used"] \in Resets
      BY KeptTypes DEF Resets
    <3>2. QED
      BY <3>1, KeptTypes DEF MarkUsed
  <2>2. QED
    BY <1>t, <1>10, <2>1, KeptTypes, ForgiveTypes DEF TypeOK, ResetConfirm, Save, Use
<1>11. ASSUME NEW s \in Subject, NEW e \in Email, NEW u \in User, NEW n \in Pair,
              Login(s, e, u, n), UNCHANGED signing
       PROVE  TypeOK'
  BY <1>t, <1>11, EnsureTypes, IssueTypes, StoreTypes, KeptTypes DEF TypeOK, Login, HandOut
<1>12. ASSUME NEW o \in OState, OauthBegin(o), UNCHANGED signing
       PROVE  TypeOK'
  BY <1>t, <1>12, KeptTypes, TTLAssumption DEF TypeOK, OauthBegin, Save, HandOut
<1>13. ASSUME NEW o \in OState, OauthCallbackFails(o), UNCHANGED signing
       PROVE  TypeOK'
  BY <1>t, <1>13, KeptTypes DEF TypeOK, OauthCallbackFails, TakeState, Save, Use
<1>14. ASSUME NEW o \in OState, NEW s \in Subject, NEW e \in Email, NEW u \in User,
              NEW n \in Pair, OauthCallback(o, s, e, u, n), UNCHANGED signing
       PROVE  TypeOK'
  <2>1. TakeState(o) \in [OState -> Nat]
    BY KeptTypes DEF TakeState
  <2>2. QED
    BY <1>t, <1>14, <2>1, EnsureTypes, IssueTypes, StoreTypes
    DEF TypeOK, OauthCallback, HandOut, Use
<1>15. ASSUME NEW n \in Pair, NEW m \in Pair, Refresh(n, m), UNCHANGED signing
       PROVE  TypeOK'
  <2>1. holder[n] \in User
    BY <1>15 DEF TypeOK, Refresh, Refreshable, Accepted, AcceptedAt
  <2>2. /\ session' \in [Pair -> {"absent", "live", "revoked"}]
        /\ revokedJti' \in [Token -> Nat]
    BY <1>15, KeptTypes DEF TypeOK, Refresh, Save, Token
  <2>3. uses' \in [Ticket -> Nat] /\ handed' \subseteq Ticket
    BY <1>t, <1>15 DEF TypeOK, Refresh, HandOut, Use
  <2>4. QED
    BY <1>15, <2>1, <2>2, <2>3, IssueTypes, KeptTypes DEF TypeOK, Refresh, Save
<1>16. ASSUME NEW ts \in Presented, Logout(ts), UNCHANGED signing
       PROVE  TypeOK'
  BY <1>16, KeptTypes DEF TypeOK, Logout, Save
<1>17. ASSUME NEW u \in User, DeleteUser(u), UNCHANGED signing
       PROVE  TypeOK'
  <2>1. account' \in [User -> Accounts]
    BY <1>17 DEF TypeOK, DeleteUser, Accounts
  <2>2. QED
    BY <1>17, <2>1, KeptTypes DEF TypeOK, DeleteUser, Save, EndSessions, Unindex
<1>18. QED
  BY <1>1, <1>2, <1>3, <1>4, <1>5, <1>6, <1>7, <1>8, <1>9, <1>10, <1>11, <1>12, <1>13,
     <1>14, <1>15, <1>16, <1>17 DEF Next, Handler

LEMMA TypeInit == Init => TypeOK
<1> SUFFICES ASSUME Init PROVE TypeOK
  OBVIOUS
<1>1. NoAccount \in Accounts /\ NoReset \in Resets
  BY DEF NoAccount, Accounts, Kinds, NoReset, Resets
<1>2. QED
  BY <1>1 DEF Init, TypeOK

-----------------------------------------------------------------------------
(* Accounts, their addresses and their sessions.                           *)

\* An identity of a provider leads to an account of a provider.
ProviderSound ==
    \A s \in Subject : providerIndex[s] # None => account[providerIndex[s]].kind = "cloud"

AccountInv == TypeOK /\ IndexSound /\ ProviderSound /\ NoSessionForDeleted

\* A sign-in goes on for an account that was made and is not deleted, though it may
\* be lost by then.
SigningSound ==
    signing # None => account[signing].kind # "none" /\ ~account[signing].revoked

\* What most handlers leave of an account: at most its lockout changes.
SameAccounts ==
    /\ UNCHANGED indexVars
    /\ \A v \in User : /\ account'[v].kind = account[v].kind
                       /\ account'[v].email = account[v].email
                       /\ account'[v].revoked = account[v].revoked

SameSessions ==
    \A m \in Pair : session'[m] = "live" => session[m] = "live" /\ holder'[m] = holder[m]

\* A sign-in adds one session, of the account that signs in.
OneSession(n, u) ==
    \A m \in Pair : session'[m] = "live" =>
        \/ m = n /\ holder'[m] = u
        \/ session[m] = "live" /\ holder'[m] = holder[m]

LEMMA ForgiveSame ==
    ASSUME TypeOK, NEW u, Forgive(u), UNCHANGED indexVars
    PROVE  SameAccounts
<1>1. account' = [v \in User |-> IF v = u THEN [account[v] EXCEPT !.failed = 0, !.lockUntil = 0]
                                 ELSE account[v]]
  BY DEF TypeOK, Forgive
<1>2. QED
  BY <1>1 DEF SameAccounts, TypeOK, Accounts

LEMMA CleanSessions ==
    ASSUME TypeOK, Save(KeptSessions, KeptRevoked, KeptResets, KeptStates), UNCHANGED tokenVars
    PROVE  SameSessions
BY DEF SameSessions, Save, KeptSessions, tokenVars

LEMMA IssueSession ==
    ASSUME TypeOK, NEW n \in Pair, NEW u \in User, NEW o, Issue(n, u), StoreSession(n, o)
    PROVE  OneSession(n, u)
<1>1. \A m \in Pair : holder'[m] = IF m = n THEN u ELSE holder[m]
  BY DEF TypeOK, Issue
<1>2. \A m \in Pair \ {n} : session'[m] = KeptSessions[m]
  BY KeptTypes DEF StoreSession, Save
<1>3. QED
  BY <1>1, <1>2 DEF OneSession, KeptSessions

\* Sessions and indices stay sound where the accounts do.
LEMMA AccountsKept ==
    ASSUME AccountInv, SameAccounts, TypeOK',
           SameSessions \/ \E n \in Pair, u \in User :
                               OneSession(n, u) /\ account[u].kind # "none" /\ ~account[u].revoked
    PROVE  AccountInv'
<1>1. IndexSound'
  BY DEF AccountInv, TypeOK, IndexSound, SameAccounts, indexVars
<1>2. ProviderSound'
  BY DEF AccountInv, TypeOK, ProviderSound, SameAccounts, indexVars
<1>3. \A u \in User : account[u].kind # "none" /\ ~account[u].revoked =>
                         account'[u].kind # "none" /\ ~account'[u].revoked
  BY DEF SameAccounts
<1>4. \A m \in Pair : session'[m] = "live" =>
          /\ holder'[m] \in User
          /\ account[holder'[m]].kind # "none" /\ ~account[holder'[m]].revoked
  BY NoneAssumption DEF AccountInv, TypeOK, NoSessionForDeleted, SameSessions, OneSession
<1>5. NoSessionForDeleted'
  BY <1>3, <1>4, NoneAssumption DEF NoSessionForDeleted
<1>6. QED
  BY <1>1, <1>2, <1>5 DEF AccountInv

\* A new local account is the one of its address.
LEMMA AddLocalStep ==
    ASSUME AccountInv, TypeOK', NEW u \in User, NEW e \in Email, AddLocal(u, e),
           providerIndex' = providerIndex, SameSessions
    PROVE  AccountInv'
<1>1. \A v \in User \ {u} : account'[v] = account[v]
  BY DEF AddLocal, AccountInv, TypeOK
<1>2. account'[u] = LocalAccount(e) /\ account[u].kind = "none"
  BY DEF AddLocal, AccountInv, TypeOK
<1>3. IndexSound'
  <2> SUFFICES ASSUME NEW f \in Email, emailIndex'[f] # None
               PROVE  /\ account'[emailIndex'[f]].kind = "local"
                      /\ account'[emailIndex'[f]].email = f
                      /\ ~account'[emailIndex'[f]].revoked
    BY DEF IndexSound
  <2>1. CASE f = e
    BY <1>2, <2>1 DEF AccountInv, TypeOK, AddLocal, LocalAccount
  <2>2. CASE f # e
    <3>1. emailIndex'[f] = emailIndex[f] /\ emailIndex[f] \in User
      BY <2>2 DEF AddLocal, AccountInv, TypeOK
    <3>2. emailIndex[f] # u
      BY <1>2, <3>1 DEF AccountInv, IndexSound
    <3>3. QED
      BY <1>1, <3>1, <3>2 DEF AccountInv, IndexSound
  <2>3. QED
    BY <2>1, <2>2
<1>4. ProviderSound'
  <2>1. \A s \in Subject : providerIndex[s] # None =>
            providerIndex[s] \in User /\ providerIndex[s] # u
    BY <1>2 DEF AccountInv, TypeOK, ProviderSound
  <2>2. QED
    BY <1>1, <2>1 DEF AccountInv, ProviderSound
<1>5. \A m \in Pair : session[m] = "live" => holder[m] \in User \ {u}
  BY <1>2 DEF AccountInv, TypeOK, NoSessionForDeleted
<1>6. NoSessionForDeleted'
  <2> SUFFICES ASSUME NEW m \in Pair, session'[m] = "live"
               PROVE  /\ holder'[m] # None
                      /\ account'[holder'[m]].kind # "none"
                      /\ ~account'[holder'[m]].revoked
    BY DEF NoSessionForDeleted
  <2>1. session[m] = "live" /\ holder'[m] = holder[m]
    BY DEF SameSessions
  <2>2. QED
    BY <1>1, <1>5, <2>1 DEF AccountInv, NoSessionForDeleted
<1>7. QED
  BY <1>3, <1>4, <1>6 DEF AccountInv

\* So is a new account of a provider, and one that was found is still in use.
LEMMA EnsureStep ==
    ASSUME AccountInv, TypeOK', NEW s \in Subject, NEW e \in Email, NEW u \in User,
           EnsureUser(s, e, u), NEW n \in Pair, OneSession(n, u)
    PROVE  AccountInv'
<1>1. \A v \in User \ {u} : account'[v] = account[v]
  BY DEF EnsureUser, AccountInv, TypeOK
<1>2. account[u].kind # "local" /\ account'[u].kind = "cloud" /\ ~account'[u].revoked
  <2>1. CASE providerIndex[s] = u /\ ~account[u].revoked
                /\ account' = [account EXCEPT ![u].email = e]
    BY <2>1, NoneAssumption DEF AccountInv, TypeOK, ProviderSound, Accounts
  <2>2. CASE account[u].kind = "none" /\ account' =
                [account EXCEPT ![u] = [NoAccount EXCEPT !.kind = "cloud", !.email = e]]
    BY <2>2 DEF AccountInv, TypeOK, NoAccount
  <2>3. QED
    BY <2>1, <2>2 DEF EnsureUser
<1>3. IndexSound'
  BY <1>1, <1>2 DEF AccountInv, TypeOK, IndexSound, EnsureUser, indexVars
<1>4. ProviderSound'
  BY <1>1, <1>2 DEF AccountInv, TypeOK, ProviderSound, EnsureUser, indexVars
<1>5. NoSessionForDeleted'
  <2> SUFFICES ASSUME NEW m \in Pair, session'[m] = "live"
               PROVE  /\ holder'[m] # None
                      /\ account'[holder'[m]].kind # "none"
                      /\ ~account'[holder'[m]].revoked
    BY DEF NoSessionForDeleted
  <2>1. CASE holder'[m] = u
    BY <1>2, <2>1, NoneAssumption
  <2>2. CASE session[m] = "live" /\ holder'[m] = holder[m] /\ holder[m] # u
    BY <1>1, <2>2 DEF AccountInv, TypeOK, NoSessionForDeleted
  <2>3. QED
    BY <2>1, <2>2 DEF OneSession
<1>6. QED
  BY <1>3, <1>4, <1>5 DEF AccountInv

\* A deleted account loses its address and its sessions.
LEMMA DeleteStep ==
    ASSUME AccountInv, TypeOK', NEW u \in User, DeleteUser(u)
    PROVE  AccountInv'
<1>1. \A v \in User \ {u} : account'[v] = account[v]
  BY DEF DeleteUser, AccountInv, TypeOK
<1>2. account'[u].kind = account[u].kind /\ account'[u].email = account[u].email
  BY DEF DeleteUser, AccountInv, TypeOK, Accounts
<1>3. IndexSound'
  <2> SUFFICES ASSUME NEW f \in Email, emailIndex'[f] # None
               PROVE  /\ account'[emailIndex'[f]].kind = "local"
                      /\ account'[emailIndex'[f]].email = f
                      /\ ~account'[emailIndex'[f]].revoked
    BY DEF IndexSound
  <2>1. emailIndex'[f] = emailIndex[f] /\ emailIndex[f] \in User /\ f # account[u].email
    BY DEF AccountInv, TypeOK, DeleteUser, Unindex
  <2>2. emailIndex[f] # u
    BY <2>1 DEF AccountInv, IndexSound
  <2>3. QED
    BY <1>1, <2>1, <2>2 DEF AccountInv, IndexSound
<1>4. ProviderSound'
  BY <1>1, <1>2 DEF AccountInv, TypeOK, ProviderSound, DeleteUser
<1>5. NoSessionForDeleted'
  <2> SUFFICES ASSUME NEW m \in Pair, session'[m] = "live"
               PROVE  /\ holder'[m] # None
                      /\ account'[holder'[m]].kind # "none"
                      /\ ~account'[holder'[m]].revoked
    BY DEF NoSessionForDeleted
  <2>1. session[m] = "live" /\ holder[m] # u /\ holder' = holder
    BY DEF DeleteUser, Save, EndSessions, KeptSessions, tokenVars
  <2>2. QED
    BY <1>1, <2>1 DEF AccountInv, TypeOK, NoSessionForDeleted
<1>6. QED
  BY <1>3, <1>4, <1>5 DEF AccountInv

LEMMA AccountStep == AccountInv /\ SigningSound /\ [Next]_vars => AccountInv'
<1> SUFFICES ASSUME AccountInv, SigningSound, [Next]_vars PROVE AccountInv'
  OBVIOUS
<1> USE DEF AccountInv
<1>t. TypeOK'
  BY TypeStep
<1>1. CASE UNCHANGED vars \/ Tick
  BY <1>1, <1>t
  DEF vars, Tick, handlerVars, indexVars, tokenVars, registryVars, IndexSound,
      ProviderSound, NoSessionForDeleted
<1>2. CASE LoseRegistry
  BY <1>2, <1>t DEF LoseRegistry, Save, IndexSound, ProviderSound, NoSessionForDeleted
<1>3. ASSUME NEW u \in User, NEW e \in Email, LocalRegister(u, e)
      PROVE  AccountInv'
  BY <1>t, <1>3, AddLocalStep, CleanSessions DEF LocalRegister
<1>4. ASSUME NEW n \in Pair, SignedIn(n)
      PROVE  AccountInv'
  <2>1. /\ signing \in User
        /\ account[signing].kind # "none" /\ ~account[signing].revoked
    BY <1>4 DEF SignedIn, TypeOK, SigningSound
  <2>2. SameAccounts
    BY <1>4 DEF SignedIn, SameAccounts
  <2>3. OneSession(n, signing)
    <3>1. \A m \in Pair : holder'[m] = IF m = n THEN signing ELSE holder[m]
      BY <1>4 DEF SignedIn, Issue, TypeOK
    <3>2. \A m \in Pair \ {n} : session'[m] = session[m]
      BY <1>4 DEF SignedIn, TypeOK
    <3>3. QED
      BY <3>1, <3>2 DEF OneSession
  <2>4. QED
    BY <1>t, <2>1, <2>2, <2>3, AccountsKept
<1>5. CASE CutShort
  BY <1>5, <1>t DEF CutShort, handlerVars, indexVars, tokenVars, registryVars, IndexSound,
     ProviderSound, NoSessionForDeleted
<1>6. ASSUME NEW e \in Email, WrongPassword(e)
      PROVE  AccountInv'
  <2>1. SameAccounts
    BY <1>6 DEF WrongPassword, SameAccounts, TypeOK, Accounts
  <2>2. QED
    BY <1>t, <1>6, <2>1, CleanSessions, AccountsKept DEF WrongPassword
<1>7. ASSUME NEW e \in Email, LocalLogin(e)
      PROVE  AccountInv'
  BY <1>t, <1>7, ForgiveSame, CleanSessions, AccountsKept DEF LocalLogin
<1>8. ASSUME NEW e \in Email, NEW r \in Reset, ResetRequest(e, r)
      PROVE  AccountInv'
  <2>1. SameAccounts /\ SameSessions
    BY <1>8 DEF ResetRequest, SameAccounts, SameSessions, Save, KeptSessions, tokenVars
  <2>2. QED
    BY <1>t, <2>1, AccountsKept
<1>9. ASSUME NEW r \in Reset, ResetConfirm(r)
      PROVE  AccountInv'
  <2>1. SameAccounts /\ SameSessions
    BY <1>9, ForgiveSame DEF ResetConfirm, SameSessions, Save, KeptSessions, tokenVars
  <2>2. QED
    BY <1>t, <2>1, AccountsKept
<1>10. ASSUME NEW s \in Subject, NEW e \in Email, NEW u \in User, NEW n \in Pair,
              Login(s, e, u, n)
       PROVE  AccountInv'
  BY <1>t, <1>10, EnsureStep, IssueSession DEF Login
<1>11. ASSUME NEW o \in OState, OauthBegin(o) \/ OauthCallbackFails(o)
       PROVE  AccountInv'
  <2>1. SameAccounts /\ SameSessions
    BY <1>11 DEF OauthBegin, OauthCallbackFails, SameAccounts, SameSessions, Save,
       KeptSessions, tokenVars
  <2>2. QED
    BY <1>t, <2>1, AccountsKept
<1>12. ASSUME NEW o \in OState, NEW s \in Subject, NEW e \in Email, NEW u \in User,
              NEW n \in Pair, OauthCallback(o, s, e, u, n)
       PROVE  AccountInv'
  BY <1>t, <1>12, EnsureStep, IssueSession DEF OauthCallback
<1>13. ASSUME NEW n \in Pair, NEW m \in Pair, Refresh(n, m)
       PROVE  AccountInv'
  <2>1. /\ holder[n] \in User
        /\ account[holder[n]].kind # "none" /\ ~account[holder[n]].revoked
    BY <1>13 DEF Refresh, Refreshable, Accepted, AcceptedAt, Exists, TypeOK
  <2>2. SameAccounts
    BY <1>13 DEF Refresh, SameAccounts, indexVars
  <2>3. OneSession(m, holder[n])
    <3>1. \A k \in Pair : holder'[k] = IF k = m THEN holder[n] ELSE holder[k]
      BY <1>13 DEF Refresh, Issue, TypeOK
    <3>2. \A k \in Pair \ {m} : session'[k] \in {KeptSessions[k], "revoked"}
      BY <1>13, KeptTypes DEF Refresh, Save
    <3>3. QED
      BY <3>1, <3>2 DEF OneSession, KeptSessions
  <2>4. QED
    BY <1>t, <2>1, <2>2, <2>3, AccountsKept
<1>14. ASSUME NEW ts \in Presented, Logout(ts)
       PROVE  AccountInv'
  <2>1. SameAccounts /\ SameSessions
    BY <1>14 DEF Logout, SameAccounts, SameSessions, Save, KeptSessions, tokenVars
  <2>2. QED
    BY <1>t, <2>1, AccountsKept
<1>15. ASSUME NEW u \in User, DeleteUser(u)
       PROVE  AccountInv'
  BY <1>t, <1>15, DeleteStep
<1>16. QED
  BY <1>1, <1>2, <1>3, <1>4, <1>5, <1>6, <1>7, <1>8, <1>9, <1>10, <1>11, <1>12, <1>13,
     <1>14, <1>15 DEF Next, Handler

LEMMA SigningStep == AccountInv /\ SigningSound /\ [Next]_vars => SigningSound'
<1> SUFFICES ASSUME AccountInv, SigningSound, [Next]_vars PROVE SigningSound'
  OBVIOUS
<1> USE DEF AccountInv
<1>1. CASE UNCHANGED vars \/ Tick
  BY <1>1 DEF vars, Tick, handlerVars, SigningSound
<1>2. CASE LoseRegistry
  BY <1>2 DEF LoseRegistry, NoAccount, SigningSound, TypeOK
<1>3. ASSUME NEW u \in User, NEW e \in Email, LocalRegister(u, e)
      PROVE  SigningSound'
  BY <1>3 DEF LocalRegister, AddLocal, LocalAccount, SigningSound, TypeOK
<1>4. ASSUME NEW e \in Email, LocalLogin(e)
      PROVE  SigningSound'
  <2>1. /\ emailIndex[e] \in User
        /\ account[emailIndex[e]].kind = "local" /\ ~account[emailIndex[e]].revoked
    BY <1>4 DEF LocalLogin, MayTry, TypeOK, IndexSound
  <2>2. SameAccounts
    BY <1>4, ForgiveSame DEF LocalLogin
  <2>3. QED
    BY <1>4, <2>1, <2>2 DEF LocalLogin, SameAccounts, SigningSound
<1>5. CASE signing' = None
  BY <1>5 DEF SigningSound
<1>6. QED
  BY <1>1, <1>2, <1>3, <1>4, <1>5 DEF Next, SignedIn, CutShort

-----------------------------------------------------------------------------
(* Tokens and the list of revoked ones.                                    *)

\* An entry of the list stands for a token that was issued, until it expires.
RevokedAgree ==
    \A t \in Token : revokedJti[t] # 0 => holder[t[2]] # None /\ revokedJti[t] = exp[t]

\* What a step does to tokens: those in circulation do not change, and the list
\* only grows by them; a refresh token on it has no live session.
TokensKept ==
    \A t \in Token :
        /\ holder[t[2]] # None => holder'[t[2]] = holder[t[2]] /\ exp'[t] = exp[t]
        /\ \/ revokedJti'[t] \in {KeptRevoked[t], revokedJti[t]}
           \/ /\ revokedJti'[t] = exp[t] /\ holder[t[2]] # None
              /\ t[1] = "refresh" => session'[t[2]] # "live"

LEMMA IssueTokens ==
    ASSUME TypeOK, NEW n \in Pair, NEW u \in User, Issue(n, u)
    PROVE  \A t \in Token : holder[t[2]] # None =>
               holder'[t[2]] = holder[t[2]] /\ exp'[t] = exp[t]
<1> SUFFICES ASSUME NEW t \in Token, holder[t[2]] # None
             PROVE  holder'[t[2]] = holder[t[2]] /\ exp'[t] = exp[t]
  OBVIOUS
<1>1. t[2] \in Pair /\ t[2] # n
  BY DEF Token, Issue, NextPair
<1>2. t # <<"access", n>> /\ t # <<"refresh", n>>
  BY <1>1
<1>3. QED
  BY <1>1, <1>2 DEF TypeOK, Issue

LEMMA TokenStep ==
    ASSUME AccountInv, Next, ~LoseRegistry
    PROVE  TokensKept
<1> USE DEF AccountInv
<1>1. CASE Tick
  BY <1>1 DEF Tick, handlerVars, TokensKept, tokenVars, registryVars
<1>2. ASSUME NEW u \in User, NEW e \in Email, LocalRegister(u, e)
      PROVE  TokensKept
  BY <1>2 DEF LocalRegister, Save, TokensKept, tokenVars
<1>3. ASSUME NEW n \in Pair, SignedIn(n)
      PROVE  TokensKept
  <2>1. signing \in User
    BY <1>3 DEF TypeOK, SignedIn
  <2>2. QED
    BY <1>3, <2>1, IssueTokens DEF SignedIn, TokensKept
<1>4. ASSUME NEW e \in Email, LocalLogin(e) \/ WrongPassword(e)
      PROVE  TokensKept
  BY <1>4 DEF LocalLogin, WrongPassword, Save, TokensKept, tokenVars
<1>5. CASE CutShort
  BY <1>5 DEF CutShort, handlerVars, TokensKept, tokenVars, registryVars
<1>6. ASSUME NEW e \in Email, NEW r \in Reset, ResetRequest(e, r) \/ ResetConfirm(r)
      PROVE  TokensKept
  BY <1>6 DEF ResetRequest, ResetConfirm, Save, TokensKept, tokenVars
<1>r. ASSUME NEW r \in Reset, ResetConfirm(r)
      PROVE  TokensKept
  BY <1>r DEF ResetConfirm, Save, TokensKept, tokenVars
<1>7. ASSUME NEW s \in Subject, NEW e \in Email, NEW u \in User, NEW n \in Pair,
             Login(s, e, u, n)
      PROVE  TokensKept
  BY <1>7, IssueTokens DEF Login, StoreSession, Save, TokensKept
<1>8. ASSUME NEW o \in OState, OauthBegin(o) \/ OauthCallbackFails(o)
      PROVE  TokensKept
  BY <1>8 DEF OauthBegin, OauthCallbackFails, Save, TokensKept, tokenVars
<1>9. ASSUME NEW o \in OState, NEW s \in Subject, NEW e \in Email, NEW u \in User,
             NEW n \in Pair, OauthCallback(o, s, e, u, n)
      PROVE  TokensKept
  BY <1>9, IssueTokens DEF OauthCallback, StoreSession, Save, TokensKept
<1>10. ASSUME NEW n \in Pair, NEW m \in Pair, Refresh(n, m)
       PROVE  TokensKept
  <2>1. holder[n] \in User
    BY <1>10 DEF Refresh, Refreshable, Accepted, AcceptedAt, TypeOK
  <2>2. \A t \in Token : \/ revokedJti'[t] = KeptRevoked[t]
                         \/ t = <<"refresh", n>> /\ revokedJti'[t] = exp[t]
    BY <1>10, KeptTypes DEF Refresh, Save
  <2>3. n # m /\ session'[n] = "revoked"
    BY <1>10, <2>1, NoneAssumption, KeptTypes DEF Refresh, Save, Issue, NextPair
  <2>4. QED
    BY <1>10, <2>1, <2>2, <2>3, IssueTokens, NoneAssumption DEF Refresh, TokensKept
<1>11. ASSUME NEW ts \in Presented, Logout(ts)
       PROVE  TokensKept
  BY <1>11 DEF Logout, Accepted, AcceptedAt, Token, Save, TokensKept, tokenVars
<1>12. ASSUME NEW u \in User, DeleteUser(u)
       PROVE  TokensKept
  BY <1>12, NoneAssumption DEF DeleteUser, EndSessions, Token, Save, TokensKept, tokenVars
<1>13. QED
  BY <1>1, <1>2, <1>3, <1>4, <1>5, <1>6, <1>r, <1>7, <1>8, <1>9, <1>10,
     <1>11, <1>12 DEF Next, Handler

LEMMA RevokedStep ==
    AccountInv /\ RevokedAgree /\ [Next]_vars => RevokedAgree'
<1> SUFFICES ASSUME AccountInv, RevokedAgree, [Next]_vars PROVE RevokedAgree'
  OBVIOUS
<1>1. CASE UNCHANGED vars
  BY <1>1 DEF vars, handlerVars, tokenVars, registryVars, RevokedAgree
<1>2. CASE LoseRegistry
  BY <1>2 DEF LoseRegistry, Save, RevokedAgree
<1>3. CASE Next /\ ~LoseRegistry
  BY <1>3, TokenStep DEF TokensKept, RevokedAgree, KeptRevoked, RevokedAt
<1>4. QED
  BY <1>1, <1>2, <1>3

\* The clock does not go back.
LEMMA TimePasses == TypeOK /\ [Next]_vars => now' >= now
<1> SUFFICES ASSUME TypeOK, [Next]_vars PROVE now' >= now
  OBVIOUS
<1>1. CASE Tick
  BY <1>1 DEF TypeOK, Tick
<1>2. CASE ~Tick
  <2>1. now' = now
    BY <1>2 DEF Next, Handler, vars, LoseRegistry, LocalRegister, LocalLogin, SignedIn,
       CutShort, WrongPassword, ResetRequest, ResetConfirm, Login, OauthBegin,
       OauthCallbackFails, OauthCallback, Refresh, Logout, DeleteUser
  <2>2. QED
    BY <2>1 DEF TypeOK
<1>3. QED
  BY <1>1, <1>2

\* After a step that keeps the registry, a token that was refused is not accepted
\* by a request whose second reading of the clock is before its expiry.
LEMMA RefusedStep ==
    ASSUME AccountInv, RevokedAgree, TypeOK', [Next]_vars, losses' = losses,
           NEW t \in Token, holder[t[2]] # None, ~AcceptedAt(t, now),
           NEW late \in Readings', exp[t] > late
    PROVE  ~AcceptedAt(t, late)'
<1>0. now' >= now /\ now \in Nat /\ now' \in Nat /\ late \in Nat /\ late >= now'
  <2>1. now \in Nat /\ now' \in Nat
    BY DEF AccountInv, TypeOK
  <2>2. late = now' \/ late = now' + 1
    BY DEF Readings
  <2>3. now' >= now
    BY TimePasses DEF AccountInv
  <2>4. QED
    BY <2>1, <2>2, <2>3
<1>1. t[2] \in Pair /\ exp[t] \in Nat /\ revokedJti[t] \in Nat
  BY DEF AccountInv, TypeOK, Token
<1>2. ~LoseRegistry
  BY DEF LoseRegistry, AccountInv, TypeOK
<1>3. KeptRevoked[t] = exp[t] /\ revokedJti[t] = exp[t]
  BY <1>0, <1>1 DEF AcceptedAt, KeptRevoked, RevokedAt, RevokedAgree
<1>4. revokedJti'[t] = exp[t]
  <2>1. CASE UNCHANGED vars
    BY <1>3, <2>1 DEF vars, handlerVars, registryVars
  <2>2. CASE Next
    BY <1>2, <1>3, <2>2, TokenStep DEF TokensKept
  <2>3. QED
    BY <2>1, <2>2
<1>5. RevokedAt(late)'[t] = exp[t]
  BY <1>4 DEF RevokedAt, Unexpired
<1>6. QED
  BY <1>0, <1>1, <1>5 DEF AcceptedAt

-----------------------------------------------------------------------------
(* Lockout.                                                                *)

\* A lock is at most one period away, and each wrong password beyond the limit
\* had to wait for the period before it.
LockSound ==
    \A u \in User : account[u].failed >= MaxFailed =>
        /\ (account[u].failed - MaxFailed + 1) * LockTTL <= account[u].lockUntil
        /\ account[u].lockUntil <= now + LockTTL

\* What every step but a wrong password does to the counters.
CountersKept ==
    \A u \in User : \/ /\ account'[u].failed = account[u].failed
                       /\ account'[u].lockUntil = account[u].lockUntil
                    \/ account'[u].failed = 0

LEMMA ForgiveCounters ==
    ASSUME TypeOK, NEW u, Forgive(u)
    PROVE  CountersKept
<1>1. account' = [v \in User |-> IF v = u THEN [account[v] EXCEPT !.failed = 0, !.lockUntil = 0]
                                 ELSE account[v]]
  BY DEF TypeOK, Forgive
<1>2. QED
  BY <1>1 DEF CountersKept, TypeOK, Accounts

LEMMA AddLocalCounters ==
    ASSUME TypeOK, NEW u \in User, NEW e \in Email, AddLocal(u, e)
    PROVE  CountersKept
BY DEF TypeOK, AddLocal, LocalAccount, CountersKept

LEMMA EnsureCounters ==
    ASSUME TypeOK, NEW s \in Subject, NEW e \in Email, NEW u \in User, EnsureUser(s, e, u)
    PROVE  CountersKept
<1>1. CASE account' = [account EXCEPT ![u].email = e]
  BY <1>1 DEF TypeOK, Accounts, CountersKept
<1>2. CASE account' = [account EXCEPT ![u] =
                          [NoAccount EXCEPT !.kind = "cloud", !.email = e]]
  BY <1>2 DEF TypeOK, NoAccount, CountersKept
<1>3. QED
  BY <1>1, <1>2 DEF EnsureUser

LEMMA CountersStep ==
    ASSUME TypeOK, [Next]_vars, ~(\E e \in Email : WrongPassword(e))
    PROVE  CountersKept
<1>1. CASE UNCHANGED account
  BY <1>1 DEF CountersKept
<1>2. CASE LoseRegistry
  <2>1. \A u \in User : account'[u].failed = 0
    BY <1>2 DEF LoseRegistry, NoAccount
  <2>2. QED
    BY <2>1 DEF CountersKept
<1>3. ASSUME NEW u \in User, NEW e \in Email, LocalRegister(u, e)
      PROVE  CountersKept
  BY <1>3, AddLocalCounters DEF LocalRegister
<1>4. ASSUME NEW e \in Email, LocalLogin(e)
      PROVE  CountersKept
  BY <1>4, ForgiveCounters DEF LocalLogin
<1>5. ASSUME NEW r \in Reset, ResetConfirm(r)
      PROVE  CountersKept
  BY <1>5, ForgiveCounters DEF ResetConfirm
<1>6. ASSUME NEW s \in Subject, NEW e \in Email, NEW u \in User, NEW n \in Pair,
             Login(s, e, u, n) \/ \E o \in OState : OauthCallback(o, s, e, u, n)
      PROVE  CountersKept
  BY <1>6, EnsureCounters DEF Login, OauthCallback
<1>7. ASSUME NEW u \in User, DeleteUser(u)
      PROVE  CountersKept
  BY <1>7 DEF DeleteUser, TypeOK, Accounts, CountersKept
<1>8. QED
  <2>1. CASE UNCHANGED vars \/ Tick \/ CutShort \/ \E n \in Pair : SignedIn(n)
    BY <1>1, <2>1 DEF vars, Tick, CutShort, SignedIn, handlerVars
  <2>2. CASE \/ \E e \in Email, r \in Reset : ResetRequest(e, r)
             \/ \E o \in OState : OauthBegin(o) \/ OauthCallbackFails(o)
             \/ \E n, m \in Pair : Refresh(n, m)
             \/ \E ts \in Presented : Logout(ts)
    BY <1>1, <2>2 DEF ResetRequest, OauthBegin, OauthCallbackFails, Refresh, Logout
  <2>3. QED
    BY <2>1, <2>2, <1>2, <1>3, <1>4, <1>5, <1>6, <1>7 DEF Next, Handler

LEMMA LockStep == TypeOK /\ LockSound /\ [Next]_vars => LockSound'
<1> SUFFICES ASSUME TypeOK, LockSound, [Next]_vars PROVE LockSound'
  OBVIOUS
<1>t. TypeOK'
  BY TypeStep
<1>n. /\ now \in Nat /\ now' \in Nat /\ now' >= now
      /\ LockTTL \in Nat \ {0} /\ MaxFailed \in Nat \ {0}
  BY <1>t, TimePasses, TTLAssumption DEF TypeOK
<1>1. CASE \E e \in Email : WrongPassword(e)
  <2>1. PICK e \in Email : WrongPassword(e)
    BY <1>1
  <2> DEFINE w == emailIndex[e]
             attempts == account[w].failed + 1
  <2>2. /\ w \in User /\ account[w].lockUntil <= now /\ now' = now
        /\ account' = [account EXCEPT ![w].failed = attempts,
                                      ![w].lockUntil = LockAfter(w, attempts)]
    BY <2>1 DEF TypeOK, Accounts, WrongPassword, MayTry, Locked
  <2>3. account[w].failed \in Nat /\ account[w].lockUntil \in Nat
    BY <2>2 DEF TypeOK, Accounts
  <2>4. account'[w].failed = attempts /\ account'[w].lockUntil = LockAfter(w, attempts)
    BY <2>2 DEF TypeOK, Accounts
  <2>5. \A u \in User \ {w} : account'[u] = account[u]
    BY <2>2 DEF TypeOK
  <2>6. ASSUME attempts >= MaxFailed
        PROVE  /\ (attempts - MaxFailed + 1) * LockTTL <= now + LockTTL
               /\ LockAfter(w, attempts) = now + LockTTL
    <3>1. CASE account[w].failed >= MaxFailed
      <4>1. (account[w].failed - MaxFailed + 1) * LockTTL <= now
        BY <1>n, <2>2, <2>3, <3>1 DEF LockSound
      <4> DEFINE k == account[w].failed - MaxFailed + 1
      <4>2. k \in Nat /\ attempts - MaxFailed + 1 = k + 1
        BY <1>n, <2>3, <3>1
      <4>3. (k + 1) * LockTTL = k * LockTTL + LockTTL
        BY <1>n, <4>2
      <4>4. QED
        BY <1>n, <2>6, <4>1, <4>2, <4>3 DEF LockAfter
    <3>2. CASE account[w].failed < MaxFailed
      <4>1. attempts - MaxFailed + 1 = 1
        BY <1>n, <2>3, <2>6, <3>2
      <4>2. QED
        BY <1>n, <2>6, <4>1 DEF LockAfter
    <3>3. QED
      BY <1>n, <2>3, <3>1, <3>2
  <2> HIDE DEF w, attempts
  <2>7. ASSUME NEW u \in User, account'[u].failed >= MaxFailed
        PROVE  /\ (account'[u].failed - MaxFailed + 1) * LockTTL <= account'[u].lockUntil
               /\ account'[u].lockUntil <= now' + LockTTL
    <3>1. CASE u = w
      BY <1>n, <2>2, <2>4, <2>6, <2>7, <3>1
    <3>2. CASE u # w
      BY <2>2, <2>5, <2>7, <3>2 DEF LockSound
    <3>3. QED
      BY <3>1, <3>2
  <2>8. QED
    BY <2>7 DEF LockSound
<1>2. CASE ~(\E e \in Email : WrongPassword(e))
  <2> SUFFICES ASSUME NEW u \in User, account'[u].failed >= MaxFailed
               PROVE  /\ (account'[u].failed - MaxFailed + 1) * LockTTL <= account'[u].lockUntil
                      /\ account'[u].lockUntil <= now' + LockTTL
    BY DEF LockSound
  <2>1. /\ account'[u].failed = account[u].failed
        /\ account'[u].lockUntil = account[u].lockUntil
    BY <1>n, <1>2, CountersStep DEF CountersKept
  <2>2. account[u].lockUntil <= now + LockTTL /\ account[u].lockUntil \in Nat
    BY <2>1 DEF LockSound, TypeOK, Accounts
  <2>3. QED
    BY <1>n, <2>1, <2>2 DEF LockSound
<1>3. QED
  BY <1>1, <1>2

LEMMA LockBoundsGuesses == TypeOK /\ LockSound => GuessesBounded
<1> SUFFICES ASSUME TypeOK, LockSound, NEW u \in User, account[u].failed >= MaxFailed
             PROVE  (account[u].failed - MaxFailed) * LockTTL <= now
  BY DEF GuessesBounded
<1> DEFINE k == account[u].failed - MaxFailed
<1>1. k \in Nat /\ LockTTL \in Nat /\ now \in Nat
  BY TTLAssumption DEF TypeOK, Accounts
<1>2. (k + 1) * LockTTL <= now + LockTTL
  BY <1>1, TTLAssumption DEF LockSound, TypeOK, Accounts
<1>3. (k + 1) * LockTTL = k * LockTTL + LockTTL
  BY <1>1
<1>4. QED
  BY <1>1, <1>2, <1>3

-----------------------------------------------------------------------------
(* Tickets.                                                                *)

\* A refresh token is in circulation from its pair's issue on; what the registry
\* keeps of resets and redirects was handed out, and a reset is for an account
\* that is there.
TicketInv ==
    /\ \A n \in Pair : <<"refresh", n>> \in handed <=> holder[n] # None
    /\ \A r \in Reset : reset[r].state = "open" =>
           <<"reset", r>> \in handed /\ reset[r].user \in User /\ Exists(reset[r].user)
    /\ \A o \in OState : oauth[o] # 0 => <<"oauth", o>> \in handed

\* What a step does to refresh tokens and their sessions.
RefreshPart ==
    \A n \in Pair :
        /\ <<"refresh", n>> \in handed' <=>
               <<"refresh", n>> \in handed \/ (holder[n] = None /\ holder'[n] # None)
        /\ holder[n] # None => holder'[n] # None
        /\ session'[n] = "live" /\ holder[n] # None => session[n] = "live"

LEMMA NewPair ==
    ASSUME TypeOK, NEW n \in Pair, NEW u \in User, Issue(n, u), HandOut(<<"refresh", n>>),
           \A m \in Pair \ {n} : session'[m] = "live" => session[m] = "live"
    PROVE  RefreshPart
<1>1. \A m \in Pair : holder'[m] = IF m = n THEN u ELSE holder[m]
  BY DEF TypeOK, Issue
<1>2. holder[n] = None
  BY DEF Issue, NextPair
<1>3. QED
  BY <1>1, <1>2, NoneAssumption DEF RefreshPart, HandOut

LEMMA StoredSession ==
    ASSUME TypeOK, NEW n \in Pair, NEW o, StoreSession(n, o)
    PROVE  \A m \in Pair \ {n} : session'[m] = "live" => session[m] = "live"
<1>1. \A m \in Pair \ {n} : session'[m] = KeptSessions[m]
  BY KeptTypes DEF StoreSession, Save
<1>2. QED
  BY <1>1 DEF KeptSessions

LEMMA NoPair ==
    ASSUME holder' = holder,
           \A m \in Pair : session'[m] = "live" => session[m] = "live",
           \A m \in Pair : <<"refresh", m>> \in handed' <=> <<"refresh", m>> \in handed
    PROVE  RefreshPart
BY DEF RefreshPart

LEMMA RefreshStep ==
    ASSUME AccountInv, Next
    PROVE  RefreshPart
<1> USE DEF AccountInv, handlerVars, indexVars, tokenVars, registryVars, ghostVars
<1>1. CASE Tick
  BY <1>1, NoPair DEF Tick
<1>2. CASE LoseRegistry
  BY <1>2, NoPair DEF LoseRegistry, Save
<1>3. ASSUME NEW u \in User, NEW e \in Email, LocalRegister(u, e)
      PROVE  RefreshPart
  BY <1>3, NoPair DEF LocalRegister, Save, KeptSessions
<1>4. ASSUME NEW n \in Pair, SignedIn(n)
      PROVE  RefreshPart
  <2>1. signing \in User
    BY <1>4 DEF TypeOK, SignedIn
  <2>2. \A m \in Pair \ {n} : session'[m] = session[m]
    BY <1>4 DEF TypeOK, SignedIn
  <2>3. QED
    BY <1>4, <2>1, <2>2, NewPair DEF SignedIn
<1>5. ASSUME NEW e \in Email, LocalLogin(e) \/ WrongPassword(e)
      PROVE  RefreshPart
  BY <1>5, NoPair DEF LocalLogin, WrongPassword, Save, KeptSessions
<1>6. CASE CutShort
  BY <1>6, NoPair DEF CutShort
<1>7. ASSUME NEW e \in Email, NEW r \in Reset, ResetRequest(e, r)
      PROVE  RefreshPart
  BY <1>7, NoPair DEF ResetRequest, HandOut, Save, KeptSessions
<1>8. ASSUME NEW r \in Reset, ResetConfirm(r)
      PROVE  RefreshPart
  BY <1>8, NoPair DEF ResetConfirm, Save, KeptSessions
<1>9. ASSUME NEW s \in Subject, NEW e \in Email, NEW u \in User, NEW n \in Pair,
             Login(s, e, u, n)
      PROVE  RefreshPart
  BY <1>9, NewPair, StoredSession DEF Login
<1>10. ASSUME NEW o \in OState, OauthBegin(o) \/ OauthCallbackFails(o)
       PROVE  RefreshPart
  BY <1>10, NoPair DEF OauthBegin, OauthCallbackFails, HandOut, Save, KeptSessions
<1>11. ASSUME NEW o \in OState, NEW s \in Subject, NEW e \in Email, NEW u \in User,
              NEW n \in Pair, OauthCallback(o, s, e, u, n)
       PROVE  RefreshPart
  BY <1>11, NewPair, StoredSession DEF OauthCallback
<1>12. ASSUME NEW n \in Pair, NEW m \in Pair, Refresh(n, m)
       PROVE  RefreshPart
  <2>1. holder[n] \in User
    BY <1>12 DEF Refresh, Refreshable, Accepted, AcceptedAt, TypeOK
  <2>2. \A k \in Pair \ {m} : session'[k] \in {KeptSessions[k], "revoked"}
    BY <1>12, KeptTypes DEF Refresh, Save
  <2>3. \A k \in Pair \ {m} : session'[k] = "live" => session[k] = "live"
    BY <2>2 DEF KeptSessions
  <2>4. QED
    BY <1>12, <2>1, <2>2, <2>3, NewPair DEF Refresh
<1>13. ASSUME NEW ts \in Presented, Logout(ts)
       PROVE  RefreshPart
  BY <1>13, NoPair DEF Logout, Save, KeptSessions
<1>14. ASSUME NEW u \in User, DeleteUser(u)
       PROVE  RefreshPart
  BY <1>14, NoPair DEF DeleteUser, Save, EndSessions, KeptSessions
<1>15. QED
  BY <1>1, <1>2, <1>3, <1>4, <1>5, <1>6, <1>7, <1>8, <1>9, <1>10, <1>11, <1>12, <1>13,
     <1>14 DEF Next, Handler

\* A refresh token on the list has no live session.
RevokedNotLive == \A n \in Pair : revokedJti[<<"refresh", n>>] # 0 => session[n] # "live"

LEMMA RevokedNotLiveStep ==
    AccountInv /\ RevokedAgree /\ RevokedNotLive /\ [Next]_vars => RevokedNotLive'
<1> SUFFICES ASSUME AccountInv, RevokedAgree, RevokedNotLive, [Next]_vars,
                    NEW n \in Pair, revokedJti'[<<"refresh", n>>] # 0
             PROVE  session'[n] # "live"
  BY DEF RevokedNotLive
<1> DEFINE t == <<"refresh", n>>
<1>t. t \in Token /\ t[1] = "refresh" /\ t[2] = n
  BY DEF Token
<1>1. CASE UNCHANGED vars
  BY <1>1 DEF vars, handlerVars, registryVars, RevokedNotLive
<1>2. CASE LoseRegistry
  BY <1>2 DEF LoseRegistry, Save
<1>3. CASE Next /\ ~LoseRegistry
  <2>1. CASE revokedJti'[t] \in {KeptRevoked[t], revokedJti[t]}
    <3>1. revokedJti[t] # 0
      BY <1>t, <2>1 DEF KeptRevoked, RevokedAt
    <3>2. holder[n] # None /\ session[n] # "live"
      BY <1>t, <3>1 DEF RevokedAgree, RevokedNotLive
    <3>3. QED
      BY <1>3, <3>2, RefreshStep DEF RefreshPart
  <2>2. CASE session'[t[2]] # "live"
    BY <1>t, <2>2
  <2>3. QED
    BY <1>3, <1>t, <2>1, <2>2, TokenStep DEF TokensKept
<1>4. QED
  BY <1>1, <1>2, <1>3

\* What a step does to resets and to redirects.
ResetPart ==
    \A r \in Reset :
        /\ <<"reset", r>> \in handed => <<"reset", r>> \in handed'
        /\ reset'[r].state = "open" =>
               \/ reset'[r] = reset[r]
               \/ /\ <<"reset", r>> \notin handed /\ <<"reset", r>> \in handed'
                  /\ \E e \in Email : emailIndex[e] # None /\ reset'[r].user = emailIndex[e]
        /\ <<"reset", r>> \in handed' /\ <<"reset", r>> \notin handed =>
               reset'[r].state = "open" /\ reset'[r].exp > now'

OauthPart ==
    \A o \in OState :
        /\ <<"oauth", o>> \in handed => <<"oauth", o>> \in handed'
        /\ oauth'[o] # 0 =>
               oauth'[o] = oauth[o] \/ (<<"oauth", o>> \notin handed /\ <<"oauth", o>> \in handed')
        /\ <<"oauth", o>> \in handed' /\ <<"oauth", o>> \notin handed => oauth'[o] > now'

\* Most handlers leave of both what _cleanup keeps.
KeptTickets ==
    /\ \A r \in Reset : reset'[r] \in {reset[r], KeptResets[r], NoReset}
    /\ \A o \in OState : oauth'[o] \in {oauth[o], KeptStates[o], 0}
    /\ \A r \in Reset : <<"reset", r>> \in handed' <=> <<"reset", r>> \in handed
    /\ \A o \in OState : <<"oauth", o>> \in handed' <=> <<"oauth", o>> \in handed

LEMMA KeptParts == KeptTickets => ResetPart /\ OauthPart
BY DEF KeptTickets, ResetPart, OauthPart, KeptResets, KeptStates, NoReset

LEMMA ResetOauthStep ==
    ASSUME AccountInv, Next
    PROVE  ResetPart /\ OauthPart
<1> USE DEF AccountInv, handlerVars, indexVars, tokenVars, registryVars, ghostVars
<1>1. CASE Tick
  BY <1>1, KeptParts DEF Tick, KeptTickets
<1>2. CASE LoseRegistry
  BY <1>2, KeptParts DEF LoseRegistry, Save, KeptTickets
<1>3. ASSUME NEW u \in User, NEW e \in Email, LocalRegister(u, e)
      PROVE  KeptTickets
  BY <1>3 DEF LocalRegister, Save, KeptTickets
<1>4. ASSUME NEW n \in Pair, SignedIn(n)
      PROVE  KeptTickets
  BY <1>4 DEF SignedIn, HandOut, KeptTickets
<1>5. ASSUME NEW e \in Email, LocalLogin(e) \/ WrongPassword(e)
      PROVE  KeptTickets
  BY <1>5 DEF LocalLogin, WrongPassword, Save, KeptTickets
<1>6. CASE CutShort
  BY <1>6, KeptParts DEF CutShort, KeptTickets
<1>7. ASSUME NEW e \in Email, NEW q \in Reset, ResetRequest(e, q)
      PROVE  ResetPart /\ OauthPart
  <2> DEFINE entry == [state |-> "open", user |-> emailIndex[e], exp |-> now + ResetTTL]
  <2>1. \A r \in Reset : reset'[r] = IF r = q THEN entry ELSE KeptResets[r]
    BY <1>7, KeptTypes DEF ResetRequest, Save
  <2>2. /\ handed' = handed \cup {<<"reset", q>>} /\ <<"reset", q>> \notin handed
        /\ now' = now /\ emailIndex[e] # None /\ oauth' = KeptStates
    BY <1>7 DEF ResetRequest, Save, HandOut
  <2>3. entry.state = "open" /\ entry.user = emailIndex[e] /\ entry.exp > now
    BY TTLAssumption DEF TypeOK
  <2> HIDE DEF entry
  <2>4. ResetPart
    BY <2>1, <2>2, <2>3 DEF ResetPart, KeptResets, NoReset
  <2>5. OauthPart
    BY <2>2 DEF OauthPart, KeptStates
  <2>6. QED
    BY <2>4, <2>5
<1>8. ASSUME NEW q \in Reset, ResetConfirm(q)
      PROVE  ResetPart /\ OauthPart
  <2>1. /\ \A r \in Reset : r # q => reset'[r] = KeptResets[r]
        /\ reset'[q].state = "used"
    BY <1>8, KeptTypes DEF ResetConfirm, Save, MarkUsed, Resets
  <2>2. handed' = handed /\ oauth' = KeptStates
    BY <1>8 DEF ResetConfirm, Save
  <2>3. QED
    BY <2>1, <2>2 DEF ResetPart, OauthPart, KeptResets, KeptStates, NoReset
<1>9. ASSUME NEW s \in Subject, NEW e \in Email, NEW u \in User, NEW n \in Pair,
             Login(s, e, u, n)
      PROVE  KeptTickets
  BY <1>9 DEF Login, StoreSession, HandOut, Save, KeptTickets
<1>10. ASSUME NEW o \in OState, OauthBegin(o)
       PROVE  ResetPart /\ OauthPart
  <2>1. /\ handed' = handed \cup {<<"oauth", o>>} /\ <<"oauth", o>> \notin handed
        /\ now' = now /\ reset' = KeptResets
        /\ oauth' = [KeptStates EXCEPT ![o] = now + StateTTL]
    BY <1>10 DEF OauthBegin, Save, HandOut
  <2>2. /\ oauth'[o] > now'
        /\ \A x \in OState \ {o} : oauth'[x] = KeptStates[x]
    BY <2>1, KeptTypes, TTLAssumption DEF TypeOK
  <2>3. ResetPart
    BY <2>1 DEF ResetPart, KeptResets, NoReset
  <2>4. OauthPart
    BY <2>1, <2>2 DEF OauthPart, KeptStates
  <2>5. QED
    BY <2>3, <2>4
<1>11. ASSUME NEW o \in OState, OauthCallbackFails(o)
       PROVE  KeptTickets
  <2>1. \A x \in OState : oauth'[x] \in {KeptStates[x], 0}
    BY <1>11, KeptTypes DEF OauthCallbackFails, TakeState, Save
  <2>2. QED
    BY <1>11, <2>1 DEF OauthCallbackFails, Save, KeptTickets
<1>12. ASSUME NEW o \in OState, NEW s \in Subject, NEW e \in Email, NEW u \in User,
              NEW n \in Pair, OauthCallback(o, s, e, u, n)
       PROVE  KeptTickets
  <2>1. \A x \in OState : oauth'[x] \in {KeptStates[x], 0}
    BY <1>12, KeptTypes DEF OauthCallback, StoreSession, TakeState, Save
  <2>2. QED
    BY <1>12, <2>1 DEF OauthCallback, StoreSession, HandOut, Save, KeptTickets
<1>13. ASSUME NEW n \in Pair, NEW m \in Pair, Refresh(n, m)
       PROVE  KeptTickets
  BY <1>13 DEF Refresh, HandOut, Save, KeptTickets
<1>14. ASSUME NEW ts \in Presented, Logout(ts)
       PROVE  KeptTickets
  BY <1>14 DEF Logout, Save, KeptTickets
<1>15. ASSUME NEW u \in User, DeleteUser(u)
       PROVE  KeptTickets
  BY <1>15 DEF DeleteUser, Save, KeptTickets
<1>16. QED
  BY KeptParts, <1>1, <1>2, <1>3, <1>4, <1>5, <1>6, <1>7, <1>8, <1>9, <1>10, <1>11, <1>12,
     <1>13, <1>14, <1>15 DEF Next, Handler

\* Accounts do not go but with the registry, and do not come back after it.
LEMMA KindStep ==
    ASSUME TypeOK, [Next]_vars, ~LoseRegistry, NEW u \in User, account[u].kind # "none"
    PROVE  account'[u].kind = account[u].kind
<1>k. account[u].kind # "none"
  OBVIOUS
<1>1. CASE UNCHANGED account
  BY <1>1
<1>2. ASSUME NEW v, Forgive(v)
      PROVE  account'[u].kind = account[u].kind
  <2>1. account' = [w \in User |-> IF w = v THEN [account[w] EXCEPT !.failed = 0, !.lockUntil = 0]
                                   ELSE account[w]]
    BY <1>2 DEF TypeOK, Forgive
  <2>2. QED
    BY <2>1 DEF TypeOK, Accounts
<1>3. ASSUME NEW v \in User, NEW e \in Email, AddLocal(v, e)
      PROVE  account'[u].kind = account[u].kind
  BY <1>3, <1>k DEF TypeOK, AddLocal
<1>4. ASSUME NEW s \in Subject, NEW e \in Email, NEW v \in User, EnsureUser(s, e, v)
      PROVE  account'[u].kind = account[u].kind
  <2>1. CASE account' = [account EXCEPT ![v].email = e]
    BY <2>1 DEF TypeOK, Accounts
  <2>2. CASE account[v].kind = "none" /\ account' =
                [account EXCEPT ![v] = [NoAccount EXCEPT !.kind = "cloud", !.email = e]]
    BY <1>k, <2>2 DEF TypeOK
  <2>3. QED
    BY <1>4, <2>1, <2>2 DEF EnsureUser
<1>5. ASSUME NEW e \in Email, WrongPassword(e)
      PROVE  account'[u].kind = account[u].kind
  BY <1>5 DEF WrongPassword, TypeOK, Accounts
<1>6. ASSUME NEW v \in User, DeleteUser(v)
      PROVE  account'[u].kind = account[u].kind
  BY <1>6 DEF DeleteUser, TypeOK, Accounts
<1>7. CASE UNCHANGED vars \/ Tick \/ CutShort \/ \E n \in Pair : SignedIn(n)
  BY <1>1, <1>7 DEF vars, Tick, CutShort, SignedIn, handlerVars
<1>8. CASE \/ \E e \in Email, r \in Reset : ResetRequest(e, r)
           \/ \E o \in OState : OauthBegin(o) \/ OauthCallbackFails(o)
           \/ \E n, m \in Pair : Refresh(n, m)
           \/ \E ts \in Presented : Logout(ts)
  BY <1>1, <1>8 DEF ResetRequest, OauthBegin, OauthCallbackFails, Refresh, Logout
<1>9. CASE \E v \in User, e \in Email : LocalRegister(v, e)
  BY <1>3, <1>9 DEF LocalRegister
<1>10. CASE \/ \E e \in Email : LocalLogin(e)
            \/ \E r \in Reset : ResetConfirm(r)
  BY <1>2, <1>10 DEF LocalLogin, ResetConfirm
<1>11. CASE \/ \E s \in Subject, e \in Email, v \in User, n \in Pair : Login(s, e, v, n)
            \/ \E o \in OState, s \in Subject, e \in Email, v \in User, n \in Pair :
                   OauthCallback(o, s, e, v, n)
  BY <1>4, <1>11 DEF Login, OauthCallback
<1>12. QED
  BY <1>5, <1>6, <1>7, <1>8, <1>9, <1>10, <1>11 DEF Next, Handler

\* Only the loss of the registry counts as one.
LEMMA LossStep ==
    ASSUME [Next]_vars, ~LoseRegistry
    PROVE  losses' = losses
BY DEF Next, Handler, vars, Tick, LocalRegister, LocalLogin, SignedIn, CutShort,
   WrongPassword, ResetRequest, ResetConfirm, Login, OauthBegin, OauthCallbackFails,
   OauthCallback, Refresh, Logout, DeleteUser

LEMMA TicketStep == AccountInv /\ TicketInv /\ [Next]_vars => TicketInv'
<1> SUFFICES ASSUME AccountInv, TicketInv, [Next]_vars PROVE TicketInv'
  OBVIOUS
<1>1. CASE UNCHANGED vars
  BY <1>1 DEF vars, handlerVars, tokenVars, registryVars, ghostVars, TicketInv, Exists
<1>2. CASE Next
  <2>1. \A n \in Pair : <<"refresh", n>> \in handed' <=> holder'[n] # None
    BY <1>2, RefreshStep DEF RefreshPart, TicketInv
  <2>2. ASSUME NEW r \in Reset, reset'[r].state = "open"
        PROVE  /\ <<"reset", r>> \in handed'
               /\ reset'[r].user \in User /\ Exists(reset[r].user)'
    <3>1. ~LoseRegistry
      BY <2>2 DEF LoseRegistry, Save, NoReset
    <3>2. ResetPart
      BY <1>2, ResetOauthStep
    <3>3. CASE reset'[r] = reset[r]
      <4>1. <<"reset", r>> \in handed /\ reset[r].user \in User /\ Exists(reset[r].user)
        BY <2>2, <3>3 DEF TicketInv
      <4>2. account'[reset[r].user].kind \in {"local", "cloud"}
        BY <3>1, <4>1, KindStep DEF Exists, AccountInv
      <4>3. QED
        BY <3>2, <3>3, <4>1, <4>2 DEF ResetPart, Exists
    <3>4. CASE /\ <<"reset", r>> \in handed'
               /\ \E e \in Email : emailIndex[e] # None /\ reset'[r].user = emailIndex[e]
      <4>1. PICK e \in Email : emailIndex[e] # None /\ reset'[r].user = emailIndex[e]
        BY <3>4
      <4>2. emailIndex[e] \in User /\ Exists(emailIndex[e])
        BY <4>1 DEF AccountInv, TypeOK, IndexSound, Exists
      <4>3. account'[emailIndex[e]].kind \in {"local", "cloud"}
        BY <3>1, <4>2, KindStep DEF Exists, AccountInv
      <4>4. QED
        BY <3>4, <4>1, <4>2, <4>3 DEF Exists
    <3>5. QED
      BY <2>2, <3>2, <3>3, <3>4 DEF ResetPart
  <2>3. \A o \in OState : oauth'[o] # 0 => <<"oauth", o>> \in handed'
    BY <1>2, ResetOauthStep DEF OauthPart, TicketInv
  <2>4. QED
    BY <2>1, <2>2, <2>3 DEF TicketInv
<1>3. QED
  BY <1>1, <1>2

-----------------------------------------------------------------------------
(* The registry keeps the promise of SingleUse.                            *)

Inv ==
    /\ AccountInv /\ SigningSound
    /\ RevokedAgree /\ RevokedNotLive
    /\ LockSound /\ TicketInv

LEMMA InvInit == Init => Inv
<1> SUFFICES ASSUME Init PROVE Inv
  OBVIOUS
<1>1. AccountInv
  BY TypeInit DEF AccountInv, Init, IndexSound, ProviderSound, NoSessionForDeleted
<1>2. RevokedAgree /\ RevokedNotLive /\ SigningSound
  BY DEF Init, RevokedAgree, RevokedNotLive, SigningSound
<1>3. LockSound
  BY TTLAssumption DEF Init, LockSound, NoAccount
<1>4. TicketInv
  BY DEF Init, TicketInv, NoReset
<1>5. QED
  BY <1>1, <1>2, <1>3, <1>4 DEF Inv

LEMMA InvStep == Inv /\ [Next]_vars => Inv'
BY AccountStep, SigningStep, RevokedStep, RevokedNotLiveStep, LockStep, TicketStep
DEF Inv, AccountInv

\* A reset token or a state that is handed out can be used at first.
LEMMA NewTicketUsable ==
    ASSUME Inv, Inv', Next, NEW t \in Ticket, t[1] # "refresh", t \notin handed, t \in handed'
    PROVE  Usable(t)'
<1>0. now' \in Nat
  BY DEF Inv, AccountInv, TypeOK
<1>1. ASSUME NEW r \in Reset, t = <<"reset", r>>
      PROVE  Usable(t)'
  <2>1. reset'[r].state = "open" /\ reset'[r].exp > now'
    BY <1>1, ResetOauthStep DEF Inv, ResetPart
  <2>2. KeptResets'[r] = reset'[r] /\ Exists(reset[r].user)'
    BY <2>1 DEF KeptResets, Inv, TicketInv
  <2>3. KeptResets'[r].state = "open" /\ Exists(KeptResets[r].user)'
    BY <2>1, <2>2 DEF Exists
  <2>4. QED
    BY <1>1, <2>3 DEF Usable
<1>2. ASSUME NEW o \in OState, t = <<"oauth", o>>
      PROVE  Usable(t)'
  <2>1. oauth'[o] > now' /\ oauth'[o] \in Nat
    BY <1>2, ResetOauthStep DEF Inv, OauthPart, AccountInv, TypeOK
  <2>2. KeptStates'[o] # 0
    BY <1>0, <2>1 DEF KeptStates
  <2>3. QED
    BY <1>2, <2>2 DEF Usable
<1>3. QED
  BY <1>1, <1>2 DEF Ticket

\* A ticket that can be used after a step could be used before it.
LEMMA UsableBefore ==
    ASSUME Inv, Inv', Next, NEW t \in Ticket, t \in handed, Usable(t)'
    PROVE  Usable(t)
<1>0. now \in Nat /\ now' \in Nat /\ now' >= now
  BY TimePasses DEF Inv, AccountInv, TypeOK
<1>1. ASSUME NEW n \in Pair, t = <<"refresh", n>>
      PROVE  Usable(t)
  <2>1. t \in Token /\ t[2] = n /\ holder[n] # None
    BY <1>1 DEF Token, Inv, TicketInv
  <2>2. Accepted(t)' /\ KeptSessions'[n] = "live"
    BY <1>1 DEF Usable, Refreshable
  <2>3. session'[n] = "live"
    BY <2>2 DEF KeptSessions
  <2>4. session[n] = "live"
    BY <2>1, <2>3, RefreshStep DEF Inv, RefreshPart
  <2>5. ~LoseRegistry
    BY <2>3 DEF LoseRegistry, Save
  <2>6. holder'[n] = holder[n] /\ exp'[t] = exp[t]
    BY <2>1, <2>5, TokenStep DEF Inv, TokensKept
  <2>7. Exists(holder[n]) /\ ~account[holder[n]].revoked
    <3>1. /\ holder[n] \in User
          /\ account[holder[n]].kind # "none" /\ ~account[holder[n]].revoked
      BY <2>1, <2>4 DEF Inv, AccountInv, TypeOK, NoSessionForDeleted
    <3>2. account'[holder[n]].kind = account[holder[n]].kind
      BY <2>5, <3>1, KindStep DEF Inv, AccountInv
    <3>3. account'[holder'[n]].kind \in {"local", "cloud"}
      BY <1>1 DEF Usable, Refreshable, Exists
    <3>4. QED
      BY <2>6, <3>1, <3>2, <3>3 DEF Exists
  <2>8. Accepted(t) /\ exp[t] > now
    <3>1. exp[t] > now
      BY <1>0, <2>1, <2>2, <2>6 DEF Accepted, AcceptedAt, Inv, AccountInv, TypeOK
    <3>2. revokedJti[t] = 0
      BY <1>1, <2>4 DEF Inv, RevokedNotLive
    <3>3. AcceptedAt(t, now) /\ now \in Readings
      BY <2>1, <3>1, <3>2 DEF AcceptedAt, RevokedAt, Readings
    <3>4. QED
      BY <3>1, <3>3 DEF Accepted
  <2>9. Refreshable(n)
    BY <1>1, <2>4, <2>7, <2>8 DEF Refreshable, KeptSessions
  <2>10. QED
    BY <1>1, <2>9 DEF Usable
<1>2. ASSUME NEW r \in Reset, t = <<"reset", r>>
      PROVE  Usable(t)
  <2>1. KeptResets'[r].state = "open"
    BY <1>2 DEF Usable
  <2>2. reset'[r].state = "open" /\ reset'[r].exp > now'
    BY <2>1 DEF KeptResets, NoReset
  <2>3. reset[r] = reset'[r]
    BY <1>2, <2>2, ResetOauthStep DEF Inv, ResetPart
  <2>4. reset'[r].exp \in Nat
    BY DEF Inv, AccountInv, TypeOK, Resets
  <2>5. reset[r].state = "open" /\ reset[r].exp > now
    BY <1>0, <2>2, <2>3, <2>4
  <2>6. KeptResets[r] = reset[r] /\ Exists(reset[r].user)
    BY <2>5 DEF KeptResets, Inv, TicketInv
  <2>7. KeptResets[r].state = "open" /\ Exists(KeptResets[r].user)
    BY <2>5, <2>6
  <2>8. QED
    BY <1>2, <2>7 DEF Usable
<1>3. ASSUME NEW o \in OState, t = <<"oauth", o>>
      PROVE  Usable(t)
  <2>1. KeptStates'[o] # 0
    BY <1>3 DEF Usable
  <2>2. oauth'[o] > now' /\ oauth'[o] \in Nat
    BY <2>1 DEF KeptStates, Inv, AccountInv, TypeOK
  <2>3. oauth[o] = oauth'[o]
    BY <1>0, <1>3, <2>2, ResetOauthStep DEF Inv, OauthPart
  <2>4. KeptStates[o] # 0
    BY <1>0, <2>2, <2>3 DEF KeptStates
  <2>5. QED
    BY <1>3, <2>4 DEF Usable
<1>4. QED
  BY <1>1, <1>2, <1>3 DEF Ticket

LEMMA HandedGrows ==
    ASSUME Inv, Next, NEW t \in Ticket, t \in handed
    PROVE  t \in handed'
<1>1. RefreshPart /\ ResetPart /\ OauthPart
  BY RefreshStep, ResetOauthStep DEF Inv
<1>2. QED
  BY <1>1 DEF Ticket, RefreshPart, ResetPart, OauthPart

\* What a redemption is, in terms of the registry.
Spent(t) ==
    /\ t \in Ticket /\ t \in handed /\ t \in handed'
    /\ Usable(t) /\ ~Usable(t)'
    /\ uses' = [uses EXCEPT ![t] = @ + 1]

\* Every step that uses a ticket spends one that could be used.
LEMMA UseSpends ==
    ASSUME Inv, Inv', Next
    PROVE  uses' = uses \/ \E t \in Ticket : Spent(t)
<1>1. ASSUME NEW r \in Reset, ResetConfirm(r)
      PROVE  Spent(<<"reset", r>>)
  <2>1. KeptResets[r].state = "open" /\ Exists(KeptResets[r].user)
    BY <1>1 DEF ResetConfirm
  <2>2. <<"reset", r>> \in handed /\ handed' = handed
    BY <1>1, <2>1 DEF ResetConfirm, KeptResets, NoReset, Inv, TicketInv
  <2>3. reset'[r].state = "used"
    BY <1>1, KeptTypes DEF ResetConfirm, Save, MarkUsed, Resets, Inv, AccountInv
  <2>4. KeptResets'[r].state # "open"
    BY <2>3 DEF KeptResets, NoReset
  <2>5. Usable(<<"reset", r>>) /\ ~Usable(<<"reset", r>>)'
    BY <2>1, <2>4 DEF Usable
  <2>6. QED
    BY <1>1, <2>2, <2>5 DEF Spent, Ticket, ResetConfirm, Use
<1>2. ASSUME NEW o \in OState, KeptStates[o] # 0, Use(<<"oauth", o>>), oauth' = TakeState(o)
      PROVE  Spent(<<"oauth", o>>)
  <2>1. <<"oauth", o>> \in Ticket /\ <<"oauth", o>> \in handed
    BY <1>2 DEF Ticket, KeptStates, Inv, TicketInv
  <2>2. oauth'[o] = 0
    BY <1>2, KeptTypes DEF TakeState, Inv, AccountInv
  <2>3. KeptStates'[o] = 0
    BY <2>2 DEF KeptStates
  <2>4. Usable(<<"oauth", o>>) /\ ~Usable(<<"oauth", o>>)'
    BY <1>2, <2>3 DEF Usable
  <2>5. QED
    BY <1>2, <2>1, <2>4, HandedGrows DEF Spent, Use
<1>3. ASSUME NEW n \in Pair, NEW m \in Pair, Refresh(n, m)
      PROVE  Spent(<<"refresh", n>>)
  <2>1. Refreshable(n) /\ holder[n] # None /\ holder[m] = None
    BY <1>3 DEF Refresh, Refreshable, Accepted, AcceptedAt, Issue, NextPair
  <2>2. <<"refresh", n>> \in Ticket /\ <<"refresh", n>> \in handed
    BY <2>1 DEF Ticket, Inv, TicketInv
  <2>3. session'[n] = "revoked"
    BY <1>3, <2>1, KeptTypes DEF Refresh, Save, Inv, AccountInv
  <2>4. KeptSessions'[n] # "live"
    BY <2>3 DEF KeptSessions
  <2>5. Usable(<<"refresh", n>>) /\ ~Usable(<<"refresh", n>>)'
    BY <2>1, <2>4 DEF Usable, Refreshable
  <2>6. QED
    BY <1>3, <2>2, <2>5, HandedGrows DEF Spent, Use, Refresh
<1>4. \/ uses' = uses
      \/ \E r \in Reset : ResetConfirm(r)
      \/ \E o \in OState : KeptStates[o] # 0 /\ Use(<<"oauth", o>>) /\ oauth' = TakeState(o)
      \/ \E n, m \in Pair : Refresh(n, m)
  BY DEF Next, Handler, Tick, LoseRegistry, LocalRegister, LocalLogin, SignedIn, CutShort,
     WrongPassword, ResetRequest, Login, OauthBegin, OauthCallbackFails, OauthCallback,
     StoreSession, Save, Logout, DeleteUser, handlerVars, ghostVars
<1>5. QED
  BY <1>1, <1>2, <1>3, <1>4 DEF Spent

LEMMA OnceInit == Init => Once!Init
BY DEF Init, Once!Init, Phase

LEMMA OnceStep ==
    ASSUME Inv, Inv', Next
    PROVE  Once!Next
<1>1. DOMAIN Phase' = Ticket
  BY DEF Phase
<1>2. \A t \in Ticket :
          /\ Phase[t] = IF t \notin handed THEN "unissued"
                        ELSE IF Usable(t) THEN "live" ELSE "dead"
          /\ Phase'[t] = IF t \notin handed' THEN "unissued"
                         ELSE IF Usable(t)' THEN "live" ELSE "dead"
  BY DEF Phase
<1>3. \A t \in Ticket : Phase'[t] \in Once!Onward(t, Phase[t])
  <2> SUFFICES ASSUME NEW t \in Ticket PROVE Phase'[t] \in Once!Onward(t, Phase[t])
    OBVIOUS
  <2>0. t[1] = "refresh" => t \in {"refresh"} \X Pair
    BY DEF Ticket
  <2>1. CASE t \notin handed
    BY <1>2, <2>0, <2>1, NewTicketUsable DEF Once!Onward
  <2>2. CASE t \in handed
    BY <1>2, <2>2, UsableBefore, HandedGrows DEF Once!Onward
  <2>3. QED
    BY <2>1, <2>2
<1>4. Once!Age \/ \E t \in Ticket : Once!Redeem(t)
  <2>1. CASE uses' = uses
    BY <2>1 DEF Once!Age
  <2>2. ASSUME NEW t \in Ticket, Spent(t)
        PROVE  Once!Redeem(t)
    BY <1>2, <2>2 DEF Spent, Once!Redeem
  <2>3. QED
    BY <2>1, <2>2, UseSpends
<1>5. QED
  BY <1>1, <1>3, <1>4 DEF Once!Next

-----------------------------------------------------------------------------
(* Theorems.                                                               *)

THEOREM AccountsInvariant == Spec => []Inv
BY InvInit, InvStep, PTL DEF Spec

\* The registry keeps its shape.
THEOREM AccountsTypeCorrect == Spec => []TypeOK
<1>1. Inv => TypeOK
  BY DEF Inv, AccountInv
<1>2. QED
  BY <1>1, AccountsInvariant, PTL

\* An address signs in to the local account that has it, and never to a deleted one.
THEOREM IndexIsSound == Spec => []IndexSound
<1>1. Inv => IndexSound
  BY DEF Inv, AccountInv
<1>2. QED
  BY <1>1, AccountsInvariant, PTL

\* Nobody goes on as a deleted account, also when the registry is lost under a sign-in.
THEOREM DeletedHaveNoSession == Spec => []NoSessionForDeleted
<1>1. Inv => NoSessionForDeleted
  BY DEF Inv, AccountInv
<1>2. QED
  BY <1>1, AccountsInvariant, PTL

\* Beyond the limit, a wrong password costs a lock period.
THEOREM GuessesAreBounded == Spec => []GuessesBounded
<1>1. Inv => GuessesBounded
  BY LockBoundsGuesses DEF Inv, AccountInv
<1>2. QED
  BY <1>1, AccountsInvariant, PTL

\* While the registry is not lost, a token that was refused stays refused, but by a
\* request during which it expires.
THEOREM RefusedStaysRefused == Spec => NeverAcceptedAgain
<1> DEFINE Keeps == losses' = losses =>
               \A t \in Token : holder[t[2]] # None /\ ~AcceptedAt(t, now) =>
                   \A late \in Readings' : exp[t] > late => ~AcceptedAt(t, late)'
<1>1. Inv /\ Inv' /\ [Next]_vars => [Keeps]_vars
  BY RefusedStep DEF Inv, AccountInv
<1>2. QED
  BY <1>1, AccountsInvariant, PTL DEF Spec, NeverAcceptedAgain

\* Refresh tokens, reset tokens and OAuth states are used at most once, and are
\* dead from then on.
THEOREM TicketsAreSingleUse == Spec => SingleUseTickets
<1>1. Inv /\ Inv' /\ [Next]_vars => [Once!Next]_<<Phase, uses>>
  <2> SUFFICES ASSUME Inv, Inv', [Next]_vars PROVE [Once!Next]_<<Phase, uses>>
    OBVIOUS
  <2>1. CASE UNCHANGED vars
    <3>1. Phase' = Phase /\ uses' = uses
      BY <2>1 DEF vars, handlerVars, indexVars, tokenVars, registryVars, ghostVars, Phase,
         Usable, Refreshable, Accepted, AcceptedAt, Readings, RevokedAt, Unexpired,
         KeptSessions, KeptResets, KeptStates, Exists
    <3>2. QED
      BY <3>1
  <2>2. QED
    BY <2>1, OnceStep
<1>2. QED
  BY <1>1, OnceInit, AccountsInvariant, PTL DEF Spec, SingleUseTickets, Once!Spec

\* So no refresh token, reset token or OAuth state is redeemed twice: not by two
\* requests with the same one, not after a restart, and not after the registry was
\* lost and built anew.
THEOREM RedeemedOnce == Spec => []Once!AtMostOnce
<1>1. Once!Init => Once!AtMostOnce
  BY DEF Once!Init, Once!AtMostOnce
<1>2. Once!AtMostOnce /\ [Once!Next]_<<Phase, uses>> => Once!AtMostOnce'
  <2> SUFFICES ASSUME Once!AtMostOnce, [Once!Next]_<<Phase, uses>>
               PROVE  Once!AtMostOnce'
    OBVIOUS
  <2>1. CASE UNCHANGED <<Phase, uses>>
    BY <2>1 DEF Once!AtMostOnce
  <2>2. ASSUME NEW t \in Ticket, Phase[t] = "dead", Once!Next
        PROVE  Phase'[t] = "dead"
    BY <2>2 DEF Once!Next, Once!Onward
  <2>3. CASE Once!Next /\ Once!Age
    BY <2>2, <2>3 DEF Once!Age, Once!AtMostOnce
  <2>4. ASSUME Once!Next, NEW t \in Ticket, Once!Redeem(t)
        PROVE  Once!AtMostOnce'
    <3>1. /\ uses' = [uses EXCEPT ![t] = uses[t] + 1]
          /\ Phase[t] = "live" /\ Phase'[t] = "dead"
      BY <2>4 DEF Once!Redeem
    <3>2. uses \in [Ticket -> {0, 1}] /\ uses[t] # 1
      BY <3>1 DEF Once!AtMostOnce
    <3>3. uses[t] + 1 = 1
      BY <3>2
    <3>4. uses' = [uses EXCEPT ![t] = 1]
      BY <3>1, <3>3
    <3>5. QED
      BY <2>2, <2>4, <3>1, <3>2, <3>4 DEF Once!AtMostOnce
  <2>5. QED
    BY <2>1, <2>3, <2>4 DEF Once!Next
<1>3. QED
  BY <1>1, <1>2, TicketsAreSingleUse, PTL DEF SingleUseTickets, Once!Spec

=============================================================================
