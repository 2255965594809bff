---------------------------- MODULE AuthSessions ----------------------------
(***************************************************************************)
(* One account of the identity service (modules/auth and modules/users):   *)
(* the login counter in Redis that locks it, its refresh tokens with their *)
(* rows and their Redis blacklist, and the account itself.  Requests are   *)
(* split at their awaits.  Access tokens are signed, kept nowhere, and end *)
(* by themselves after fifteen minutes; they are not part of the state.    *)
(***************************************************************************)
EXTENDS Integers, FiniteSets

CONSTANTS
    Requests,       \* the requests that may be in flight at once
    Tokens,         \* the refresh tokens logins may create: a bound
    MaxAttempts,    \* app.rateLimit.loginMaxAttempts
    MaxFaults       \* bound: failing calls and crashes

ASSUME AuthAssumption ==
    /\ IsFiniteSet(Requests) /\ Tokens # {}
    /\ MaxAttempts \in Nat \ {0} /\ MaxFaults \in Nat

VARIABLES
    attempts,     \* Redis: login_attempts:<email>, 0 when there is no key
    armed,        \* the key has a time to live
    account,      \* the row of table users
    rows,         \* table refresh_tokens
    expired,      \* refresh tokens past their expires_at
    blacklist,    \* Redis: the keys revoked:<hash>
    req,          \* the requests
    faults,       \* faults so far
    stuck,        \* history: a request died between INCR and EXPIRE of this key
    loggedOut     \* history: tokens with a logout that was answered

redis == <<attempts, armed, blacklist>>
tables == <<account, rows, expired>>
vars == <<redis, tables, req, faults, stuck, loggedOut>>

AToken == CHOOSE t \in Tokens : TRUE
Steps == {"idle", "find", "incr", "expire", "clear", "issue", "lastLogin", "create",
          "load", "sign", "revoke", "blacklist", "saveUser"}
\* late: the token was already logged out when the refresh began.
Request == [pc : Steps, password : BOOLEAN, token : Tokens, late : BOOLEAN,
            copy : {"active", "inactive"}]
Idle == [pc |-> "idle", password |-> FALSE, token |-> AToken, late |-> FALSE,
         copy |-> "active"]

Init ==
    /\ attempts = 0 /\ armed = FALSE
    /\ account = "none"
    /\ rows = [t \in Tokens |-> "none"]
    /\ expired = {} /\ blacklist = {}
    /\ req = [r \in Requests |-> Idle]
    /\ faults = 0 /\ stuck = FALSE /\ loggedOut = {}

Begin(r, pc) == req[r].pc = "idle" /\ req' = [req EXCEPT ![r] = [Idle EXCEPT !.pc = pc]]
At(r, pc) == req[r].pc = pc
Goto(r, pc) == req' = [req EXCEPT ![r].pc = pc]
Finish(r) == req' = [req EXCEPT ![r] = Idle]

-----------------------------------------------------------------------------
(* validateCredentials and login.                                          *)

\* Mutant: one attempt too many.
BlockedAbove(n) == n > MaxAttempts
Blocked(n) == n >= MaxAttempts

Login(r, password) ==
    /\ At(r, "idle") /\ ~Blocked(attempts)
    /\ req' = [req EXCEPT ![r] = [Idle EXCEPT !.pc = "find", !.password = password]]
    /\ UNCHANGED <<redis, tables, faults, stuck, loggedOut>>

FindUser(r) ==
    /\ At(r, "find")
    /\ Goto(r, IF account = "active" /\ req[r].password THEN "clear" ELSE "incr")
    /\ UNCHANGED <<redis, tables, faults, stuck, loggedOut>>

\* Mutant: the key never gets a time to live.
IncrNoExpiry(r) ==
    /\ At(r, "incr")
    /\ attempts' = attempts + 1
    /\ Finish(r)
    /\ UNCHANGED <<armed, blacklist, tables, faults, stuck, loggedOut>>

\* incrementLoginAttempts: INCR, then EXPIRE if the key is new.
Incr(r) ==
    /\ At(r, "incr")
    /\ attempts' = attempts + 1
    /\ IF attempts + 1 = 1 THEN Goto(r, "expire") ELSE Finish(r)
    /\ UNCHANGED <<armed, blacklist, tables, faults, stuck, loggedOut>>

SetExpiry(r) ==
    /\ At(r, "expire")
    /\ armed' = (attempts > 0)
    /\ Finish(r)
    /\ UNCHANGED <<attempts, blacklist, tables, faults, stuck, loggedOut>>

\* Redis drops the key when its time is over.
Unlock ==
    /\ armed
    /\ attempts' = 0 /\ armed' = FALSE /\ stuck' = FALSE
    /\ UNCHANGED <<blacklist, tables, req, faults, loggedOut>>

ClearAttempts(r) ==
    /\ At(r, "clear")
    /\ attempts' = 0 /\ armed' = FALSE /\ stuck' = FALSE
    /\ Goto(r, "issue")
    /\ UNCHANGED <<blacklist, tables, faults, loggedOut>>

\* issueTokens stores the refresh token's row,
IssueTokens(r, t) ==
    /\ At(r, "issue") /\ rows[t] = "none"
    /\ rows' = [rows EXCEPT ![t] = "valid"]
    /\ req' = [req EXCEPT ![r].pc = "lastLogin", ![r].token = t]
    /\ UNCHANGED <<redis, account, expired, faults, stuck, loggedOut>>

\* and the answer follows updateLastLogin.
LoginAnswer(r) ==
    /\ At(r, "lastLogin")
    /\ Finish(r)
    /\ UNCHANGED <<redis, tables, faults, stuck, loggedOut>>

\* register: the email is free, then the insert, which its unique key may refuse.
Register(r) ==
    /\ account = "none" /\ Begin(r, "create")
    /\ UNCHANGED <<redis, tables, faults, stuck, loggedOut>>

CreateUser(r) ==
    /\ At(r, "create")
    /\ IF account = "none" THEN account' = "active" /\ Goto(r, "issue")
                           ELSE UNCHANGED account /\ Finish(r)
    /\ UNCHANGED <<redis, rows, expired, faults, stuck, loggedOut>>

-----------------------------------------------------------------------------
(* refreshAccessToken and logout.                                          *)

Refresh(r, t) ==
    /\ At(r, "idle") /\ rows[t] # "none" /\ t \notin blacklist
    /\ req' = [req EXCEPT ![r] = [Idle EXCEPT !.pc = "load", !.token = t,
                                              !.late = (t \in loggedOut)]]
    /\ UNCHANGED <<redis, tables, faults, stuck, loggedOut>>

\* Mutant: the blacklist is trusted to know every revoked token.
IsValidUnlessExpired(t) == t \notin expired
IsValid(t) == t \notin expired /\ rows[t] = "valid"

RefreshLoad(r) ==
    /\ At(r, "load")
    /\ IF IsValid(req[r].token) /\ account = "active" THEN Goto(r, "sign") ELSE Finish(r)
    /\ UNCHANGED <<redis, tables, faults, stuck, loggedOut>>

\* A new access token is signed and returned.
RefreshSign(r) ==
    /\ At(r, "sign")
    /\ Finish(r)
    /\ UNCHANGED <<redis, tables, faults, stuck, loggedOut>>

\* A token that is already revoked needs nothing more and is answered.
Logout(r, t) ==
    /\ At(r, "idle") /\ rows[t] # "none"
    /\ IF rows[t] = "valid"
         THEN /\ req' = [req EXCEPT ![r] = [Idle EXCEPT !.pc = "revoke", !.token = t]]
              /\ UNCHANGED loggedOut
         ELSE loggedOut' = loggedOut \cup {t} /\ UNCHANGED req
    /\ UNCHANGED <<redis, tables, faults, stuck>>

LogoutRevoke(r) ==
    /\ At(r, "revoke")
    /\ rows' = [rows EXCEPT ![req[r].token] = "revoked"]
    /\ Goto(r, "blacklist")
    /\ UNCHANGED <<redis, account, expired, faults, stuck, loggedOut>>

\* No key is set for a token without time left.
LogoutBlacklist(r) ==
    LET t == req[r].token
    IN  /\ At(r, "blacklist")
        /\ blacklist' = IF t \in expired THEN blacklist ELSE blacklist \cup {t}
        /\ loggedOut' = loggedOut \cup {t}
        /\ Finish(r)
        /\ UNCHANGED <<attempts, armed, tables, faults, stuck>>

\* The key's time to live is rounded down to whole seconds, so it ends first.
BlacklistEnds(t) ==
    /\ t \in blacklist
    /\ blacklist' = blacklist \ {t}
    /\ UNCHANGED <<attempts, armed, tables, req, faults, stuck, loggedOut>>

TokenExpires(t) ==
    /\ rows[t] # "none" /\ t \notin expired
    /\ expired' = expired \cup {t}
    /\ UNCHANGED <<redis, account, rows, req, faults, stuck, loggedOut>>

-----------------------------------------------------------------------------
(* usersService.update and softDelete load the row and save their copy.    *)

UpdateUser(r, copy) ==
    /\ account # "none" /\ At(r, "idle")
    /\ req' = [req EXCEPT ![r] = [Idle EXCEPT !.pc = "saveUser", !.copy = copy]]
    /\ UNCHANGED <<redis, tables, faults, stuck, loggedOut>>

SaveUser(r) ==
    /\ At(r, "saveUser")
    /\ account' = req[r].copy
    /\ Finish(r)
    /\ UNCHANGED <<redis, rows, expired, faults, stuck, loggedOut>>

\* A call fails or the process dies.
Abort(r) ==
    /\ ~At(r, "idle") /\ faults < MaxFaults
    /\ faults' = faults + 1
    /\ stuck' = (stuck \/ (At(r, "expire") /\ attempts > 0 /\ ~armed))
    /\ Finish(r)
    /\ UNCHANGED <<redis, tables, loggedOut>>

-----------------------------------------------------------------------------
Step(r) ==
    \/ FindUser(r) \/ Incr(r) \/ SetExpiry(r) \/ ClearAttempts(r) \/ LoginAnswer(r)
    \/ CreateUser(r) \/ RefreshLoad(r) \/ RefreshSign(r)
    \/ LogoutRevoke(r) \/ LogoutBlacklist(r) \/ SaveUser(r)
    \/ \E t \in Tokens : IssueTokens(r, t)

Next ==
    \/ \E r \in Requests :
          \/ Step(r) \/ Abort(r) \/ Register(r)
          \/ \E password \in BOOLEAN : Login(r, password)
          \/ \E t \in Tokens : Refresh(r, t) \/ Logout(r, t)
          \/ UpdateUser(r, account) \/ UpdateUser(r, "inactive") \/ UpdateUser(r, "active")
    \/ \E t \in Tokens : BlacklistEnds(t) \/ TokenExpires(t)
    \/ Unlock

\* Handlers run on to their end, and Redis drops the counter when its time is over.
Fairness == WF_vars(Unlock) /\ \A r \in Requests : WF_vars(Step(r))

Spec == Init /\ [][Next]_vars /\ Fairness

-----------------------------------------------------------------------------
(* Properties.                                                             *)

AuthTypeOK ==
    /\ attempts \in Nat /\ armed \in BOOLEAN
    /\ account \in {"none", "active", "inactive"}
    /\ rows \in [Tokens -> {"none", "valid", "revoked"}]
    /\ expired \subseteq Tokens /\ blacklist \subseteq Tokens /\ loggedOut \subseteq Tokens
    /\ req \in [Requests -> Request]
    /\ faults \in Nat /\ stuck \in BOOLEAN

\* The requests that passed the check of validateCredentials and may still fail.
Guessing == {r \in Requests : req[r].pc \in {"find", "incr"}}

\* Every login reads the counter before it is incremented, so overlapping logins exceed
\* the limit, but only by the requests that were in flight when the limit was reached.
LockoutBound == attempts + Cardinality(Guessing) <= MaxAttempts - 1 + Cardinality(Requests)

\* A counter without a time to live is about to get one, however failing and successful
\* logins interleave, unless a request died between its INCR and its EXPIRE.
CounterHasEnd ==
    attempts > 0 /\ ~armed => stuck \/ \E r \in Requests : At(r, "expire")

\* "Try again in 15 minutes": a locked account is unlocked in the end, with the same
\* exception.
LockEnds == Blocked(attempts) ~> (~Blocked(attempts) \/ stuck)

\* Once a logout was answered, no refresh that begins later returns an access token,
\* although the logout may be the second one, after a first that died half-way, and
\* although the blacklist forgets.
LoggedOutStaysOut == \A r \in Requests : At(r, "sign") => ~req[r].late

\* The types, and what the attempt counter of validateCredentials and its time to live
\* guarantee under any interleaving of logins.
AuthInv == AuthTypeOK /\ LockoutBound /\ CounterHasEnd

=============================================================================
