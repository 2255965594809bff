------------------------- MODULE AuthSessionsProofs -------------------------
(***************************************************************************)
(* The lockout counter and the revocation of refresh tokens, for every     *)
(* number of overlapping requests, tokens, attempts and faults.            *)
(***************************************************************************)
EXTENDS AuthSessions, FiniteSetTheorems, TLAPS

\* A token with an answered logout is revoked in the table, whatever Redis forgets,
\* and so is one whose logout has only the blacklist left to write.
RevokedForGood ==
    /\ \A t \in loggedOut : rows[t] = "revoked"
    /\ \A r \in Requests : At(r, "blacklist") => rows[req[r].token] = "revoked"

\* A refresh that is marked late is about a token that was logged out.
LateIsLoggedOut == \A r \in Requests : req[r].late => req[r].token \in loggedOut

IInv ==
    /\ AuthTypeOK /\ LockoutBound /\ CounterHasEnd
    /\ RevokedForGood /\ LateIsLoggedOut /\ LoggedOutStaysOut

-----------------------------------------------------------------------------
(* The request records.                                                    *)

\* The record of a request that is not in flight.
LEMMA IdleType == Idle \in Request /\ Idle.pc = "idle" /\ Idle.late = FALSE
  BY AuthAssumption DEF Idle, Request, Steps, AToken

\* The Boolean variables and the others are typed apart.
Flags == armed \in BOOLEAN /\ stuck \in BOOLEAN

\* The types of the Boolean variables.
LEMMA FlagsStep == Flags /\ [Next]_vars => Flags'
  <1> SUFFICES ASSUME Flags, [Next]_vars PROVE Flags'
    OBVIOUS
  <1> USE DEF Flags, redis
  <1>1. ASSUME NEW r \in Requests, Step(r)
        PROVE  Flags'
    <2>1. CASE SetExpiry(r)
      BY <2>1 DEF SetExpiry
    <2>3. CASE ClearAttempts(r)
      BY <2>3, Zenon DEF ClearAttempts
    <2>2. CASE FindUser(r) \/ Incr(r) \/ LoginAnswer(r) \/ CreateUser(r) \/ RefreshLoad(r)
               \/ RefreshSign(r) \/ LogoutRevoke(r) \/ LogoutBlacklist(r) \/ SaveUser(r)
               \/ \E t \in Tokens : IssueTokens(r, t)
      BY <2>2, Zenon DEF FindUser, Incr, LoginAnswer, CreateUser, RefreshLoad, RefreshSign,
         LogoutRevoke, LogoutBlacklist, SaveUser, IssueTokens
    <2> QED
      BY <1>1, <2>1, <2>2, <2>3 DEF Step
  <1>2. ASSUME NEW r \in Requests, Abort(r) \/ Register(r)
        PROVE  Flags'
    BY <1>2, Zenon DEF Abort, Register
  <1>3. ASSUME NEW r \in Requests, NEW t \in Tokens, Refresh(r, t) \/ Logout(r, t)
        PROVE  Flags'
    BY <1>3, Zenon DEF Refresh, Logout
  <1>4. ASSUME NEW r \in Requests, NEW p \in BOOLEAN, Login(r, p)
        PROVE  Flags'
    BY <1>4, Zenon DEF Login
  <1>5. ASSUME NEW r \in Requests, UpdateUser(r, account) \/ UpdateUser(r, "inactive")
                                   \/ UpdateUser(r, "active")
        PROVE  Flags'
    BY <1>5, Zenon DEF UpdateUser
  <1>6. ASSUME NEW t \in Tokens, BlacklistEnds(t) \/ TokenExpires(t)
        PROVE  Flags'
    BY <1>6, Zenon DEF BlacklistEnds, TokenExpires
  <1>7. CASE Unlock \/ UNCHANGED vars
    BY <1>7, Zenon DEF Unlock, vars
  <1> QED
    BY <1>1, <1>2, <1>3, <1>4, <1>5, <1>6, <1>7 DEF Next

\* The tables, the keys in Redis and the requests.
Data ==
    /\ attempts \in Nat /\ faults \in Nat
    /\ account \in {"none", "active", "inactive"}
    /\ rows \in [Tokens -> {"none", "valid", "revoked"}]
    /\ expired \subseteq Tokens /\ blacklist \subseteq Tokens /\ loggedOut \subseteq Tokens
    /\ req \in [Requests -> Request]

\* A request that moves on, or ends, is still a request.
LEMMA Moves ==
    ASSUME req \in [Requests -> Request], NEW r \in Requests, NEW pc \in Steps,
           Goto(r, pc) \/ Finish(r)
    PROVE  req' \in [Requests -> Request]
  BY IdleType DEF Goto, Finish, Request

\* What a refresh that begins remembers.
LEMMA RefreshBegins ==
    ASSUME req \in [Requests -> Request], NEW r \in Requests, NEW t \in Tokens, Refresh(r, t)
    PROVE  /\ req' \in [Requests -> Request]
           /\ req'[r].pc = "load" /\ req'[r].token = t
           /\ req'[r].late => t \in loggedOut
           /\ \A q \in Requests \ {r} : req'[q] = req[q]
  <1>1. CASE t \in loggedOut
    <2>1. (t \in loggedOut) = TRUE
      BY <1>1
    <2> QED
      BY <1>1, <2>1, IdleType DEF Refresh, Request, Steps
  <1>2. CASE t \notin loggedOut
    <2>1. (t \in loggedOut) = FALSE
      BY <1>2
    <2> QED
      BY <2>1, IdleType DEF Refresh, Request, Steps
  <1> QED
    BY <1>1, <1>2

\* A logout goes on to revoke the token, or is answered at once.
LEMMA LogoutBegins ==
    ASSUME req \in [Requests -> Request], NEW r \in Requests, NEW t \in Tokens, Logout(r, t)
    PROVE  \/ /\ req' = [req EXCEPT ![r] = [Idle EXCEPT !.pc = "revoke", !.token = t]]
              /\ req' \in [Requests -> Request]
              /\ req'[r].pc = "revoke" /\ req'[r].late = FALSE
              /\ \A q \in Requests \ {r} : req'[q] = req[q]
              /\ loggedOut' = loggedOut
           \/ rows[t] # "valid" /\ req' = req /\ loggedOut' = loggedOut \cup {t}
  <1> DEFINE new == [Idle EXCEPT !.pc = "revoke", !.token = t]
  <1>1. new \in Request /\ new.pc = "revoke" /\ new.late = FALSE
    BY IdleType DEF Request, Steps
  <1> HIDE DEF new
  <1>2. CASE rows[t] = "valid"
    <2>1. req' = [req EXCEPT ![r] = new] /\ loggedOut' = loggedOut
      BY <1>2 DEF Logout, new
    <2> QED
      BY <1>1, <2>1 DEF new
  <1>3. CASE rows[t] # "valid"
    BY <1>3 DEF Logout
  <1> QED
    BY <1>2, <1>3

\* The types of the other variables.
LEMMA DataStep == Data /\ [Next]_vars => Data'
  <1> SUFFICES ASSUME Data, [Next]_vars PROVE Data'
    OBVIOUS
  <1> USE AuthAssumption, IdleType, Moves DEF Data, redis, tables, Steps
  <1>1. ASSUME NEW r \in Requests, Step(r)
        PROVE  Data'
    <2>1. CASE FindUser(r)
      BY <2>1 DEF FindUser
    <2>2. CASE Incr(r)
      BY <2>2 DEF Incr
    <2>3. CASE SetExpiry(r) \/ LoginAnswer(r) \/ RefreshSign(r)
      BY <2>3 DEF SetExpiry, LoginAnswer, RefreshSign
    <2>4. CASE ClearAttempts(r)
      BY <2>4 DEF ClearAttempts
    <2>5. CASE CreateUser(r)
      BY <2>5 DEF CreateUser
    <2>6. CASE RefreshLoad(r)
      BY <2>6 DEF RefreshLoad
    <2>7. CASE LogoutRevoke(r)
      BY <2>7 DEF LogoutRevoke, Request
    <2>8. CASE LogoutBlacklist(r)
      BY <2>8 DEF LogoutBlacklist, Request
    <2>9. CASE SaveUser(r)
      BY <2>9 DEF SaveUser, Request
    <2>10. ASSUME NEW t \in Tokens, IssueTokens(r, t)
           PROVE  Data'
      BY <2>10 DEF IssueTokens, Request
    <2> QED
      BY <1>1, <2>1, <2>2, <2>3, <2>4, <2>5, <2>6, <2>7, <2>8, <2>9, <2>10 DEF Step
  <1>2. ASSUME NEW r \in Requests, Abort(r)
        PROVE  Data'
    BY <1>2 DEF Abort
  <1>3. ASSUME NEW r \in Requests, Register(r)
        PROVE  Data'
    BY <1>3 DEF Register, Begin, Request
  <1>4. ASSUME NEW r \in Requests, NEW p \in BOOLEAN, Login(r, p)
        PROVE  Data'
    <2>1. CASE p = TRUE
      BY <1>4, <2>1 DEF Login, Request
    <2>2. CASE p = FALSE
      BY <1>4, <2>2 DEF Login, Request
    <2> QED
      BY <2>1, <2>2
  <1>5. ASSUME NEW r \in Requests, NEW t \in Tokens, Refresh(r, t)
        PROVE  Data'
    BY <1>5, RefreshBegins DEF Refresh
  <1>6. ASSUME NEW r \in Requests, NEW t \in Tokens, Logout(r, t)
        PROVE  Data'
    BY <1>6, LogoutBegins DEF Logout
  <1>7. ASSUME NEW r \in Requests, NEW copy \in {"active", "inactive"}, UpdateUser(r, copy)
        PROVE  Data'
    BY <1>7 DEF UpdateUser, Request
  <1>8. ASSUME NEW r \in Requests, UpdateUser(r, account)
        PROVE  Data'
    BY <1>7, <1>8 DEF UpdateUser
  <1>9. ASSUME NEW t \in Tokens, BlacklistEnds(t) \/ TokenExpires(t)
        PROVE  Data'
    BY <1>9 DEF BlacklistEnds, TokenExpires
  <1>10. CASE Unlock \/ UNCHANGED vars
    BY <1>10 DEF Unlock, vars
  <1> QED
    BY <1>1, <1>2, <1>3, <1>4, <1>5, <1>6, <1>7, <1>8, <1>9, <1>10 DEF Next
-----------------------------------------------------------------------------
(* The lockout counter.                                                    *)

\* There are finitely many requests that compare a password.
LEMMA GuessingFinite ==
    /\ IsFiniteSet(Guessing) /\ Cardinality(Guessing) \in Nat
    /\ Cardinality(Requests) \in Nat /\ Cardinality(Guessing) <= Cardinality(Requests)
  <1>1. Guessing \subseteq Requests
    BY DEF Guessing
  <1> QED
    BY <1>1, AuthAssumption, FS_Subset, FS_CardinalityType

\* The same in the next state.
LEMMA GuessingFiniteNext ==
    /\ IsFiniteSet(Guessing') /\ Cardinality(Guessing') \in Nat
    /\ Cardinality(Guessing') <= Cardinality(Requests)
  <1>1. Guessing' \subseteq Requests
    BY DEF Guessing
  <1> QED
    BY <1>1, AuthAssumption, FS_Subset, FS_CardinalityType

\* A step that adds neither a failure nor a request that may fail.
LEMMA NoNewGuess ==
    ASSUME Data, Data', LockoutBound, Guessing' \subseteq Guessing, attempts' <= attempts
    PROVE  LockoutBound'
  <1>1. Cardinality(Guessing') <= Cardinality(Guessing)
    BY GuessingFinite, FS_Subset
  <1> QED
    BY <1>1, GuessingFinite, GuessingFiniteNext, AuthAssumption DEF LockoutBound, Data

\* A login passes the check only below the limit.
LEMMA LoginBound ==
    ASSUME Data, Data', NEW r \in Requests, NEW p \in BOOLEAN, Login(r, p)
    PROVE  LockoutBound'
  <1>1. attempts' = attempts /\ attempts < MaxAttempts
    BY AuthAssumption DEF Login, Blocked, redis, Data
  <1> QED
    BY <1>1, GuessingFinite, GuessingFiniteNext, AuthAssumption DEF LockoutBound, Data

\* A failure is counted for one of the requests that may fail.
LEMMA IncrBound ==
    ASSUME Data, Data', LockoutBound, NEW r \in Requests, Incr(r)
    PROVE  LockoutBound'
  <1>1. r \in Guessing /\ Guessing' \subseteq Guessing \ {r}
    BY IdleType DEF Incr, Guessing, Data, Request, At, Goto, Finish
  <1>2. Cardinality(Guessing \ {r}) = Cardinality(Guessing) - 1
    BY <1>1, GuessingFinite, FS_RemoveElement
  <1>3. Cardinality(Guessing') <= Cardinality(Guessing) - 1
    BY <1>1, <1>2, GuessingFinite, FS_Subset, FS_RemoveElement
  <1>4. attempts' = attempts + 1
    BY DEF Incr
  <1> QED
    BY <1>3, <1>4, GuessingFinite, GuessingFiniteNext, AuthAssumption
    DEF LockoutBound, Data

\* The comparisons and the counter together stay below the limit.
LEMMA LockoutStep == Data /\ Data' /\ LockoutBound /\ [Next]_vars => LockoutBound'
  <1> SUFFICES ASSUME Data, Data', LockoutBound, [Next]_vars PROVE LockoutBound'
    OBVIOUS
  <1> DEFINE Calmer == Guessing' \subseteq Guessing /\ attempts' <= attempts
  <1> USE IdleType DEF Guessing, Data, Request, At, Goto, Finish, redis
  <1>1. ASSUME NEW r \in Requests, Step(r), ~Incr(r)
        PROVE  Calmer
    <2>1. CASE FindUser(r)
      BY <2>1 DEF FindUser
    <2>2. CASE SetExpiry(r) \/ LoginAnswer(r) \/ RefreshSign(r) \/ ClearAttempts(r)
      BY <2>2 DEF SetExpiry, LoginAnswer, RefreshSign, ClearAttempts
    <2>3. CASE CreateUser(r) \/ RefreshLoad(r)
      BY <2>3 DEF CreateUser, RefreshLoad
    <2>4. CASE LogoutRevoke(r) \/ LogoutBlacklist(r) \/ SaveUser(r)
      BY <2>4 DEF LogoutRevoke, LogoutBlacklist, SaveUser
    <2>5. ASSUME NEW t \in Tokens, IssueTokens(r, t)
          PROVE  Calmer
      BY <2>5 DEF IssueTokens
    <2> QED
      BY <1>1, <2>1, <2>2, <2>3, <2>4, <2>5 DEF Step
  <1>2. ASSUME NEW r \in Requests, Abort(r) \/ Register(r)
        PROVE  Calmer
    BY <1>2 DEF Abort, Register, Begin
  <1>3. ASSUME NEW r \in Requests, NEW t \in Tokens, Refresh(r, t) \/ Logout(r, t)
        PROVE  Calmer
    <2>1. \A q \in Requests : req'[q] = req[q] \/ req'[q].pc \in {"load", "revoke"}
      <3>1. CASE Refresh(r, t)
        BY <3>1, RefreshBegins
      <3>2. CASE Logout(r, t)
        BY <3>2, LogoutBegins
      <3> QED
        BY <1>3, <3>1, <3>2
    <2>2. attempts' = attempts
      BY <1>3 DEF Refresh, Logout
    <2> QED
      BY <2>1, <2>2
  <1>4. ASSUME NEW r \in Requests, NEW copy, UpdateUser(r, copy)
        PROVE  Calmer
    <2>1. \A q \in Requests : req'[q] = req[q] \/ req'[q].pc = "saveUser"
      BY <1>4 DEF UpdateUser
    <2> QED
      BY <1>4, <2>1 DEF UpdateUser
  <1>5. ASSUME NEW t \in Tokens, BlacklistEnds(t) \/ TokenExpires(t)
        PROVE  Calmer
    BY <1>5 DEF BlacklistEnds, TokenExpires
  <1>6. CASE Unlock \/ UNCHANGED vars
    <2>1. Calmer
      BY <1>6 DEF Unlock, vars
    <2> QED
      BY <2>1, NoNewGuess
  <1> HIDE DEF Calmer, Guessing, Data
  <1>7. Calmer => LockoutBound'
    BY NoNewGuess DEF Calmer
  <1> QED
    BY <1>1, <1>2, <1>3, <1>4, <1>5, <1>6, <1>7, LoginBound, IncrBound DEF Next, Step

\* A step that leaves the counter alone, and every request that is to set its time to live.
LEMMA CounterAlone ==
    ASSUME CounterHasEnd, attempts' = attempts, armed' = armed, stuck' = stuck,
           \A r \in Requests : At(r, "expire") => At(r, "expire")'
    PROVE  CounterHasEnd'
  BY DEF CounterHasEnd

\* A counter that exists has an end.
LEMMA CounterStep == Data /\ Flags /\ CounterHasEnd /\ [Next]_vars => CounterHasEnd'
  <1> SUFFICES ASSUME Data, Flags, CounterHasEnd, [Next]_vars PROVE CounterHasEnd'
    OBVIOUS
  <1> DEFINE Same == /\ attempts' = attempts /\ armed' = armed /\ stuck' = stuck
                     /\ \A q \in Requests : At(q, "expire") => At(q, "expire")'
  <1> USE IdleType DEF Data, Request, At, Goto, Finish, redis
  <1>1. ASSUME NEW r \in Requests, FindUser(r) \/ LoginAnswer(r) \/ RefreshSign(r)
                                   \/ CreateUser(r) \/ RefreshLoad(r)
        PROVE  Same
    BY <1>1 DEF FindUser, LoginAnswer, RefreshSign, CreateUser, RefreshLoad
  <1>2. ASSUME NEW r \in Requests, LogoutRevoke(r) \/ LogoutBlacklist(r) \/ SaveUser(r)
        PROVE  Same
    BY <1>2 DEF LogoutRevoke, LogoutBlacklist, SaveUser
  <1>3. ASSUME NEW r \in Requests, NEW t \in Tokens, IssueTokens(r, t)
        PROVE  Same
    BY <1>3 DEF IssueTokens
  <1>4. ASSUME NEW r \in Requests, NEW copy, UpdateUser(r, copy)
        PROVE  Same
    BY <1>4 DEF UpdateUser
  <1>5. ASSUME NEW r \in Requests, NEW t \in Tokens, Refresh(r, t)
        PROVE  Same
    BY <1>5, RefreshBegins DEF Refresh
  <1>6. ASSUME NEW r \in Requests, NEW t \in Tokens, Logout(r, t)
        PROVE  Same
    BY <1>6, LogoutBegins DEF Logout
  <1>7. ASSUME NEW r \in Requests, NEW p \in BOOLEAN, Login(r, p)
        PROVE  Same
    BY <1>7 DEF Login
  <1>8. ASSUME NEW t \in Tokens, BlacklistEnds(t) \/ TokenExpires(t)
        PROVE  Same
    BY <1>8 DEF BlacklistEnds, TokenExpires
  <1>9. ASSUME NEW r \in Requests, Register(r)
        PROVE  Same
    BY <1>9 DEF Register, Begin
  \* The first failure sets the time to live next; a later one finds it set or being set.
  <1>10. ASSUME NEW r \in Requests, Incr(r)
         PROVE  CounterHasEnd'
    <2>1. CASE attempts = 0
      <3>1. At(r, "expire")'
        BY <1>10, <2>1 DEF Incr
      <3> QED
        BY <3>1 DEF CounterHasEnd
    <2>2. CASE attempts # 0
      <3>1. attempts > 0 /\ \A q \in Requests : At(q, "expire") => At(q, "expire")'
        BY <1>10, <2>2 DEF Incr
      <3>2. armed' = armed /\ stuck' = stuck
        BY <1>10, Zenon DEF Incr
      <3> QED
        BY <3>1, <3>2 DEF CounterHasEnd
    <2> QED
      BY <2>1, <2>2
  <1>11. ASSUME NEW r \in Requests, SetExpiry(r)
         PROVE  CounterHasEnd'
    BY <1>11 DEF SetExpiry, CounterHasEnd
  <1>12. ASSUME NEW r \in Requests, Abort(r)
         PROVE  CounterHasEnd'
    BY <1>12 DEF Abort, CounterHasEnd
  <1>13. ASSUME NEW r \in Requests, ClearAttempts(r)
         PROVE  CounterHasEnd'
    BY <1>13 DEF ClearAttempts, CounterHasEnd
  <1>14. CASE Unlock
    BY <1>14 DEF Unlock, CounterHasEnd
  <1>15. CASE UNCHANGED vars
    BY <1>15 DEF vars, CounterHasEnd
  <1>16. Same => CounterHasEnd'
    BY CounterAlone
  <1> HIDE DEF Same
  <1> QED
    BY <1>1, <1>2, <1>3, <1>4, <1>5, <1>6, <1>7, <1>8, <1>9, <1>10, <1>11, <1>12, <1>13,
       <1>14, <1>15, <1>16 DEF Next, Step

-----------------------------------------------------------------------------
(* Refresh tokens.                                                         *)

TokenInv == RevokedForGood /\ LateIsLoggedOut /\ LoggedOutStaysOut

\* A step that leaves the tokens alone and begins no request that is late, signs or is to
\* write the blacklist.
LEMMA TokensAlone ==
    ASSUME Data, TokenInv, rows' = rows, loggedOut' = loggedOut,
           \A r \in Requests :
              \/ ~req'[r].late /\ req'[r].pc # "blacklist"
              \/ /\ req'[r].late = req[r].late /\ req'[r].token = req[r].token
                 /\ req'[r].pc = req[r].pc \/ req'[r].pc \notin {"blacklist", "sign"}
    PROVE  TokenInv'
  BY DEF TokenInv, RevokedForGood, LateIsLoggedOut, LoggedOutStaysOut, At

\* A token that was logged out stays out.
LEMMA TokensStep == Data /\ TokenInv /\ [Next]_vars => TokenInv'
  <1> SUFFICES ASSUME Data, TokenInv, [Next]_vars PROVE TokenInv'
    OBVIOUS
  <1> DEFINE Same ==
        /\ rows' = rows /\ loggedOut' = loggedOut
        /\ \A q \in Requests :
              \/ ~req'[q].late /\ req'[q].pc # "blacklist"
              \/ /\ req'[q].late = req[q].late /\ req'[q].token = req[q].token
                 /\ req'[q].pc = req[q].pc \/ req'[q].pc \notin {"blacklist", "sign"}
  <1> USE IdleType DEF Data, Request, At, Goto, Finish, redis, tables
  <1>1. ASSUME NEW r \in Requests, FindUser(r) \/ Incr(r) \/ SetExpiry(r) \/ ClearAttempts(r)
        PROVE  Same
    BY <1>1 DEF FindUser, Incr, SetExpiry, ClearAttempts
  <1>2. ASSUME NEW r \in Requests, LoginAnswer(r) \/ RefreshSign(r) \/ CreateUser(r)
                                   \/ SaveUser(r) \/ Abort(r)
        PROVE  Same
    BY <1>2 DEF LoginAnswer, RefreshSign, CreateUser, SaveUser, Abort
  <1>3. ASSUME NEW r \in Requests, Register(r)
        PROVE  Same
    BY <1>3 DEF Register, Begin
  <1>4. ASSUME NEW r \in Requests, NEW copy, UpdateUser(r, copy)
        PROVE  Same
    BY <1>4 DEF UpdateUser
  <1>5. ASSUME NEW r \in Requests, NEW p \in BOOLEAN, Login(r, p)
        PROVE  Same
    BY <1>5 DEF Login
  <1>6. ASSUME NEW t \in Tokens, BlacklistEnds(t) \/ TokenExpires(t)
        PROVE  Same
    BY <1>6 DEF BlacklistEnds, TokenExpires
  <1>7. ASSUME Unlock \/ UNCHANGED vars
        PROVE  Same
    BY <1>7 DEF Unlock, vars
  \* A late request is about a token logged out before, so the table refuses it.
  <1>8. ASSUME NEW r \in Requests, RefreshLoad(r)
        PROVE  TokenInv'
    <2>1. req'[r].pc = "sign" => ~req[r].late
      BY <1>8 DEF RefreshLoad, IsValid, TokenInv, RevokedForGood, LateIsLoggedOut
    <2>2. rows' = rows /\ loggedOut' = loggedOut
      BY <1>8 DEF RefreshLoad
    <2>3. CASE req' = [req EXCEPT ![r].pc = "sign"]
      BY <2>1, <2>2, <2>3
      DEF TokenInv, RevokedForGood, LateIsLoggedOut, LoggedOutStaysOut
    <2>4. CASE req' = [req EXCEPT ![r] = Idle]
      BY <2>2, <2>4, TokensAlone
    <2> QED
      BY <1>8, <2>3, <2>4, Zenon DEF RefreshLoad
  <1>9. ASSUME NEW r \in Requests, NEW t \in Tokens, Refresh(r, t)
        PROVE  TokenInv'
    <2>1. rows' = rows /\ loggedOut' = loggedOut
      BY <1>9 DEF Refresh
    <2> QED
      BY <1>9, <2>1, RefreshBegins
      DEF TokenInv, RevokedForGood, LateIsLoggedOut, LoggedOutStaysOut
  \* An issued token is new: it has no row, so it was never logged out.
  <1>10. ASSUME NEW r \in Requests, NEW t \in Tokens, IssueTokens(r, t)
         PROVE  TokenInv'
    BY <1>10 DEF IssueTokens, TokenInv, RevokedForGood, LateIsLoggedOut, LoggedOutStaysOut
  <1>11. ASSUME NEW r \in Requests, NEW t \in Tokens, Logout(r, t)
         PROVE  TokenInv'
    <2>1. rows' = rows /\ rows[t] \in {"valid", "revoked"}
      BY <1>11 DEF Logout
    <2>2. CASE /\ req'[r].pc = "revoke" /\ req'[r].late = FALSE
               /\ \A q \in Requests \ {r} : req'[q] = req[q]
               /\ loggedOut' = loggedOut
      BY <2>1, <2>2, TokensAlone
    <2>3. CASE rows[t] # "valid" /\ req' = req /\ loggedOut' = loggedOut \cup {t}
      BY <2>1, <2>3 DEF TokenInv, RevokedForGood, LateIsLoggedOut, LoggedOutStaysOut
    <2> QED
      BY <1>11, <2>2, <2>3, LogoutBegins
  <1>12. ASSUME NEW r \in Requests, LogoutRevoke(r)
         PROVE  TokenInv'
    BY <1>12 DEF LogoutRevoke, TokenInv, RevokedForGood, LateIsLoggedOut, LoggedOutStaysOut
  <1>13. ASSUME NEW r \in Requests, LogoutBlacklist(r)
         PROVE  TokenInv'
    BY <1>13 DEF LogoutBlacklist, TokenInv, RevokedForGood, LateIsLoggedOut, LoggedOutStaysOut
  <1>14. Same => TokenInv'
    BY TokensAlone
  <1> HIDE DEF Same
  <1> QED
    BY <1>1, <1>2, <1>3, <1>4, <1>5, <1>6, <1>7, <1>8, <1>9, <1>10, <1>11, <1>12, <1>13,
       <1>14 DEF Next, Step

-----------------------------------------------------------------------------
(* The theorems.                                                           *)

\* The type invariant in its two parts.
LEMMA TypesSplit == AuthTypeOK <=> Data /\ Flags
  BY DEF AuthTypeOK, Data, Flags

\* Nobody has tried anything to begin with.
LEMMA InitInv == Init => IInv
  <1> SUFFICES ASSUME Init PROVE IInv
    OBVIOUS
  <1> USE IdleType DEF Init
  <1>1. Data
    BY DEF Data
  <1>2. Flags
    BY Zenon DEF Flags
  <1>3. LockoutBound
    BY <1>1, GuessingFinite, AuthAssumption DEF LockoutBound
  <1>4. CounterHasEnd /\ RevokedForGood /\ LateIsLoggedOut /\ LoggedOutStaysOut
    BY DEF CounterHasEnd, RevokedForGood, LateIsLoggedOut, LoggedOutStaysOut, At
  <1> QED
    BY <1>1, <1>2, <1>3, <1>4, TypesSplit DEF IInv

\* Every step keeps the inductive invariant.
LEMMA NextInv == IInv /\ [Next]_vars => IInv'
  <1> SUFFICES ASSUME IInv, [Next]_vars PROVE IInv'
    OBVIOUS
  <1>1. Data /\ Flags
    BY TypesSplit DEF IInv
  <1>2. Data' /\ Flags'
    BY <1>1, DataStep, FlagsStep
  <1>3. LockoutBound' /\ CounterHasEnd' /\ TokenInv'
    BY <1>1, <1>2, LockoutStep, CounterStep, TokensStep DEF IInv, TokenInv
  <1>4. AuthTypeOK'
    BY <1>2 DEF AuthTypeOK, Data, Flags
  <1> QED
    BY <1>3, <1>4 DEF IInv, TokenInv

\* The inductive invariant.
LEMMA Invariance == Spec => []IInv
  BY InitInv, NextInv, PTL DEF Spec

\* validateCredentials, for any number of overlapping logins: the counter exceeds the
\* limit by no more than the requests that were in flight, and it has a time to live or
\* is about to get one unless a request died between INCR and EXPIRE.
THEOREM LockoutHolds == Spec => []AuthInv
  <1>1. IInv => AuthInv
    BY DEF IInv, AuthInv
  <1> QED
    BY <1>1, Invariance, PTL

\* logout against refreshAccessToken: no refresh that begins after an answered logout of
\* its token reaches the signature of a new one, whatever Redis forgets or a crash leaves
\* half-done.
THEOREM LogoutHolds == Spec => []LoggedOutStaysOut
  <1>1. IInv => LoggedOutStaysOut
    BY DEF IInv
  <1> QED
    BY <1>1, Invariance, PTL

=============================================================================
