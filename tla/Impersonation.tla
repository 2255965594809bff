---------------------------- MODULE Impersonation ----------------------------
(***************************************************************************)
(* Impersonation sessions of the identity service (modules/impersonation): *)
(* platform administrators act as one target user with tokens of half an   *)
(* hour.  A session is saved with a placeholder, its token signed, and the *)
(* token's hash saved; ending one saves the end and then puts the hash on  *)
(* the blacklist in Redis.  save() compares the handler's copy with the    *)
(* row and updates what differs, in two statements.                        *)
(***************************************************************************)
EXTENDS Naturals, Sequences, FiniteSetsExt

CONSTANTS
    Admins,         \* the platform administrators
    Requests,       \* the requests that may be in flight at once
    MaxSessions,    \* bound: rows of impersonation_sessions
    MaxFaults       \* bound: failing calls and crashes

ASSUME ImpersonationAssumption ==
    Admins # {} /\ MaxSessions \in Nat /\ MaxFaults \in Nat

VARIABLES
    rows,         \* table impersonation_sessions, in the order of created_at
    active,       \* is_active of the target
    expired,      \* the sessions whose token has expired: exp of the JWT is past
    over,         \* the sessions that have no whole second left until expires_at
    revoked,      \* Redis: the hashes with a key revoked:<hash>
    handedOut,    \* the tokens that startImpersonation returned
    announced,    \* the sessions whose event was given to exchange chassis.audit
    req,          \* the requests
    faults,       \* faults so far
    foundPending, \* history: sessions that an end loaded before their hash was saved
    lost,         \* history: sessions whose end died before it revoked the token
    crowded,      \* history: admins who opened or reopened a session beside an open one
    answered      \* history: tokens whose end was answered

history == <<foundPending, lost, crowded, answered>>
vars == <<rows, active, expired, over, revoked, handedOut, announced, req, faults, history>>

\* The token signed for session s, and its hash, are called s as well.
Pending == 0
Hashes == 0..MaxSessions
Ids == 1..MaxSessions
Row == [admin : Admins, hash : Hashes, ended : BOOLEAN]
\* token: the one an end presents; copy: the hash in the handler's copy of the row;
\* dirty: save() found that the column which the handler did not set differs as well.
Request == [pc : {"idle", "insert", "issue", "saveHash", "answer", "find", "saveEnd",
                  "writeEnd", "revoke", "reissue"},
            admin : Admins, session : Hashes, token : Hashes, copy : Hashes,
            dirty : BOOLEAN]
Idle == [pc |-> "idle", admin |-> CHOOSE a \in Admins : TRUE, session |-> 0, token |-> 0,
         copy |-> Pending, dirty |-> FALSE]

Init ==
    /\ rows = <<>>
    /\ active = TRUE
    /\ expired = {} /\ over = {} /\ revoked = {} /\ handedOut = {} /\ announced = {}
    /\ req = [r \in Requests |-> Idle]
    /\ faults = 0
    /\ foundPending = {} /\ lost = {} /\ crowded = {} /\ answered = {}

At(r, pc) == req[r].pc = pc
Finish(r) == req' = [req EXCEPT ![r] = Idle]
Open(a) == {s \in DOMAIN rows : rows[s].admin = a /\ ~rows[s].ended}

-----------------------------------------------------------------------------
(* startImpersonation.                                                     *)

\* The administrator's token is accepted and the target may be impersonated.
Start(r, a) ==
    /\ At(r, "idle") /\ active
    /\ req' = [req EXCEPT ![r] = [Idle EXCEPT !.pc = "insert", !.admin = a]]
    /\ UNCHANGED <<rows, active, expired, over, revoked, handedOut, announced, faults, history>>

\* The placeholder is saved.
StartInsert(r) ==
    LET a == req[r].admin
    IN  /\ At(r, "insert") /\ Len(rows) < MaxSessions
        /\ rows' = Append(rows, [admin |-> a, hash |-> Pending, ended |-> FALSE])
        /\ req' = [req EXCEPT ![r].pc = "issue", ![r].session = Len(rows) + 1]
        /\ crowded' = IF Open(a) = {} THEN crowded ELSE crowded \cup {a}
        /\ UNCHANGED <<active, expired, over, revoked, handedOut, announced, faults,
                       foundPending, lost, answered>>

\* Mutant: the token is returned without the hash being stored.
StartIssueAnswer(r) ==
    /\ At(r, "issue")
    /\ req' = [req EXCEPT ![r].pc = "answer"]
    /\ UNCHANGED <<rows, active, expired, over, revoked, handedOut, announced, faults, history>>

\* issueImpersonationToken signs a token, and the second save() compares: the copy still
\* says that the session has no end.
StartIssue(r) ==
    /\ At(r, "issue")
    /\ req' = [req EXCEPT ![r].pc = "saveHash", ![r].dirty = rows[req[r].session].ended]
    /\ UNCHANGED <<rows, active, expired, over, revoked, handedOut, announced, faults, history>>

StartSaveHash(r) ==
    LET s == req[r].session
    IN  /\ At(r, "saveHash")
        /\ rows' = [rows EXCEPT ![s].hash = s,
                                ![s].ended = IF req[r].dirty THEN FALSE ELSE @]
        /\ crowded' = IF req[r].dirty /\ Open(req[r].admin) \ {s} # {}
                        THEN crowded \cup {req[r].admin} ELSE crowded
        /\ req' = [req EXCEPT ![r].pc = "answer"]
        /\ UNCHANGED <<active, expired, over, revoked, handedOut, announced, faults,
                       foundPending, lost, answered>>

\* publish() returns whether or not there is a channel, and the token is returned.
StartAnswer(r) ==
    /\ At(r, "answer")
    /\ \/ announced' = announced \cup {req[r].session} /\ UNCHANGED faults
       \/ faults < MaxFaults /\ faults' = faults + 1 /\ UNCHANGED announced
    /\ handedOut' = handedOut \cup {req[r].session}
    /\ Finish(r)
    /\ UNCHANGED <<rows, active, expired, over, revoked, history>>

-----------------------------------------------------------------------------
(* endImpersonation.                                                       *)

\* The token is accepted until it expires, revoked or not, while its user is active.
End(r, t) ==
    /\ At(r, "idle") /\ t \in handedOut \ expired /\ active
    /\ req' = [req EXCEPT ![r] = [Idle EXCEPT !.pc = "find", !.admin = rows[t].admin,
                                              !.token = t]]
    /\ UNCHANGED <<rows, active, expired, over, revoked, handedOut, announced, faults, history>>

\* Mutant: the sessions are searched by target alone.
CandidatesOfTarget(a) == {s \in DOMAIN rows : ~rows[s].ended}
Candidates(a) == Open(a)

\* The latest open session of the pair, if there is one.
EndFind(r) ==
    LET found == Candidates(req[r].admin)
        s == Max(found)
    IN  /\ At(r, "find")
        /\ IF found = {}
             THEN req' = [req EXCEPT ![r].pc = "reissue"] /\ UNCHANGED foundPending
             ELSE /\ req' = [req EXCEPT ![r].pc = "saveEnd", ![r].session = s,
                                        ![r].copy = rows[s].hash]
                  /\ foundPending' = IF rows[s].hash = Pending THEN foundPending \cup {s}
                                                               ELSE foundPending
        /\ UNCHANGED <<rows, active, expired, over, revoked, handedOut, announced, faults,
                       lost, crowded, answered>>

EndCompare(r) ==
    /\ At(r, "saveEnd")
    /\ req' = [req EXCEPT ![r].pc = "writeEnd",
                          ![r].dirty = (rows[req[r].session].hash # req[r].copy)]
    /\ UNCHANGED <<rows, active, expired, over, revoked, handedOut, announced, faults, history>>

EndSave(r) ==
    /\ At(r, "writeEnd")
    /\ rows' = [rows EXCEPT ![req[r].session].ended = TRUE,
                            ![req[r].session].hash = IF req[r].dirty THEN req[r].copy ELSE @]
    /\ req' = [req EXCEPT ![r].pc = "revoke"]
    /\ UNCHANGED <<active, expired, over, revoked, handedOut, announced, faults, history>>

\* Mutant: the presented token is revoked instead of the session's.
RevokePresented(r) ==
    /\ At(r, "revoke")
    /\ revoked' = IF req[r].session \in over THEN revoked ELSE revoked \cup {req[r].token}
    /\ req' = [req EXCEPT ![r].pc = "reissue"]
    /\ UNCHANGED <<rows, active, expired, over, handedOut, announced, faults, history>>

\* revokeImpersonationToken sets a key for the whole seconds that are left, if any are.
Revoke(r) ==
    /\ At(r, "revoke")
    /\ revoked' = IF req[r].session \in over THEN revoked ELSE revoked \cup {req[r].copy}
    /\ req' = [req EXCEPT ![r].pc = "reissue"]
    /\ UNCHANGED <<rows, active, expired, over, handedOut, announced, faults, history>>

\* reissueAdminToken signs a token for the administrator.
Reissue(r) ==
    /\ At(r, "reissue")
    /\ answered' = answered \cup {req[r].token}
    /\ Finish(r)
    /\ UNCHANGED <<rows, active, expired, over, revoked, handedOut, announced, faults,
                   foundPending, lost, crowded>>

-----------------------------------------------------------------------------
(* Time, users and faults.                                                 *)

\* The JWT of a session reaches its exp, half an hour after the second in which it was
\* signed.
TokenExpires(s) ==
    /\ s \in DOMAIN rows \ expired
    /\ expired' = expired \cup {s}
    /\ UNCHANGED <<rows, active, over, revoked, handedOut, announced, req, faults, history>>

\* Less than a second is left until expires_at, which was taken before the token was
\* signed.  The life of a key is cut to whole seconds, so Redis drops it now, and with it
\* perhaps the key of the placeholder.  The token may still be good, or long expired.
KeyExpires(s) ==
    /\ s \in DOMAIN rows \ over
    /\ over' = over \cup {s}
    /\ \E gone \in {{s}, {s, Pending}} : revoked' = revoked \ gone
    /\ UNCHANGED <<rows, active, expired, handedOut, announced, req, faults, history>>

\* usersService.softDelete and update.
SetActive ==
    /\ active' = ~active
    /\ UNCHANGED <<rows, expired, over, revoked, handedOut, announced, req, faults, history>>

\* A call fails or the process dies.
Abort(r) ==
    /\ ~At(r, "idle") /\ faults < MaxFaults
    /\ faults' = faults + 1
    /\ lost' = IF At(r, "revoke") THEN lost \cup {req[r].session} ELSE lost
    /\ Finish(r)
    /\ UNCHANGED <<rows, active, expired, over, revoked, handedOut, announced,
                   foundPending, crowded, answered>>

-----------------------------------------------------------------------------
Next ==
    \/ \E r \in Requests :
          \/ \E a \in Admins : Start(r, a)
          \/ \E t \in Ids : End(r, t)
          \/ StartInsert(r) \/ StartIssue(r) \/ StartSaveHash(r) \/ StartAnswer(r)
          \/ EndFind(r) \/ EndCompare(r) \/ EndSave(r) \/ Revoke(r) \/ Reissue(r)
          \/ Abort(r)
    \/ \E s \in Ids : TokenExpires(s) \/ KeyExpires(s)
    \/ SetActive

Spec == Init /\ [][Next]_vars

-----------------------------------------------------------------------------
(* Properties.                                                             *)

ImpersonationTypeOK ==
    /\ rows \in Seq(Row) /\ Len(rows) <= MaxSessions
    /\ active \in BOOLEAN
    /\ revoked \subseteq Hashes
    /\ \A set \in {expired, over, handedOut, announced, foundPending, lost, answered} :
          set \subseteq DOMAIN rows
    /\ req \in [Requests -> Request]
    /\ faults \in Nat /\ crowded \subseteq Admins

\* Whoever holds an impersonation token, the table has the session with its hash, so the
\* token can be traced and revoked, and the audit service was told, whatever dies half-way
\* through startImpersonation.  An end that loads the session between its two saves may
\* write the placeholder back.
HandedOutOnRecord ==
    \A t \in handedOut :
        /\ rows[t].hash = t \/ t \in foundPending
        /\ t \in announced \/ faults > 0

\* The token of an ended session is on the blacklist up to the last second of the session,
\* or about to be, unless an end read the placeholder or died before it revoked.
EndedIsRevoked ==
    \A s \in handedOut \ (over \cup foundPending \cup lost) :
        rows[s].ended =>
            \/ s \in revoked
            \/ \E r \in Requests : At(r, "revoke") /\ req[r].session = s

\* An administrator who never has two sessions with the user open at once gets what the
\* answer says: the session of the token that was presented is ended, however ends are
\* repeated and overlap.
AnsweredIsEnded ==
    \A t \in answered : rows[t].ended \/ rows[t].admin \in crowded

\* The types, and that the tokens of ended sessions are revoked.
ImpersonationInv == ImpersonationTypeOK /\ EndedIsRevoked

=============================================================================
