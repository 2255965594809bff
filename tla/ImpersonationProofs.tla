------------------------ MODULE ImpersonationProofs ------------------------
(***************************************************************************)
(* Impersonation tokens can be traced and are revoked, and an answered end *)
(* has ended its session, for any administrators, sessions, overlapping    *)
(* requests and faults.                                                    *)
(***************************************************************************)
EXTENDS Impersonation, SequenceTheorems, WellFoundedInduction, TLAPS

Starting == {"issue", "saveHash", "answer"}
Saving == {"saveEnd", "writeEnd", "revoke"}
Ending == Saving \cup {"find", "reissue"}

\* A start has a session of its own, whose token nobody has yet.
Starters ==
    /\ \A r \in Requests : req[r].pc \in Starting =>
          /\ req[r].session \in DOMAIN rows \ handedOut
          /\ rows[req[r].session].admin = req[r].admin
    /\ \A r, q \in Requests :
          req[r].pc \in Starting /\ req[q].pc \in Starting /\ req[r].session = req[q].session
             => r = q

\* A session's hash is the placeholder or that of its token, in the table and in the
\* copies; whoever has the placeholder was seen to load it.
HashesMatch ==
    /\ \A s \in DOMAIN rows : rows[s].hash \in {Pending, s}
    /\ \A r \in Requests : req[r].pc \in Saving =>
          /\ req[r].session \in DOMAIN rows
          /\ req[r].copy = req[r].session \/ req[r].session \in foundPending
          /\ req[r].copy \in {Pending, req[r].session}

\* From the second save of a start on, the hash is there.
HashSaved ==
    \A r \in Requests : req[r].pc = "answer" =>
        rows[req[r].session].hash = req[r].session \/ req[r].session \in foundPending

\* The token of an ended session is revoked or about to be, handed out or not.
AllEndedRevoked ==
    \A s \in DOMAIN rows \ (over \cup foundPending \cup lost) :
        rows[s].ended =>
            \/ s \in revoked
            \/ \E r \in Requests : At(r, "revoke") /\ req[r].session = s

\* One open session at a time, unless the history says otherwise.
OneOpen ==
    \A s, u \in DOMAIN rows :
        ~rows[s].ended /\ ~rows[u].ended /\ rows[s].admin = rows[u].admin
        /\ rows[s].admin \notin crowded => s = u

\* An end is about the session of its token, or that one is ended already; behind the
\* save it is ended.
EndsOwn ==
    \A r \in Requests : req[r].pc \in Ending =>
        LET t == req[r].token
        IN  /\ t \in handedOut /\ req[r].admin = rows[t].admin
            /\ req[r].pc \in {"saveEnd", "writeEnd"} =>
                  rows[t].ended \/ rows[t].admin \in crowded \/ req[r].session = t
            /\ req[r].pc \in {"revoke", "reissue"} =>
                  rows[t].ended \/ rows[t].admin \in crowded

IInv ==
    /\ ImpersonationTypeOK /\ answered \subseteq handedOut
    /\ Starters /\ HashesMatch /\ HashSaved /\ AllEndedRevoked /\ OneOpen /\ EndsOwn
    /\ HandedOutOnRecord /\ AnsweredIsEnded

-----------------------------------------------------------------------------
(* The operators of the model.                                             *)

\* A nonempty set of naturals below a bound has a largest element, and Max is it.
LEMMA MaxIsMember ==
    ASSUME NEW n \in Nat, NEW S \in SUBSET (1 .. n), S # {}
    PROVE  Max(S) \in S
  <1> DEFINE T == {n - x : x \in S}
             R == OpToRel(<, Nat)
  <1>1. T \subseteq Nat /\ T # {}
    <2>1. PICK x \in S : TRUE
      OBVIOUS
    <2>2. n - x \in T
      BY <2>1
    <2>3. \A y \in S : n - y \in Nat
      OBVIOUS
    <2> QED
      BY <2>2, <2>3
  <1>2. PICK m \in T : \A y \in T : ~(<<y, m>> \in R)
    BY <1>1, NatLessThanWellFounded, WFMin
  <1>3. \A y \in T : ~(y < m)
    BY <1>1, <1>2 DEF OpToRel
  <1>4. PICK x \in S : m = n - x
    BY <1>2
  <1>5. \A y \in S : x >= y
    BY <1>3, <1>4
  <1> QED
    BY <1>5 DEF Max

\* The record of a request that is not in flight.
LEMMA IdleType == Idle \in Request /\ Idle.pc = "idle"
  BY ImpersonationAssumption DEF Idle, Request, Hashes, Pending

\* The table as a function.
LEMMA RowsFunction ==
    ASSUME ImpersonationTypeOK
    PROVE  /\ Len(rows) \in Nat /\ DOMAIN rows = 1 .. Len(rows)
           /\ rows \in [DOMAIN rows -> Row] /\ DOMAIN rows \subseteq Ids
  BY ImpersonationAssumption, LenProperties DEF ImpersonationTypeOK, Ids

\* The sessions of requests that save exist.
SessionsExist ==
    \A r \in Requests : req[r].pc \in Starting \cup Saving => req[r].session \in DOMAIN rows

\* What EndFind finds is one of the open sessions of the administrator.
LEMMA Found ==
    ASSUME ImpersonationTypeOK, NEW a \in Admins, Candidates(a) # {}
    PROVE  /\ Max(Candidates(a)) \in DOMAIN rows /\ Max(Candidates(a)) \in Ids
           /\ rows[Max(Candidates(a))].admin = a /\ ~rows[Max(Candidates(a))].ended
  <1>1. Candidates(a) \in SUBSET (1 .. Len(rows))
    BY RowsFunction DEF Candidates, Open
  <1>2. Max(Candidates(a)) \in Candidates(a)
    BY <1>1, RowsFunction, MaxIsMember
  <1> QED
    BY <1>2, RowsFunction DEF Candidates, Open

\* What the three actions that write the table make of it.
LEMMA InsertedRow ==
    ASSUME ImpersonationTypeOK, NEW r \in Requests, StartInsert(r)
    PROVE  /\ rows' \in Seq(Row) /\ Len(rows') = Len(rows) + 1 /\ Len(rows') <= MaxSessions
           /\ DOMAIN rows' = DOMAIN rows \cup {Len(rows) + 1}
           /\ Len(rows) + 1 \notin DOMAIN rows /\ Len(rows) + 1 \in Ids
           /\ \A s \in DOMAIN rows : rows'[s] = rows[s]
           /\ rows'[Len(rows) + 1] = [admin |-> req[r].admin, hash |-> Pending, ended |-> FALSE]
  <1> DEFINE new == [admin |-> req[r].admin, hash |-> Pending, ended |-> FALSE]
  <1>1. new \in Row
    BY ImpersonationAssumption DEF Row, ImpersonationTypeOK, Request, Hashes, Pending
  <1>2. rows \in Seq(Row) /\ rows' = Append(rows, new) /\ Len(rows) < MaxSessions
    BY DEF ImpersonationTypeOK, StartInsert
  <1> HIDE DEF new
  <1>3. /\ rows' \in Seq(Row) /\ Len(rows') = Len(rows) + 1
        /\ \A s \in 1 .. Len(rows) : rows'[s] = rows[s]
        /\ rows'[Len(rows) + 1] = new
    BY <1>1, <1>2, AppendProperties
  <1>4. Len(rows) \in Nat /\ DOMAIN rows = 1 .. Len(rows) /\ DOMAIN rows' = 1 .. Len(rows')
    BY <1>2, <1>3, LenProperties
  <1> QED
    BY <1>2, <1>3, <1>4, ImpersonationAssumption DEF new, Ids

\* A row that is replaced by a row.
LEMMA WrittenRow ==
    ASSUME ImpersonationTypeOK, NEW s \in DOMAIN rows, NEW e \in Row,
           rows' = [rows EXCEPT ![s] = e]
    PROVE  /\ rows' \in Seq(Row) /\ Len(rows') = Len(rows) /\ DOMAIN rows' = DOMAIN rows
           /\ rows'[s] = e /\ \A u \in DOMAIN rows \ {s} : rows'[u] = rows[u]
  BY RowsFunction, ExceptSeq DEF ImpersonationTypeOK

\* The second save of a start.
LEMMA SavedHash ==
    ASSUME ImpersonationTypeOK, SessionsExist, NEW r \in Requests, StartSaveHash(r)
    PROVE  LET s == req[r].session
           IN  /\ s \in DOMAIN rows
               /\ rows' \in Seq(Row) /\ Len(rows') = Len(rows) /\ DOMAIN rows' = DOMAIN rows
               /\ rows'[s].hash = s /\ rows'[s].admin = rows[s].admin
               /\ rows'[s].ended => rows[s].ended
               /\ ~rows'[s].ended => ~rows[s].ended \/ req[r].dirty
               /\ \A u \in DOMAIN rows \ {s} : rows'[u] = rows[u]
  <1> DEFINE s == req[r].session
  <1>1. s \in DOMAIN rows /\ s \in Hashes
    BY DEF SessionsExist, StartSaveHash, At, Starting, ImpersonationTypeOK, Request
  <1>2. rows[s] \in Row
    BY <1>1, RowsFunction
  <1>3. CASE req[r].dirty
    <2>1. [rows[s] EXCEPT !.hash = s, !.ended = FALSE] \in Row
      BY <1>1, <1>2 DEF Row
    <2>2. rows' = [rows EXCEPT ![s] = [rows[s] EXCEPT !.hash = s, !.ended = FALSE]]
      BY <1>1, <1>2, <1>3, RowsFunction DEF StartSaveHash, Row
    <2> QED
      BY <1>1, <1>2, <1>3, <2>1, <2>2, WrittenRow DEF Row
  <1>4. CASE ~req[r].dirty
    <2>1. [rows[s] EXCEPT !.hash = s] \in Row
      BY <1>1, <1>2 DEF Row
    <2>2. rows' = [rows EXCEPT ![s] = [rows[s] EXCEPT !.hash = s]]
      BY <1>1, <1>2, <1>4, RowsFunction DEF StartSaveHash, Row
    <2> QED
      BY <1>1, <1>2, <1>4, <2>1, <2>2, WrittenRow DEF Row
  <1> QED
    BY <1>3, <1>4

\* The save of an end.
LEMMA SavedEnd ==
    ASSUME ImpersonationTypeOK, SessionsExist, NEW r \in Requests, EndSave(r)
    PROVE  LET s == req[r].session
           IN  /\ s \in DOMAIN rows
               /\ rows' \in Seq(Row) /\ Len(rows') = Len(rows) /\ DOMAIN rows' = DOMAIN rows
               /\ rows'[s].hash \in {rows[s].hash, req[r].copy}
               /\ rows'[s].admin = rows[s].admin /\ rows'[s].ended
               /\ \A u \in DOMAIN rows \ {s} : rows'[u] = rows[u]
  <1> DEFINE s == req[r].session
             h == IF req[r].dirty THEN req[r].copy ELSE rows[s].hash
  <1>1. s \in DOMAIN rows /\ req[r].copy \in Hashes
    BY DEF SessionsExist, EndSave, At, Saving, ImpersonationTypeOK, Request
  <1>2. rows[s] \in Row /\ h \in Hashes /\ h \in {rows[s].hash, req[r].copy}
    BY <1>1, RowsFunction DEF Row
  <1>3. rows' = [rows EXCEPT ![s] = [rows[s] EXCEPT !.ended = TRUE, !.hash = h]]
    BY <1>1, <1>2, RowsFunction DEF EndSave, Row
  <1> HIDE DEF h
  <1>4. [rows[s] EXCEPT !.ended = TRUE, !.hash = h] \in Row
    BY <1>2 DEF Row
  <1> QED
    BY <1>1, <1>2, <1>3, <1>4, WrittenRow DEF Row

-----------------------------------------------------------------------------
(* Types.                                                                  *)

\* The type invariant without the Boolean variable.
Data ==
    /\ rows \in Seq(Row) /\ Len(rows) <= MaxSessions
    /\ revoked \subseteq Hashes
    /\ expired \subseteq DOMAIN rows /\ over \subseteq DOMAIN rows
    /\ handedOut \subseteq DOMAIN rows
    /\ announced \subseteq DOMAIN rows /\ foundPending \subseteq DOMAIN rows
    /\ lost \subseteq DOMAIN rows /\ answered \subseteq DOMAIN rows
    /\ req \in [Requests -> Request]
    /\ faults \in Nat /\ crowded \subseteq Admins

\* The type invariant in its two parts.
LEMMA TypesSplit == ImpersonationTypeOK <=> Data /\ active \in BOOLEAN
  BY DEF ImpersonationTypeOK, Data

\* The same in the next state.
LEMMA TypesSplitNext == Data' /\ active' \in BOOLEAN => ImpersonationTypeOK'
  BY DEF ImpersonationTypeOK, Data

\* The type of the Boolean variable.
LEMMA ActiveStep == active \in BOOLEAN /\ [Next]_vars => active' \in BOOLEAN
  <1> SUFFICES ASSUME active \in BOOLEAN, [Next]_vars PROVE active' \in BOOLEAN
    OBVIOUS
  <1>1. CASE SetActive
    BY <1>1, Zenon DEF SetActive
  <1>2. CASE ~SetActive
    <2>1. active' = active
      BY <1>2, Zenon DEF Next, vars, Start, StartInsert, StartIssue, StartSaveHash, StartAnswer,
         End, EndFind, EndCompare, EndSave, Revoke, Reissue, TokenExpires, KeyExpires, Abort
    <2> QED
      BY <2>1
  <1> QED
    BY <1>1, <1>2

\* The types of the other variables.
LEMMA DataStep ==
    ASSUME ImpersonationTypeOK, SessionsExist, EndsOwn, Next
    PROVE  Data'
  <1>0. Data /\ Len(rows) \in Nat /\ DOMAIN rows \subseteq Ids /\ rows \in [DOMAIN rows -> Row]
    BY TypesSplit, RowsFunction
  <1> USE <1>0 DEF Data, At, Finish, history
  <1>1. ASSUME NEW r \in Requests, NEW a \in Admins, Start(r, a)
        PROVE  Data'
    BY <1>1, IdleType DEF Start, Request
  <1>2. ASSUME NEW r \in Requests, StartInsert(r)
        PROVE  Data'
    <2>1. req' \in [Requests -> Request]
      <3>1. Len(rows) + 1 \in Hashes
        <4>1. Len(rows) < MaxSessions
          BY <1>2 DEF StartInsert
        <4> QED
          BY ONLY <1>0, <4>1, ImpersonationAssumption DEF Hashes
      <3>2. [req[r] EXCEPT !.pc = "issue", !.session = Len(rows) + 1] \in Request
        BY <3>1 DEF Request
      <3> QED
        BY <1>2, <3>2 DEF StartInsert
    <2>2. crowded' \subseteq Admins
      BY <1>2 DEF StartInsert, Request
    <2>3. /\ rows' \in Seq(Row) /\ Len(rows') <= MaxSessions
          /\ DOMAIN rows \subseteq DOMAIN rows'
      BY <1>2, InsertedRow
    <2> QED
      BY <1>2, <2>1, <2>2, <2>3 DEF StartInsert
  <1>3. ASSUME NEW r \in Requests, StartIssue(r)
        PROVE  Data'
    <2> DEFINE new == [req[r] EXCEPT !.pc = "saveHash", !.dirty = rows[req[r].session].ended]
    <2>1. rows[req[r].session].ended \in BOOLEAN
      BY <1>3 DEF SessionsExist, StartIssue, Starting, Row
    <2>2. new \in Request
      BY <2>1 DEF Request
    <2>3. req' = [req EXCEPT ![r] = new]
      BY <1>3 DEF StartIssue
    <2> HIDE DEF new
    <2> QED
      BY <1>3, <2>2, <2>3 DEF StartIssue
  <1>4. ASSUME NEW r \in Requests, StartSaveHash(r)
        PROVE  Data'
    <2>1. req' \in [Requests -> Request] /\ crowded' \subseteq Admins
      BY <1>4 DEF StartSaveHash, Request
    <2>2. rows' \in Seq(Row) /\ Len(rows') = Len(rows) /\ DOMAIN rows' = DOMAIN rows
      BY <1>4, SavedHash
    <2> QED
      BY <1>4, <2>1, <2>2 DEF StartSaveHash
  <1>5. ASSUME NEW r \in Requests, StartAnswer(r)
        PROVE  Data'
    BY <1>5, IdleType DEF StartAnswer, SessionsExist, Starting
  <1>6. ASSUME NEW r \in Requests, NEW t \in Ids, End(r, t)
        PROVE  Data'
    <2> DEFINE new == [Idle EXCEPT !.pc = "find", !.admin = rows[t].admin, !.token = t]
    <2>1. rows[t].admin \in Admins /\ t \in Hashes
      BY <1>6 DEF End, Row, Ids, Hashes
    <2>2. new \in Request
      BY <2>1, IdleType DEF Request
    <2> QED
      BY <1>6, <2>2 DEF End
  <1>7. ASSUME NEW r \in Requests, EndFind(r)
        PROVE  Data'
    <2>1. req[r].admin \in Admins
      BY DEF Request
    <2>2. CASE Candidates(req[r].admin) = {}
      <3>1. req' = [req EXCEPT ![r].pc = "reissue"] /\ foundPending' = foundPending
        BY <1>7, <2>2 DEF EndFind
      <3>2. req' \in [Requests -> Request]
        BY <3>1 DEF Request
      <3> QED
        BY <1>7, <3>1, <3>2 DEF EndFind
    <2>3. CASE Candidates(req[r].admin) # {}
      <3> DEFINE s == Max(Candidates(req[r].admin))
      <3>1. s \in DOMAIN rows /\ s \in Ids /\ rows[s] \in Row
        BY <2>1, <2>3, Found
      <3>2. /\ req' = [req EXCEPT ![r].pc = "saveEnd", ![r].session = s, ![r].copy = rows[s].hash]
            /\ foundPending' \in {foundPending, foundPending \cup {s}}
        BY <1>7, <2>3 DEF EndFind
      <3> HIDE DEF s
      <3>3. s \in Hashes /\ rows[s].hash \in Hashes
        BY <3>1 DEF Row, Ids, Hashes
      <3>4. [req[r] EXCEPT !.pc = "saveEnd", !.session = s, !.copy = rows[s].hash] \in Request
        BY <3>3 DEF Request
      <3>5. req' \in [Requests -> Request]
        BY <3>2, <3>4
      <3> QED
        BY <1>7, <3>1, <3>2, <3>5 DEF EndFind
    <2> QED
      BY <2>2, <2>3
  <1>8. ASSUME NEW r \in Requests, EndCompare(r)
        PROVE  Data'
    <2> DEFINE d == (rows[req[r].session].hash # req[r].copy)
    <2>1. d \in BOOLEAN
      OBVIOUS
    <2>2. req' = [req EXCEPT ![r].pc = "writeEnd", ![r].dirty = d]
      BY <1>8 DEF EndCompare
    <2> HIDE DEF d
    <2>3. req' \in [Requests -> Request]
      BY <2>1, <2>2 DEF Request
    <2> QED
      BY <1>8, <2>3 DEF EndCompare
  <1>9. ASSUME NEW r \in Requests, EndSave(r)
        PROVE  Data'
    <2>1. req' \in [Requests -> Request]
      BY <1>9 DEF EndSave, Request
    <2>2. rows' \in Seq(Row) /\ Len(rows') = Len(rows) /\ DOMAIN rows' = DOMAIN rows
      BY <1>9, SavedEnd
    <2> QED
      BY <1>9, <2>1, <2>2 DEF EndSave
  <1>10. ASSUME NEW r \in Requests, Revoke(r)
         PROVE  Data'
    BY <1>10 DEF Revoke, Request
  <1>11. ASSUME NEW r \in Requests, Reissue(r)
         PROVE  Data'
    BY <1>11, IdleType DEF Reissue, EndsOwn, Ending
  <1>12. ASSUME NEW r \in Requests, Abort(r)
         PROVE  Data'
    BY <1>12, IdleType DEF Abort, SessionsExist, Saving
  <1>13. ASSUME NEW s \in Ids, TokenExpires(s) \/ KeyExpires(s)
         PROVE  Data'
    BY <1>13 DEF TokenExpires, KeyExpires
  <1>14. CASE SetActive
    BY <1>14 DEF SetActive
  <1> QED
    BY <1>1, <1>2, <1>3, <1>4, <1>5, <1>6, <1>7, <1>8, <1>9, <1>10, <1>11, <1>12, <1>13,
       <1>14 DEF Next

-----------------------------------------------------------------------------
(* One lemma for each action.                                              *)

Rest ==
    /\ Starters /\ HashesMatch /\ HashSaved /\ AllEndedRevoked /\ OneOpen /\ EndsOwn
    /\ HandedOutOnRecord /\ AnsweredIsEnded

\* What the inductive invariant says of the types.
LEMMA InvFacts == IInv => ImpersonationTypeOK /\ Data /\ SessionsExist /\ rows \in [DOMAIN rows -> Row]
  BY RowsFunction, TypesSplit DEF IInv, SessionsExist, Starters, HashesMatch

\* A start has no session yet.
LEMMA StartStep ==
    ASSUME IInv, NEW r \in Requests, NEW a \in Admins, Start(r, a)
    PROVE  Rest' /\ answered' \subseteq handedOut'
  <1> USE IdleType, InvFacts DEF Start, At, Finish, history, Request, Starting, Saving, Ending, Data
  <1>1. Starters'
    BY DEF IInv, Starters
  <1>2. HashesMatch'
    BY DEF IInv, HashesMatch
  <1>3. HashSaved'
    BY DEF IInv, HashSaved
  <1>4. AllEndedRevoked'
    BY DEF IInv, AllEndedRevoked
  <1>5. OneOpen'
    BY DEF IInv, OneOpen
  <1>6. EndsOwn'
    BY DEF IInv, EndsOwn
  <1>7. HandedOutOnRecord'
    BY DEF IInv, HandedOutOnRecord
  <1>8. AnsweredIsEnded'
    BY DEF IInv, AnsweredIsEnded
  <1>9. answered' \subseteq handedOut'
    BY DEF IInv, EndsOwn
  <1> QED
    BY <1>1, <1>2, <1>3, <1>4, <1>5, <1>6, <1>7, <1>8, <1>9 DEF Rest

\* A new session is open, has the placeholder, and belongs to its start alone.
LEMMA StartInsertStep ==
    ASSUME IInv, NEW r \in Requests, StartInsert(r)
    PROVE  Rest' /\ answered' \subseteq handedOut'
  <1> DEFINE n == Len(rows) + 1
             a == req[r].admin
  <1>1. /\ DOMAIN rows' = DOMAIN rows \cup {n} /\ n \notin DOMAIN rows
        /\ \A s \in DOMAIN rows : rows'[s] = rows[s]
        /\ rows'[n] = [admin |-> a, hash |-> Pending, ended |-> FALSE]
    BY InvFacts, InsertedRow
  <1>2. /\ req[r].pc = "insert"
        /\ req'[r].pc = "issue" /\ req'[r].session = n /\ req'[r].admin = a
        /\ \A q \in Requests \ {r} : req'[q] = req[q]
    BY InvFacts DEF StartInsert, At, Data, Request
  <1>3. /\ crowded' = IF Open(a) = {} THEN crowded ELSE crowded \cup {a}
        /\ UNCHANGED <<active, expired, over, revoked, handedOut, announced, faults,
                       foundPending, lost, answered>>
    BY DEF StartInsert
  <1>4. /\ handedOut \subseteq DOMAIN rows /\ answered \subseteq handedOut
        /\ foundPending \subseteq DOMAIN rows
    BY InvFacts DEF IInv, Data
  <1> HIDE DEF n
  <1> USE <1>1, <1>2, <1>3, <1>4 DEF Starting, Saving, Ending
  <1>5. Starters'
    BY DEF IInv, Starters
  <1>6. HashesMatch'
    BY DEF IInv, HashesMatch
  <1>7. HashSaved'
    BY DEF IInv, HashSaved, Starters
  <1>8. AllEndedRevoked'
    BY DEF IInv, AllEndedRevoked, At
  <1>9. OneOpen'
    <2>1. CASE Open(a) = {}
      BY <2>1 DEF IInv, OneOpen, Open
    <2>2. CASE Open(a) # {}
      BY <2>2 DEF IInv, OneOpen
    <2> QED
      BY <2>1, <2>2
  <1>10. EndsOwn'
    BY DEF IInv, EndsOwn
  <1>11. HandedOutOnRecord' /\ AnsweredIsEnded'
    BY DEF IInv, HandedOutOnRecord, AnsweredIsEnded
  <1> QED
    BY <1>5, <1>6, <1>7, <1>8, <1>9, <1>10, <1>11 DEF Rest

\* Nothing but the request changes.
LEMMA StartIssueStep ==
    ASSUME IInv, NEW r \in Requests, StartIssue(r)
    PROVE  Rest' /\ answered' \subseteq handedOut'
  <1> USE IdleType, InvFacts DEF StartIssue, At, Finish, history, Request, Starting, Saving, Ending, Data
  <1>1. Starters'
    BY DEF IInv, Starters
  <1>2. HashesMatch'
    BY DEF IInv, HashesMatch
  <1>3. HashSaved'
    BY DEF IInv, HashSaved
  <1>4. AllEndedRevoked'
    BY DEF IInv, AllEndedRevoked
  <1>5. OneOpen'
    BY DEF IInv, OneOpen
  <1>6. EndsOwn'
    BY DEF IInv, EndsOwn
  <1>7. HandedOutOnRecord'
    BY DEF IInv, HandedOutOnRecord
  <1>8. AnsweredIsEnded'
    BY DEF IInv, AnsweredIsEnded
  <1>9. answered' \subseteq handedOut'
    BY DEF IInv, EndsOwn
  <1> QED
    BY <1>1, <1>2, <1>3, <1>4, <1>5, <1>6, <1>7, <1>8, <1>9 DEF Rest

\* The hash is saved, and a session ended meanwhile may be open again.
LEMMA StartSaveHashStep ==
    ASSUME IInv, NEW r \in Requests, StartSaveHash(r)
    PROVE  Rest' /\ answered' \subseteq handedOut'
  <1> DEFINE s == req[r].session
             a == req[r].admin
  <1>1. /\ s \in DOMAIN rows /\ DOMAIN rows' = DOMAIN rows
        /\ rows'[s].hash = s /\ rows'[s].admin = rows[s].admin
        /\ rows'[s].ended => rows[s].ended
        /\ ~rows'[s].ended => ~rows[s].ended \/ req[r].dirty
        /\ \A u \in DOMAIN rows \ {s} : rows'[u] = rows[u]
    BY InvFacts, SavedHash
  <1>2. /\ req[r].pc = "saveHash" /\ req[r].session = s
        /\ req'[r].pc = "answer" /\ req'[r].session = s /\ req'[r].admin = a
        /\ \A q \in Requests \ {r} : req'[q] = req[q]
    BY InvFacts DEF StartSaveHash, At, Data, Request
  <1>3. /\ crowded' = IF req[r].dirty /\ Open(a) \ {s} # {} THEN crowded \cup {a} ELSE crowded
        /\ UNCHANGED <<active, expired, over, revoked, handedOut, announced, faults,
                       foundPending, lost, answered>>
    BY DEF StartSaveHash
  <1>4. /\ handedOut \subseteq DOMAIN rows /\ answered \subseteq handedOut
        /\ s \notin handedOut /\ rows[s].admin = a
    BY <1>2, InvFacts DEF IInv, Data, Starters, Starting
  <1> HIDE DEF s
  <1> USE <1>1, <1>2, <1>3, <1>4 DEF Starting, Saving, Ending
  <1>5. Starters'
    BY DEF IInv, Starters
  <1>6. HashesMatch'
    BY DEF IInv, HashesMatch
  <1>7. HashSaved'
    BY DEF IInv, HashSaved, Starters
  <1>8. AllEndedRevoked'
    BY DEF IInv, AllEndedRevoked, At
  <1>9. OneOpen'
    <2>1. CASE req[r].dirty /\ Open(a) \ {s} # {}
      BY <2>1 DEF IInv, OneOpen
    <2>2. CASE ~req[r].dirty
      BY <2>2 DEF IInv, OneOpen
    <2>3. CASE Open(a) \ {s} = {}
      BY <2>3 DEF IInv, OneOpen, Open
    <2> QED
      BY <2>1, <2>2, <2>3
  <1>10. EndsOwn'
    BY DEF IInv, EndsOwn
  <1>11. HandedOutOnRecord' /\ AnsweredIsEnded'
    BY DEF IInv, HandedOutOnRecord, AnsweredIsEnded
  <1> QED
    BY <1>5, <1>6, <1>7, <1>8, <1>9, <1>10, <1>11 DEF Rest

\* The token is handed out: its session is on record, and announced unless the broker failed.
LEMMA StartAnswerStep ==
    ASSUME IInv, NEW r \in Requests, StartAnswer(r)
    PROVE  Rest' /\ answered' \subseteq handedOut'
  <1> USE IdleType, InvFacts DEF StartAnswer, At, Finish, history, Request, Starting, Saving, Ending, Data
  <1>1. Starters'
    BY DEF IInv, Starters
  <1>2. HashesMatch'
    BY DEF IInv, HashesMatch
  <1>3. HashSaved'
    BY DEF IInv, HashSaved
  <1>4. AllEndedRevoked'
    BY DEF IInv, AllEndedRevoked
  <1>5. OneOpen'
    BY DEF IInv, OneOpen
  <1>6. EndsOwn'
    BY DEF IInv, EndsOwn
  <1>7. HandedOutOnRecord'
    BY DEF IInv, HandedOutOnRecord, HashSaved
  <1>8. AnsweredIsEnded'
    BY DEF IInv, AnsweredIsEnded
  <1>9. answered' \subseteq handedOut'
    BY DEF IInv, EndsOwn
  <1> QED
    BY <1>1, <1>2, <1>3, <1>4, <1>5, <1>6, <1>7, <1>8, <1>9 DEF Rest

\* An end holds a token that was handed out.
LEMMA EndStep ==
    ASSUME IInv, NEW r \in Requests, NEW t \in Ids, End(r, t)
    PROVE  Rest' /\ answered' \subseteq handedOut'
  <1> USE IdleType, InvFacts DEF End, At, Finish, history, Request, Starting, Saving, Ending, Data
  <1>1. Starters'
    BY DEF IInv, Starters
  <1>2. HashesMatch'
    BY DEF IInv, HashesMatch
  <1>3. HashSaved'
    BY DEF IInv, HashSaved
  <1>4. AllEndedRevoked'
    BY DEF IInv, AllEndedRevoked
  <1>5. OneOpen'
    BY DEF IInv, OneOpen
  <1>6. EndsOwn'
    BY DEF IInv, EndsOwn
  <1>7. HandedOutOnRecord'
    BY DEF IInv, HandedOutOnRecord
  <1>8. AnsweredIsEnded'
    BY DEF IInv, AnsweredIsEnded
  <1>9. answered' \subseteq handedOut'
    BY DEF IInv, EndsOwn
  <1> QED
    BY <1>1, <1>2, <1>3, <1>4, <1>5, <1>6, <1>7, <1>8, <1>9 DEF Rest

\* The session of the token is ended or the one that is found, unless two were open.
LEMMA EndFindStep ==
    ASSUME IInv, NEW r \in Requests, EndFind(r)
    PROVE  Rest' /\ answered' \subseteq handedOut'
  <1> DEFINE a == req[r].admin
             s == Max(Candidates(a))
             t == req[r].token
  <1>1. /\ req[r].pc = "find" /\ t \in handedOut /\ a = rows[t].admin /\ a \in Admins
        /\ handedOut \subseteq DOMAIN rows /\ answered \subseteq handedOut
    BY InvFacts DEF IInv, EndFind, At, EndsOwn, Ending, Data, Request
  <1>2. UNCHANGED <<rows, active, expired, over, revoked, handedOut, announced, faults,
                    lost, crowded, answered>>
    BY DEF EndFind
  <1>3. CASE Candidates(a) = {}
    <2>1. /\ foundPending' = foundPending
          /\ req' = [req EXCEPT ![r].pc = "reissue"]
      BY <1>3 DEF EndFind
    <2>2. /\ req'[r].pc = "reissue" /\ req'[r].token = t /\ req'[r].admin = a
          /\ \A q \in Requests \ {r} : req'[q] = req[q]
      BY <2>1, InvFacts DEF Data, Request
    <2>3. rows[t].ended
      BY <1>1, <1>3 DEF Candidates, Open
    <2> USE <1>1, <1>2, <2>1, <2>2, <2>3 DEF Starting, Saving, Ending
    <2>4. Starters' /\ HashesMatch' /\ HashSaved'
      BY DEF IInv, Starters, HashesMatch, HashSaved
    <2>5. AllEndedRevoked' /\ OneOpen'
      BY DEF IInv, AllEndedRevoked, OneOpen, At
    <2>6. EndsOwn'
      BY DEF IInv, EndsOwn
    <2>7. HandedOutOnRecord' /\ AnsweredIsEnded'
      BY DEF IInv, HandedOutOnRecord, AnsweredIsEnded
    <2> QED
      BY <2>4, <2>5, <2>6, <2>7 DEF Rest
  <1>4. CASE Candidates(a) # {}
    <2>1. s \in DOMAIN rows /\ rows[s].admin = a /\ ~rows[s].ended
      BY <1>1, <1>4, InvFacts, Found
    <2>2. /\ req' = [req EXCEPT ![r].pc = "saveEnd", ![r].session = s, ![r].copy = rows[s].hash]
          /\ foundPending' = IF rows[s].hash = Pending THEN foundPending \cup {s}
                                                       ELSE foundPending
      BY <1>4 DEF EndFind
    <2>0. /\ req[r].token = t /\ req[r].admin = a
          /\ rows[s].hash \in {Pending, s} /\ foundPending \subseteq foundPending'
          /\ rows[s].hash = s \/ s \in foundPending'
      BY <2>1, <2>2 DEF IInv, HashesMatch
    <2> HIDE DEF s, t, a
    <2>3. /\ req'[r].pc = "saveEnd" /\ req'[r].session = s /\ req'[r].copy = rows[s].hash
          /\ req'[r].token = t /\ req'[r].admin = a
          /\ \A q \in Requests \ {r} : req'[q] = req[q]
      BY <2>0, <2>2, InvFacts DEF Data, Request
    <2>4. rows[t].ended \/ a \in crowded \/ s = t
      BY <1>1, <2>1 DEF IInv, OneOpen
    <2> USE <1>1, <1>2, <2>0, <2>1, <2>3, <2>4 DEF Starting, Saving, Ending
    <2>5. Starters' /\ HashSaved'
      BY DEF IInv, Starters, HashSaved
    <2>6. HashesMatch'
      BY DEF IInv, HashesMatch
    <2>7. AllEndedRevoked' /\ OneOpen'
      BY DEF IInv, AllEndedRevoked, OneOpen, At
    <2>8. EndsOwn'
      BY DEF IInv, EndsOwn
    <2>9. HandedOutOnRecord' /\ AnsweredIsEnded'
      BY DEF IInv, HandedOutOnRecord, AnsweredIsEnded
    <2> QED
      BY <2>5, <2>6, <2>7, <2>8, <2>9 DEF Rest
  <1> QED
    BY <1>3, <1>4

\* Nothing but the request changes.
LEMMA EndCompareStep ==
    ASSUME IInv, NEW r \in Requests, EndCompare(r)
    PROVE  Rest' /\ answered' \subseteq handedOut'
  <1> USE IdleType, InvFacts DEF EndCompare, At, Finish, history, Request, Starting, Saving, Ending, Data
  <1>1. Starters'
    BY DEF IInv, Starters
  <1>2. HashesMatch'
    BY DEF IInv, HashesMatch
  <1>3. HashSaved'
    BY DEF IInv, HashSaved
  <1>4. AllEndedRevoked'
    BY DEF IInv, AllEndedRevoked
  <1>5. OneOpen'
    BY DEF IInv, OneOpen
  <1>6. EndsOwn'
    BY DEF IInv, EndsOwn
  <1>7. HandedOutOnRecord'
    BY DEF IInv, HandedOutOnRecord
  <1>8. AnsweredIsEnded'
    BY DEF IInv, AnsweredIsEnded
  <1>9. answered' \subseteq handedOut'
    BY DEF IInv, EndsOwn
  <1> QED
    BY <1>1, <1>2, <1>3, <1>4, <1>5, <1>6, <1>7, <1>8, <1>9 DEF Rest

\* The session is ended and its request is about to revoke the token.
LEMMA EndSaveStep ==
    ASSUME IInv, NEW r \in Requests, EndSave(r)
    PROVE  Rest' /\ answered' \subseteq handedOut'
  <1> DEFINE s == req[r].session
             t == req[r].token
  <1>1. /\ s \in DOMAIN rows /\ DOMAIN rows' = DOMAIN rows
        /\ rows'[s].hash \in {rows[s].hash, req[r].copy}
        /\ rows'[s].admin = rows[s].admin /\ rows'[s].ended
        /\ \A u \in DOMAIN rows \ {s} : rows'[u] = rows[u]
    BY InvFacts, SavedEnd
  <1>2. /\ req[r].pc = "writeEnd" /\ req[r].session = s /\ req[r].token = t
        /\ req'[r].pc = "revoke"
        /\ req'[r].session = s /\ req'[r].token = t
        /\ req'[r].admin = req[r].admin /\ req'[r].copy = req[r].copy
        /\ \A q \in Requests \ {r} : req'[q] = req[q]
    BY InvFacts DEF EndSave, At, Data, Request
  <1>3. UNCHANGED <<active, expired, over, revoked, handedOut, announced, faults, foundPending,
                    lost, crowded, answered>>
    BY DEF EndSave, history
  <1>4. /\ handedOut \subseteq DOMAIN rows /\ answered \subseteq handedOut
        /\ req[r].copy = s \/ s \in foundPending
        /\ req[r].copy \in {Pending, s}
    BY <1>2, InvFacts DEF IInv, Data, HashesMatch, Saving
  <1> HIDE DEF s, t
  <1> USE <1>1, <1>2, <1>3, <1>4 DEF Starting, Saving, Ending
  <1>5. Starters'
    BY DEF IInv, Starters
  <1>6. HashesMatch'
    BY DEF IInv, HashesMatch
  <1>7. HashSaved'
    BY DEF IInv, HashSaved, Starters
  <1>8. AllEndedRevoked'
    BY DEF IInv, AllEndedRevoked, At
  <1>9. OneOpen'
    BY DEF IInv, OneOpen
  <1>10. EndsOwn'
    BY DEF IInv, EndsOwn
  <1>11. HandedOutOnRecord' /\ AnsweredIsEnded'
    BY DEF IInv, HandedOutOnRecord, AnsweredIsEnded
  <1> QED
    BY <1>5, <1>6, <1>7, <1>8, <1>9, <1>10, <1>11 DEF Rest

\* The copy's hash is that of the session unless an end had loaded the placeholder.
LEMMA RevokeStep ==
    ASSUME IInv, NEW r \in Requests, Revoke(r)
    PROVE  Rest' /\ answered' \subseteq handedOut'
  <1> USE IdleType, InvFacts DEF Revoke, At, Finish, history, Request, Starting, Saving, Ending, Data
  <1>1. Starters'
    BY DEF IInv, Starters
  <1>2. HashesMatch'
    BY DEF IInv, HashesMatch
  <1>3. HashSaved'
    BY DEF IInv, HashSaved
  <1>4. AllEndedRevoked'
    BY DEF IInv, AllEndedRevoked, HashesMatch
  <1>5. OneOpen'
    BY DEF IInv, OneOpen
  <1>6. EndsOwn'
    BY DEF IInv, EndsOwn
  <1>7. HandedOutOnRecord'
    BY DEF IInv, HandedOutOnRecord
  <1>8. AnsweredIsEnded'
    BY DEF IInv, AnsweredIsEnded
  <1>9. answered' \subseteq handedOut'
    BY DEF IInv, EndsOwn
  <1> QED
    BY <1>1, <1>2, <1>3, <1>4, <1>5, <1>6, <1>7, <1>8, <1>9 DEF Rest

\* The end is answered when the token's session is ended.
LEMMA ReissueStep ==
    ASSUME IInv, NEW r \in Requests, Reissue(r)
    PROVE  Rest' /\ answered' \subseteq handedOut'
  <1> USE IdleType, InvFacts DEF Reissue, At, Finish, history, Request, Starting, Saving, Ending, Data
  <1>1. Starters'
    BY DEF IInv, Starters
  <1>2. HashesMatch'
    BY DEF IInv, HashesMatch
  <1>3. HashSaved'
    BY DEF IInv, HashSaved
  <1>4. AllEndedRevoked'
    BY DEF IInv, AllEndedRevoked
  <1>5. OneOpen'
    BY DEF IInv, OneOpen
  <1>6. EndsOwn'
    BY DEF IInv, EndsOwn
  <1>7. HandedOutOnRecord'
    BY DEF IInv, HandedOutOnRecord
  <1>8. AnsweredIsEnded'
    BY DEF IInv, AnsweredIsEnded, EndsOwn
  <1>9. answered' \subseteq handedOut'
    BY DEF IInv, EndsOwn
  <1> QED
    BY <1>1, <1>2, <1>3, <1>4, <1>5, <1>6, <1>7, <1>8, <1>9 DEF Rest

\* A failing end leaves its session to the history.
LEMMA AbortStep ==
    ASSUME IInv, NEW r \in Requests, Abort(r)
    PROVE  Rest' /\ answered' \subseteq handedOut'
  <1> USE IdleType, InvFacts DEF Abort, At, Finish, history, Request, Starting, Saving, Ending, Data
  <1>1. Starters'
    BY DEF IInv, Starters
  <1>2. HashesMatch'
    BY DEF IInv, HashesMatch
  <1>3. HashSaved'
    BY DEF IInv, HashSaved
  <1>4. AllEndedRevoked'
    BY DEF IInv, AllEndedRevoked
  <1>5. OneOpen'
    BY DEF IInv, OneOpen
  <1>6. EndsOwn'
    BY DEF IInv, EndsOwn
  <1>7. HandedOutOnRecord'
    BY DEF IInv, HandedOutOnRecord
  <1>8. AnsweredIsEnded'
    BY DEF IInv, AnsweredIsEnded
  <1>9. answered' \subseteq handedOut'
    BY DEF IInv, EndsOwn
  <1> QED
    BY <1>1, <1>2, <1>3, <1>4, <1>5, <1>6, <1>7, <1>8, <1>9 DEF Rest

\* Redis drops a key only when the session's time is over.
LEMMA ExpireStep ==
    ASSUME IInv, NEW s \in Ids, TokenExpires(s) \/ KeyExpires(s)
    PROVE  Rest' /\ answered' \subseteq handedOut'
  <1> USE InvFacts DEF TokenExpires, KeyExpires, At, history, Starting, Saving, Ending, Data
  <1>1. Starters' /\ HashesMatch' /\ HashSaved'
    BY DEF IInv, Starters, HashesMatch, HashSaved
  <1>2. AllEndedRevoked'
    <2>1. /\ UNCHANGED <<rows, req, foundPending, lost>> /\ over \subseteq over'
          /\ \A u \in revoked : u \in revoked' \/ u \in over' \/ u = Pending
      OBVIOUS
    <2>2. Pending \notin DOMAIN rows
      BY RowsFunction DEF Pending
    <2> QED
      BY ONLY IInv, <2>1, <2>2 DEF IInv, AllEndedRevoked, At
  <1>3. OneOpen' /\ EndsOwn'
    BY DEF IInv, OneOpen, EndsOwn
  <1>4. HandedOutOnRecord' /\ AnsweredIsEnded' /\ answered' \subseteq handedOut'
    BY DEF IInv, HandedOutOnRecord, AnsweredIsEnded
  <1> QED
    BY <1>1, <1>2, <1>3, <1>4 DEF Rest

\* Whether the target is active matters to none of it.
LEMMA CalmStep ==
    ASSUME IInv, UNCHANGED <<rows, expired, over, revoked, handedOut, announced, req, faults, history>>
    PROVE  Rest' /\ answered' \subseteq handedOut'
  <1> USE DEF At, history
  <1>1. Starters' /\ HashesMatch' /\ HashSaved'
    BY DEF IInv, Starters, HashesMatch, HashSaved
  <1>2. AllEndedRevoked'
    BY DEF IInv, AllEndedRevoked
  <1>3. OneOpen' /\ EndsOwn'
    BY DEF IInv, OneOpen, EndsOwn
  <1>4. HandedOutOnRecord' /\ AnsweredIsEnded' /\ answered' \subseteq handedOut'
    BY DEF IInv, HandedOutOnRecord, AnsweredIsEnded
  <1> QED
    BY <1>1, <1>2, <1>3, <1>4 DEF Rest

-----------------------------------------------------------------------------
(* The invariant.                                                          *)

\* There are no sessions to begin with.
LEMMA InitInv == Init => IInv
  <1> SUFFICES ASSUME Init PROVE IInv
    OBVIOUS
  <1>1. /\ rows \in Seq(Row) /\ Len(rows) = 0 /\ DOMAIN rows = {}
        /\ \A r \in Requests : req[r] = Idle /\ req[r].pc = "idle"
    BY IdleType, EmptySeq DEF Init
  <1>2. ImpersonationTypeOK
    <2>1. Data
      BY <1>1, IdleType, ImpersonationAssumption DEF Init, Data
    <2>2. active \in BOOLEAN
      BY DEF Init
    <2> QED
      BY <2>1, <2>2, TypesSplit
  <1>3. Rest /\ answered \subseteq handedOut
    BY <1>1 DEF Init, Rest, Starters, HashesMatch, HashSaved, AllEndedRevoked, OneOpen,
       EndsOwn, HandedOutOnRecord, AnsweredIsEnded, Starting, Saving, Ending
  <1> QED
    BY <1>2, <1>3 DEF IInv, Rest

\* Every step keeps the types and, action by action, the rest.
LEMMA NextInv == IInv /\ [Next]_vars => IInv'
  <1> SUFFICES ASSUME IInv, [Next]_vars PROVE IInv'
    OBVIOUS
  <1>1. ImpersonationTypeOK'
    <2>1. active' \in BOOLEAN
      BY InvFacts, ActiveStep, TypesSplit
    <2>2. CASE Next
      <3>1. EndsOwn
        BY DEF IInv
      <3>2. Data'
        BY <2>2, <3>1, InvFacts, DataStep
      <3> QED
        BY <2>1, <3>2, TypesSplitNext
    <2>3. CASE UNCHANGED vars
      BY <2>1, <2>3, InvFacts, TypesSplitNext DEF Data, vars, history
    <2> QED
      BY <2>2, <2>3
  <1>2. Rest' /\ answered' \subseteq handedOut'
    <2>1. CASE UNCHANGED vars
      BY <2>1, CalmStep DEF vars
    <2>2. CASE SetActive
      BY <2>2, CalmStep DEF SetActive
    <2>3. CASE \E s \in Ids : TokenExpires(s) \/ KeyExpires(s)
      BY <2>3, ExpireStep
    <2>4. ASSUME NEW r \in Requests,
                 \/ \E a \in Admins : Start(r, a)
                 \/ \E t \in Ids : End(r, t)
                 \/ StartInsert(r) \/ StartIssue(r) \/ StartSaveHash(r) \/ StartAnswer(r)
                 \/ EndFind(r) \/ EndCompare(r) \/ EndSave(r) \/ Revoke(r) \/ Reissue(r)
                 \/ Abort(r)
          PROVE  Rest' /\ answered' \subseteq handedOut'
      BY <2>4, StartStep, EndStep, StartInsertStep, StartIssueStep, StartSaveHashStep,
         StartAnswerStep, EndFindStep, EndCompareStep, EndSaveStep, RevokeStep, ReissueStep,
         AbortStep
    <2> QED
      BY <2>1, <2>2, <2>3, <2>4 DEF Next
  <1> QED
    BY <1>1, <1>2 DEF IInv, Rest

\* The inductive invariant.
LEMMA Invariance == Spec => []IInv
  <1> QED
    BY InitInv, NextInv, PTL DEF Spec

\* The token of an ended session is on the blacklist up to the last second of the session,
\* or about to be, unless the end read the placeholder or died between its save and the blacklist.
THEOREM EndedTokensRevoked == Spec => []ImpersonationInv
  <1>1. IInv => ImpersonationInv
    BY InvFacts DEF IInv, ImpersonationInv, EndedIsRevoked, AllEndedRevoked, Data
  <1> QED
    BY <1>1, Invariance, PTL

\* Whatever dies half-way through startImpersonation, a token that somebody holds has its
\* hash in the table and its event with the audit service.
THEOREM TokensOnRecord == Spec => []HandedOutOnRecord
  <1>1. IInv => HandedOutOnRecord
    BY DEF IInv
  <1> QED
    BY <1>1, Invariance, PTL

\* However ends are repeated and overlap, an end that was answered has ended the session
\* of the token that was presented, unless two sessions of the administrator were open.
THEOREM AnswersAreTrue == Spec => []AnsweredIsEnded
  <1>1. IInv => AnsweredIsEnded
    BY DEF IInv
  <1> QED
    BY <1>1, Invariance, PTL

=============================================================================
