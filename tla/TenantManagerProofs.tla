------------------------- MODULE TenantManagerProofs -------------------------
(***************************************************************************)
(* The tenant manager, for any features, plans, requests, writes and       *)
(* faults: the cache of the feature flags is stale only by a race and      *)
(* keeps the promise of FlagPromise, and a tenant's row, its plan's        *)
(* features and their rows stay together.                                  *)
(***************************************************************************)
EXTENDS TenantLifecycle, TLAPS

-----------------------------------------------------------------------------
(* Feature flags: types.                                                   *)

\* The record of a request that is not in flight, and the one that begins to scan.
LEMMA IdleType ==
    /\ Idle \in Request /\ Idle.pc = "idle"
    /\ ScanFrom \in Request /\ ScanFrom.pc = "scan" /\ ScanFrom.todo = Features
    /\ NoRow \in Row /\ NoRow.id = 0 /\ NoRow.isEnabled = "off"
  <1>1. Idle \in Request /\ Idle.pc = "idle" /\ NoRow \in Row
        /\ NoRow.id = 0 /\ NoRow.isEnabled = "off"
    BY FlagsAssumption DEF Idle, Request, AFeature, Flags, NoRow, Row
  <1> DEFINE q1 == [Idle EXCEPT !.pc = "scan"]
  <1>2. ScanFrom = [q1 EXCEPT !.todo = Features] /\ ScanFrom.pc = "scan"
        /\ ScanFrom.todo = Features
    BY <1>1 DEF ScanFrom, Request
  <1>3. q1 \in Request
    BY <1>1 DEF Request, Replacing
  <1> HIDE DEF q1
  <1>4. ScanFrom \in Request
    BY <1>2, <1>3 DEF Request
  <1> QED
    BY <1>1, <1>2, <1>4

\* Requests that begin.
LEMMA BeginType ==
    /\ \A f \in Features : [Idle EXCEPT !.pc = "override", !.feature = f] \in Request
    /\ \A f \in Features, v \in Flags :
          [Idle EXCEPT !.pc = "load", !.feature = f, !.value = v] \in Request
    /\ \A codes \in SUBSET Features : [Idle EXCEPT !.pc = "delete", !.codes = codes] \in Request
  BY IdleType DEF Request, Reading, Toggling, Replacing

\* One row is written, a row that exists.
LEMMA InsertType ==
    ASSUME FlagsTypeOK, NEW f \in Features, NEW v \in Flags, Insert(f, v)
    PROVE  rows' \in [Features -> Row] /\ lastId' \in Nat
  BY DEF FlagsTypeOK, Insert, Row

\* Every action of a request keeps the types.
LEMMA FlagsTypes ==
    ASSUME FlagsTypeOK, [FlagsNext]_flagVars
    PROVE  FlagsTypeOK'
  <1> USE DEF FlagsTypeOK
  <1>1. ASSUME NEW r \in Requests, NEW f \in Features, CheckMisses(r, f)
        PROVE  FlagsTypeOK'
    BY <1>1, BeginType DEF CheckMisses
  <1>2. ASSUME NEW r \in Requests, ReadOverride(r)
        PROVE  FlagsTypeOK'
    <2> DEFINE row == rows[req[r].feature]
               pc == IF row.id # 0 THEN "fill" ELSE "default"
    <2>1. row.isEnabled \in Flags /\ pc \in Reading
      BY DEF Request, Row, Reading
    <2>2. req' = [req EXCEPT ![r].pc = pc, ![r].value = row.isEnabled]
      BY <1>2 DEF ReadOverride
    <2> HIDE DEF row, pc
    <2>3. req' \in [Requests -> Request]
      BY <2>1, <2>2 DEF Request
    <2> QED
      BY <1>2, <2>3 DEF ReadOverride
  <1>3. ASSUME NEW r \in Requests, ReadDefault(r)
        PROVE  FlagsTypeOK'
    <2> DEFINE v == DefaultOf(req[r].feature)
    <2>1. v \in Flags
      BY DEF DefaultOf, Flags
    <2>2. req' = [req EXCEPT ![r].pc = "fill", ![r].value = v]
      BY <1>3 DEF ReadDefault
    <2> HIDE DEF v
    <2>3. req' \in [Requests -> Request]
      BY <2>1, <2>2 DEF Request, Reading
    <2> QED
      BY <1>3, <2>3 DEF ReadDefault
  <1>4. ASSUME NEW r \in Requests, Fill(r)
        PROVE  FlagsTypeOK'
    BY <1>4, IdleType DEF Fill, Finish, Request
  <1>5. ASSUME NEW f \in Features, Expire(f)
        PROVE  FlagsTypeOK'
    BY <1>5 DEF Expire
  <1>6. ASSUME NEW r \in Requests, NEW f \in Features, NEW v \in Flags, Toggle(r, f, v)
        PROVE  FlagsTypeOK'
    <2> DEFINE new == [Idle EXCEPT !.pc = "load", !.feature = f, !.value = v]
    <2>1. new \in Request
      BY BeginType
    <2>2. req' = [req EXCEPT ![r] = new]
      BY <1>6 DEF Toggle
    <2> HIDE DEF new
    <2> QED
      BY <1>6, <2>1, <2>2 DEF Toggle
  <1>7. ASSUME NEW r \in Requests, ToggleLoad(r)
        PROVE  FlagsTypeOK'
    <2> DEFINE n == rows[req[r].feature].id
    <2>1. n \in Nat
      BY DEF Request, Row
    <2>2. req' = [req EXCEPT ![r].pc = "save", ![r].id = n]
      BY <1>7 DEF ToggleLoad
    <2> HIDE DEF n
    <2>3. req' \in [Requests -> Request]
      BY <2>1, <2>2 DEF Request, Toggling
    <2> QED
      BY <1>7, <2>3 DEF ToggleLoad
  <1>8. ASSUME NEW r \in Requests, ToggleSave(r)
        PROVE  FlagsTypeOK'
    <2>1. req[r].feature \in Features /\ req[r].value \in Flags
      BY DEF Request
    <2>2. rows' \in [Features -> Row] /\ lastId' \in Nat
      BY <1>8, <2>1, InsertType DEF ToggleSave, Row
    <2>3. req' \in [Requests -> Request] /\ excused' \subseteq Features
      BY <1>8, IdleType DEF ToggleSave, Goto, GiveUp, Finish, Request, Toggling
    <2> QED
      BY <1>8, <2>2, <2>3 DEF ToggleSave
  <1>9. ASSUME NEW r \in Requests, ToggleDel(r)
        PROVE  FlagsTypeOK'
    BY <1>9, IdleType DEF ToggleDel, Finish, Request
  <1>10. ASSUME NEW r \in Requests, DeleteRows(r)
         PROVE  FlagsTypeOK'
    <2> DEFINE codes == req[r].codes
    <2>1. codes \in SUBSET Features
      BY DEF Request
    <2>2. req' = [req EXCEPT ![r].pc = "insert", ![r].todo = codes]
      BY <1>10 DEF DeleteRows
    <2> HIDE DEF codes
    <2>3. req' \in [Requests -> Request]
      <3> DEFINE q1 == [req[r] EXCEPT !.pc = "insert"]
                 new == [q1 EXCEPT !.todo = codes]
      <3>1. req' = [req EXCEPT ![r] = new]
        BY <2>2
      <3>2. q1 \in Request
        BY DEF Request, Replacing
      <3> HIDE DEF q1
      <3>3. new \in Request
        BY <2>1, <3>2 DEF Request
      <3> HIDE DEF new
      <3> QED
        BY <3>1, <3>3
    <2> QED
      BY <1>10, <2>3, IdleType DEF DeleteRows
  <1>11. ASSUME NEW r \in Requests, NEW f \in Features, InsertRow(r, f)
         PROVE  FlagsTypeOK'
    <2>1. rows' \in [Features -> Row] /\ lastId' \in Nat
      BY <1>11, InsertType DEF InsertRow, Flags
    <2>2. req' \in [Requests -> Request] /\ excused' \subseteq Features
      BY <1>11, IdleType DEF InsertRow, GiveUp, Finish, Request
    <2> QED
      BY <1>11, <2>1, <2>2 DEF InsertRow
  <1>12. ASSUME NEW r \in Requests, RowsReplaced(r)
         PROVE  FlagsTypeOK'
    BY <1>12, IdleType DEF RowsReplaced
  <1>13. ASSUME NEW r \in Requests, NEW f \in Features, Scan(r, f)
         PROVE  FlagsTypeOK'
    <2> DEFINE keys == IF Cached(f) THEN req[r].keys \cup {f} ELSE req[r].keys
               todo == req[r].todo \ {f}
    <2>1. keys \in SUBSET Features /\ todo \in SUBSET Features
      BY DEF Request
    <2>2. req' = [req EXCEPT ![r].todo = todo, ![r].keys = keys]
      BY <1>13 DEF Scan
    <2> HIDE DEF keys, todo
    <2>3. req' \in [Requests -> Request]
      BY <2>1, <2>2 DEF Request
    <2> QED
      BY <1>13, <2>3 DEF Scan
  <1>14. ASSUME NEW r \in Requests, ScanDone(r)
         PROVE  FlagsTypeOK'
    <2>1. req' \in [Requests -> Request]
      BY <1>14 DEF ScanDone, Goto, Request, Replacing
    <2> QED
      BY <1>14, <2>1 DEF ScanDone
  <1>15. ASSUME NEW r \in Requests, DelKeys(r)
         PROVE  FlagsTypeOK'
    BY <1>15, IdleType DEF DelKeys, Finish
  <1>16. ASSUME NEW r \in Requests, NEW codes \in FeatureSets, Replace(r, codes)
         PROVE  FlagsTypeOK'
    <2> DEFINE new == [Idle EXCEPT !.pc = "delete", !.codes = codes]
    <2>1. new \in Request
      BY BeginType, FlagsAssumption
    <2>2. req' = [req EXCEPT ![r] = new]
      BY <1>16 DEF Replace
    <2> HIDE DEF new
    <2> QED
      BY <1>16, <2>1, <2>2 DEF Replace
  <1>17. ASSUME NEW r \in Requests, FlagsAbort(r)
         PROVE  FlagsTypeOK'
    BY <1>17, IdleType DEF FlagsAbort, GiveUp, Finish
  <1>18. CASE UNCHANGED flagVars
    BY <1>18 DEF flagVars
  <1> QED
    BY <1>1, <1>2, <1>3, <1>4, <1>5, <1>6, <1>7, <1>8, <1>9, <1>10, <1>11, <1>12, <1>13, <1>14,
       <1>15, <1>16, <1>17, <1>18 DEF FlagsNext, FlagsStep, ReplaceStep

-----------------------------------------------------------------------------
(* Feature flags: stale answers.                                           *)

\* A step that touches neither tables nor cache, and after which whoever was to invalidate
\* an entry still is.
LEMMA StaleFrame ==
    ASSUME StaleOnlyByRace, UNCHANGED <<rows, cache>>, excused \subseteq excused',
           \A r \in Requests, f \in Features : WillInvalidate(r, f) =>
               WillInvalidate(r, f)' \/ ~Cached(f)
    PROVE  StaleOnlyByRace'
  BY DEF StaleOnlyByRace, Stale, Cached, Effective

\* A request that ends early excuses what it leaves stale.
LEMMA GiveUpStale ==
    ASSUME UNCHANGED <<rows, cache>>, NEW r \in Requests, GiveUp(r)
    PROVE  StaleOnlyByRace'
  BY DEF StaleOnlyByRace, Stale, Cached, Effective, GiveUp

\* An entry or more leave the cache, and with them the need to invalidate them.
LEMMA DropStale ==
    ASSUME StaleOnlyByRace, NEW gone \in SUBSET Features, rows' = rows,
           cache \in [Features -> Flags \cup {"none"}],
           cache' = [f \in Features |-> IF f \in gone THEN "none" ELSE cache[f]],
           excused' = excused \ gone,
           \A r \in Requests, f \in Features \ gone : WillInvalidate(r, f) => WillInvalidate(r, f)'
    PROVE  StaleOnlyByRace'
  BY DEF StaleOnlyByRace, Stale, Cached, Effective

\* The steps that move a request on, or begin one.
LEMMA MovesStale ==
    ASSUME FlagsTypeOK, StaleOnlyByRace, NEW r \in Requests,
           \/ ReadOverride(r) \/ ReadDefault(r) \/ ToggleLoad(r) \/ RowsReplaced(r) \/ ScanDone(r)
           \/ \E f \in Features : CheckMisses(r, f) \/ Scan(r, f)
           \/ \E f \in Features, v \in Flags : Toggle(r, f, v)
           \/ \E codes \in FeatureSets : Replace(r, codes)
    PROVE  StaleOnlyByRace'
  <1> USE DEF FlagsTypeOK
  <1>1. UNCHANGED <<rows, cache, excused>>
    BY DEF ReadOverride, ReadDefault, ToggleLoad, RowsReplaced, ScanDone, CheckMisses, Scan,
       Toggle, Replace
  <1>2. \A q \in Requests \ {r} : req'[q] = req[q]
    BY DEF ReadOverride, ReadDefault, ToggleLoad, RowsReplaced, ScanDone, CheckMisses, Scan,
       Toggle, Replace, Goto
  <1>3. ASSUME NEW f \in Features, WillInvalidate(r, f)
        PROVE  WillInvalidate(r, f)' \/ ~Cached(f)
    <2>1. req[r].pc \in {"del", "insert", "scan", "delKeys"}
      BY <1>3 DEF WillInvalidate
    <2>2. CASE RowsReplaced(r)
      BY <2>2, IdleType DEF RowsReplaced, WillInvalidate
    <2>3. CASE ScanDone(r)
      <3>1. req[r].pc = "scan" /\ req[r].todo = {}
            /\ req'[r].pc = "delKeys" /\ req'[r].keys = req[r].keys
        BY <2>3 DEF ScanDone, Goto, Request
      <3> QED
        BY <1>3, <3>1 DEF WillInvalidate
    <2>4. ASSUME NEW g \in Features, Scan(r, g)
          PROVE  WillInvalidate(r, f)' \/ ~Cached(f)
      <3>1. /\ req[r].pc = "scan" /\ req'[r].pc = "scan"
            /\ req'[r].todo = req[r].todo \ {g}
            /\ req'[r].keys = IF Cached(g) THEN req[r].keys \cup {g} ELSE req[r].keys
        BY <2>4 DEF Scan, Request
      <3> QED
        BY <1>3, <3>1 DEF WillInvalidate
    <2>5. RowsReplaced(r) \/ ScanDone(r) \/ \E g \in Features : Scan(r, g)
      BY <2>1 DEF ReadOverride, ReadDefault, ToggleLoad, CheckMisses, Toggle, Replace
    <2> QED
      BY <2>2, <2>3, <2>4, <2>5
  <1>4. ASSUME NEW q \in Requests \ {r}, NEW f \in Features, WillInvalidate(q, f)
        PROVE  WillInvalidate(q, f)'
    BY <1>2, <1>4 DEF WillInvalidate
  <1>5. \A q \in Requests, f \in Features : WillInvalidate(q, f) =>
           WillInvalidate(q, f)' \/ ~Cached(f)
    BY <1>3, <1>4
  <1> QED
    BY <1>1, <1>5, StaleFrame

\* The steps that write the tables go on to invalidate, or give up.
LEMMA WritesStale ==
    ASSUME FlagsTypeOK, StaleOnlyByRace, NEW r \in Requests,
           ToggleSave(r) \/ DeleteRows(r) \/ \E f \in Features : InsertRow(r, f)
    PROVE  StaleOnlyByRace'
  <1> USE DEF FlagsTypeOK
  <1>1. CASE DeleteRows(r)
    <2>1. req'[r].pc = "insert"
      BY <1>1 DEF DeleteRows, Request
    <2> QED
      BY <2>1 DEF StaleOnlyByRace, WillInvalidate
  <1>2. ASSUME NEW f \in Features, InsertRow(r, f), ~GiveUp(r)
        PROVE  StaleOnlyByRace'
    <2>1. req'[r].pc = "insert"
      BY <1>2 DEF InsertRow, Request
    <2> QED
      BY <2>1 DEF StaleOnlyByRace, WillInvalidate
  <1>3. ASSUME NEW f \in Features, InsertRow(r, f), GiveUp(r), UNCHANGED rows
        PROVE  StaleOnlyByRace'
    BY <1>3, GiveUpStale DEF InsertRow
  <1>4. ASSUME ToggleSave(r), GiveUp(r), UNCHANGED rows
        PROVE  StaleOnlyByRace'
    BY <1>4, GiveUpStale DEF ToggleSave
  <1>5. ASSUME ToggleSave(r), Goto(r, "del")
        PROVE  StaleOnlyByRace'
    <2>0. PICK f \in Features : f = req[r].feature
      BY DEF Request
    <2>1. /\ req[r].pc = "save" /\ req[r].feature = f
          /\ req'[r].pc = "del" /\ req'[r].feature = f
          /\ \A q \in Requests \ {r} : req'[q] = req[q]
      BY <1>5, <2>0 DEF ToggleSave, Goto, Request
    <2>2. cache' = cache /\ \A g \in Features \ {f} : rows'[g] = rows[g]
      BY <1>5, <2>0 DEF ToggleSave, Insert
    <2>3. excused \subseteq excused'
      BY <1>5 DEF ToggleSave, GiveUp
    <2>4. WillInvalidate(r, f)'
      BY <2>1 DEF WillInvalidate
    <2>5. ASSUME NEW g \in Features \ {f}, Stale(g)'
          PROVE  g \in excused' \/ \E q \in Requests : WillInvalidate(q, g)'
      <3>1. Stale(g)
        BY <2>2, <2>5 DEF Stale, Cached, Effective
      <3>2. CASE g \in excused
        BY <2>3, <3>2
      <3>3. ASSUME NEW q \in Requests, WillInvalidate(q, g)
            PROVE  WillInvalidate(q, g)'
        BY <2>1, <3>3 DEF WillInvalidate
      <3> QED
        BY <3>1, <3>2, <3>3 DEF StaleOnlyByRace
    <2> QED
      BY <2>4, <2>5 DEF StaleOnlyByRace
  <1>6. ToggleSave(r) => Goto(r, "del") \/ (GiveUp(r) /\ UNCHANGED rows)
    BY DEF ToggleSave
  <1>7. ASSUME NEW f \in Features, InsertRow(r, f)
        PROVE  ~GiveUp(r) \/ (GiveUp(r) /\ UNCHANGED rows)
    <2>1. Idle.pc # "insert"
      BY IdleType
    <2> QED
      BY <1>7, <2>1 DEF InsertRow, GiveUp, Finish, Request
  <1> QED
    BY <1>1, <1>2, <1>3, <1>4, <1>5, <1>6, <1>7

\* The steps that write the cache.
LEMMA CacheStale ==
    ASSUME FlagsTypeOK, StaleOnlyByRace,
           \/ \E r \in Requests : Fill(r) \/ ToggleDel(r) \/ DelKeys(r)
           \/ \E f \in Features : Expire(f)
    PROVE  StaleOnlyByRace'
  <1> USE DEF FlagsTypeOK
  <1>1. ASSUME NEW f \in Features, Expire(f)
        PROVE  StaleOnlyByRace'
    <2>0. PICK gone \in SUBSET Features : gone = {f}
      OBVIOUS
    <2>1. /\ cache' = [g \in Features |-> IF g \in gone THEN "none" ELSE cache[g]]
          /\ rows' = rows /\ excused' = excused \ gone /\ req' = req
      BY <1>1, <2>0 DEF Expire
    <2>2. \A r \in Requests, g \in Features \ gone :
             WillInvalidate(r, g) => WillInvalidate(r, g)'
      BY <2>1 DEF WillInvalidate
    <2> QED
      BY <2>1, <2>2, DropStale
  <1>2. ASSUME NEW r \in Requests, ToggleDel(r)
        PROVE  StaleOnlyByRace'
    <2>0. PICK f \in Features : f = req[r].feature /\ req[r].pc = "del"
      BY <1>2 DEF ToggleDel, Request
    <2>1. /\ cache' = [g \in Features |-> IF g \in {f} THEN "none" ELSE cache[g]]
          /\ rows' = rows /\ excused' = excused \ {f}
          /\ \A q \in Requests \ {r} : req'[q] = req[q]
      BY <1>2, <2>0 DEF ToggleDel, Finish
    <2>2. \A q \in Requests, g \in Features \ {f} : WillInvalidate(q, g) => WillInvalidate(q, g)'
      BY <2>0, <2>1 DEF WillInvalidate
    <2> QED
      BY <2>1, <2>2, DropStale
  <1>3. ASSUME NEW r \in Requests, DelKeys(r)
        PROVE  StaleOnlyByRace'
    <2>0. PICK gone \in SUBSET Features : gone = req[r].keys /\ req[r].pc = "delKeys"
      BY <1>3 DEF DelKeys, Request
    <2>1. /\ cache' = [g \in Features |-> IF g \in gone THEN "none" ELSE cache[g]]
          /\ rows' = rows /\ excused' = excused \ gone
          /\ \A q \in Requests \ {r} : req'[q] = req[q]
      BY <1>3, <2>0 DEF DelKeys, Finish
    <2>2. \A q \in Requests, g \in Features \ gone : WillInvalidate(q, g) => WillInvalidate(q, g)'
      BY <2>0, <2>1 DEF WillInvalidate
    <2> QED
      BY <2>1, <2>2, DropStale
  <1>4. ASSUME NEW r \in Requests, Fill(r)
        PROVE  StaleOnlyByRace'
    <2>0. PICK f \in Features, v \in Flags :
             f = req[r].feature /\ v = req[r].value /\ req[r].pc = "fill"
      BY <1>4 DEF Fill, Request
    <2>1. /\ cache' = [cache EXCEPT ![f] = v] /\ rows' = rows
          /\ excused' = IF v = Effective(f) THEN excused \ {f} ELSE excused \cup {f}
          /\ \A q \in Requests \ {r} : req'[q] = req[q]
      BY <1>4, <2>0 DEF Fill, Finish
    <2>2. \A q \in Requests, g \in Features : WillInvalidate(q, g) => WillInvalidate(q, g)'
      BY <2>0, <2>1 DEF WillInvalidate
    <2>3. Stale(f)' => f \in excused'
      BY <2>0, <2>1 DEF Stale, Cached, Effective
    <2>4. ASSUME NEW g \in Features \ {f}, Stale(g)'
          PROVE  g \in excused' \/ \E q \in Requests : WillInvalidate(q, g)'
      <3>1. Stale(g)
        BY <2>1, <2>4 DEF Stale, Cached, Effective
      <3> QED
        BY <2>1, <2>2, <3>1 DEF StaleOnlyByRace
    <2> QED
      BY <2>0, <2>3, <2>4 DEF StaleOnlyByRace
  <1> QED
    BY <1>1, <1>2, <1>3, <1>4

\* Every step keeps the invariant, which is inductive as it stands.
LEMMA FlagsNextInv == FlagsInv /\ [FlagsNext]_flagVars => FlagsInv'
  <1> SUFFICES ASSUME FlagsInv, [FlagsNext]_flagVars PROVE FlagsInv'
    OBVIOUS
  <1>0. FlagsTypeOK /\ StaleOnlyByRace
    BY DEF FlagsInv
  <1>1. FlagsTypeOK'
    BY <1>0, FlagsTypes
  <1>2. ASSUME NEW r \in Requests, FlagsAbort(r)
        PROVE  StaleOnlyByRace'
    BY <1>2, GiveUpStale DEF FlagsAbort
  <1>3. ASSUME UNCHANGED flagVars
        PROVE  StaleOnlyByRace'
    <2>1. UNCHANGED <<rows, cache, req, excused>>
      BY <1>3 DEF flagVars
    <2>2. \A r \in Requests, f \in Features : WillInvalidate(r, f) =>
             WillInvalidate(r, f)' \/ ~Cached(f)
      BY <2>1 DEF WillInvalidate
    <2> QED
      BY <1>0, <2>1, <2>2, StaleFrame
  <1>4. ASSUME NEW r \in Requests,
               \/ FlagsStep(r) \/ FlagsAbort(r)
               \/ \E f \in Features : CheckMisses(r, f) \/ \E v \in Flags : Toggle(r, f, v)
               \/ \E codes \in FeatureSets : Replace(r, codes)
        PROVE  StaleOnlyByRace'
    <2>1. \/ ReadOverride(r) \/ ReadDefault(r) \/ ToggleLoad(r) \/ RowsReplaced(r) \/ ScanDone(r)
          \/ \E f \in Features : CheckMisses(r, f) \/ Scan(r, f)
          \/ \E f \in Features, v \in Flags : Toggle(r, f, v)
          \/ \E codes \in FeatureSets : Replace(r, codes)
          \/ ToggleSave(r) \/ DeleteRows(r) \/ \E f \in Features : InsertRow(r, f)
          \/ Fill(r) \/ ToggleDel(r) \/ DelKeys(r) \/ FlagsAbort(r)
      BY <1>4, Zenon DEF FlagsStep, ReplaceStep
    <2>2. CASE ToggleSave(r) \/ DeleteRows(r) \/ \E f \in Features : InsertRow(r, f)
      BY <1>0, <2>2, WritesStale
    <2>3. CASE Fill(r) \/ ToggleDel(r) \/ DelKeys(r)
      BY <1>0, <2>3, CacheStale
    <2>4. CASE FlagsAbort(r)
      BY <1>2, <2>4
    <2>5. CASE \/ ReadOverride(r) \/ ReadDefault(r) \/ ToggleLoad(r) \/ RowsReplaced(r)
               \/ ScanDone(r)
               \/ \E f \in Features : CheckMisses(r, f) \/ Scan(r, f)
               \/ \E f \in Features, v \in Flags : Toggle(r, f, v)
               \/ \E codes \in FeatureSets : Replace(r, codes)
      BY <1>0, <2>5, MovesStale
    <2> QED
      BY <2>1, <2>2, <2>3, <2>4, <2>5
  <1>5. ASSUME NEW f \in Features, Expire(f)
        PROVE  StaleOnlyByRace'
    BY <1>0, <1>5, CacheStale
  <1>6. StaleOnlyByRace'
    BY <1>3, <1>4, <1>5 DEF FlagsNext
  <1> QED
    BY <1>1, <1>6 DEF FlagsInv

\* A tenant with the features of a plan, and no answer cached.
LEMMA FlagsStartInv ==
    ASSUME NEW codes \in SUBSET Features, FlagsStart(codes)
    PROVE  FlagsInv
  <1>1. RowsOf(codes) \in [Features -> Row]
    BY IdleType DEF RowsOf, Row, Flags
  <1>2. FlagsTypeOK
    BY <1>1, IdleType DEF FlagsStart, FlagsTypeOK
  <1>3. StaleOnlyByRace
    BY DEF FlagsStart, StaleOnlyByRace, Stale, Cached
  <1> QED
    BY <1>2, <1>3 DEF FlagsInv

\* For any features, requests, writes and faults, a cached answer that differs from the
\* tables is about to be invalidated, or was left by a check that read before the write or
\* by a writer that failed half-way.
THEOREM StaleIsExplained == FlagsSpec => []FlagsInv
  <1>1. FlagsInit => FlagsInv
    BY FlagsStartInv, FlagsAssumption DEF FlagsInit
  <1> QED
    BY <1>1, FlagsNextInv, PTL DEF FlagsSpec

-----------------------------------------------------------------------------
(* Feature flags: the promise.                                             *)

\* Values are flags, and windows are made of them.
LEMMA WindowType ==
    ASSUME FlagsTypeOK, NEW f \in Features
    PROVE  Effective(f) \in Flags /\ Window(f) \subseteq Flags
  <1>1. DefaultOf(f) \in Flags
    BY DEF DefaultOf, Flags
  <1>2. Effective(f) \in Flags
    BY <1>1 DEF FlagsTypeOK, Effective, Row
  <1>3. \A q \in Requests : req[q].value \in Flags
    BY DEF FlagsTypeOK, Request
  <1>4. {cache[f]} \ {"none"} \subseteq Flags
    BY DEF FlagsTypeOK
  <1> QED
    BY <1>1, <1>2, <1>3, <1>4 DEF Window

\* The same in the next state.
LEMMA WindowTypeNext ==
    ASSUME FlagsTypeOK', NEW f \in Features
    PROVE  Effective(f)' \in Flags /\ Window(f)' \subseteq Flags
  <1>1. DefaultOf(f) \in Flags
    BY DEF DefaultOf, Flags
  <1>2. Effective(f)' \in Flags
    BY <1>1 DEF FlagsTypeOK, Effective, Row
  <1>3. \A q \in Requests : req'[q].value \in Flags
    BY DEF FlagsTypeOK, Request
  <1>4. {cache'[f]} \ {"none"} \subseteq Flags
    BY DEF FlagsTypeOK
  <1> QED
    BY <1>1, <1>2, <1>3, <1>4 DEF Window

\* What a request, and the cache, may still answer for f.
Holds(q, f, v) ==
    \/ q.pc = "fill" /\ q.feature = f /\ q.value = v
    \/ q.pc = "default" /\ q.feature = f /\ v = DefaultOf(f)

\* The members of a window.
LEMMA InWindow ==
    ASSUME NEW f, NEW v
    PROVE  v \in Window(f) <=>
              \/ v = Effective(f) \/ (v = cache[f] /\ v # "none")
              \/ \E q \in Requests : Holds(req[q], f, v)
  BY DEF Window, Holds

\* The same in the next state.
LEMMA InWindowNext ==
    ASSUME NEW f, NEW v
    PROVE  v \in Window(f)' <=>
              \/ v = Effective(f)' \/ (v = cache'[f] /\ v # "none")
              \/ \E q \in Requests : Holds(req'[q], f, v)
  BY DEF Window, Holds

\* Only the values that are written enter a window.
Shrinks ==
    \A f \in Features : Window(f)' \subseteq Window(f) \cup {Effective(f)'}

\* It is enough to look at the entry that is written and the request that moves.
LEMMA ShrinksIf ==
    ASSUME \A f \in Features : cache'[f] # "none" => cache'[f] \in Window(f),
           NEW r, \A q \in Requests \ {r} : req'[q] = req[q],
           \A f \in Features : \A v : Holds(req'[r], f, v) => v \in Window(f)
    PROVE  Shrinks
  <1> SUFFICES ASSUME NEW f \in Features, NEW v \in Window(f)', v # Effective(f)'
               PROVE  v \in Window(f)
    BY DEF Shrinks
  <1>1. CASE v = cache'[f] /\ v # "none"
    BY <1>1
  <1>2. ASSUME NEW q \in Requests, Holds(req'[q], f, v)
        PROVE  v \in Window(f)
    <2>1. CASE q = r
      BY <1>2, <2>1
    <2>2. CASE q # r
      BY <1>2, <2>2, InWindow
    <2> QED
      BY <2>1, <2>2
  <1> QED
    BY <1>1, <1>2, InWindowNext

\* No step of the requests or of Redis brings back a value that has left its window.
LEMMA WindowStep ==
    ASSUME FlagsTypeOK, [FlagsNext]_flagVars
    PROVE  Shrinks
  <1> USE DEF FlagsTypeOK
  <1>0. \A f \in Features : cache[f] # "none" => cache[f] \in Window(f)
    BY InWindow
  <1>1. ASSUME NEW r \in Requests,
               \A f \in Features : cache'[f] = cache[f] \/ cache'[f] = "none",
               \A q \in Requests \ {r} : req'[q] = req[q],
               req'[r].pc \notin {"fill", "default"}
        PROVE  Shrinks
    <2>1. \A f \in Features : cache'[f] # "none" => cache'[f] \in Window(f)
      BY <1>0, <1>1
    <2>2. \A f \in Features : \A v : ~Holds(req'[r], f, v)
      BY <1>1 DEF Holds
    <2> QED
      BY <1>1, <2>1, <2>2, ShrinksIf
  <1>2. ASSUME NEW r \in Requests,
               \/ ToggleLoad(r) \/ ToggleSave(r) \/ ToggleDel(r) \/ FlagsAbort(r)
               \/ DeleteRows(r) \/ RowsReplaced(r) \/ ScanDone(r) \/ DelKeys(r)
               \/ \E f \in Features : InsertRow(r, f) \/ Scan(r, f) \/ CheckMisses(r, f)
               \/ \E f \in Features, v \in Flags : Toggle(r, f, v)
               \/ \E codes \in FeatureSets : Replace(r, codes)
        PROVE  Shrinks
    <2>1. \A f \in Features : cache'[f] = cache[f] \/ cache'[f] = "none"
      BY <1>2 DEF ToggleLoad, ToggleSave, ToggleDel, FlagsAbort, DeleteRows, RowsReplaced,
         ScanDone, DelKeys, InsertRow, Scan, CheckMisses, Toggle, Replace
    <2>2. \A q \in Requests \ {r} : req'[q] = req[q]
      BY <1>2 DEF ToggleLoad, ToggleSave, ToggleDel, FlagsAbort, DeleteRows, RowsReplaced,
         ScanDone, DelKeys, InsertRow, Scan, CheckMisses, Toggle, Replace, Goto, GiveUp, Finish
    <2>3. req'[r].pc \notin {"fill", "default"}
      <3>1. CASE ToggleLoad(r) \/ DeleteRows(r) \/ ScanDone(r)
        BY <3>1 DEF ToggleLoad, DeleteRows, ScanDone, Goto, Request
      <3>2. CASE ToggleSave(r) \/ ToggleDel(r) \/ FlagsAbort(r) \/ DelKeys(r) \/ RowsReplaced(r)
        BY <3>2, IdleType DEF ToggleSave, ToggleDel, FlagsAbort, DelKeys, RowsReplaced, Goto,
           GiveUp, Finish, Request
      <3>3. CASE \E f \in Features : InsertRow(r, f) \/ Scan(r, f) \/ CheckMisses(r, f)
        <4>1. ASSUME NEW f \in Features, InsertRow(r, f)
              PROVE  req'[r].pc \notin {"fill", "default"}
          BY <4>1, IdleType DEF InsertRow, GiveUp, Finish, Request
        <4>2. ASSUME NEW f \in Features, Scan(r, f)
              PROVE  req'[r].pc \notin {"fill", "default"}
          BY <4>2 DEF Scan, Request
        <4>3. ASSUME NEW f \in Features, CheckMisses(r, f)
              PROVE  req'[r].pc \notin {"fill", "default"}
          BY <4>3, IdleType DEF CheckMisses, Request
        <4> QED
          BY <3>3, <4>1, <4>2, <4>3
      <3>4. CASE \/ \E f \in Features, v \in Flags : Toggle(r, f, v)
                 \/ \E codes \in FeatureSets : Replace(r, codes)
        <4>1. ASSUME NEW f \in Features, NEW v \in Flags, Toggle(r, f, v)
              PROVE  req'[r].pc \notin {"fill", "default"}
          BY <4>1, IdleType DEF Toggle, Request
        <4>2. ASSUME NEW codes \in FeatureSets, Replace(r, codes)
              PROVE  req'[r].pc \notin {"fill", "default"}
          BY <4>2, IdleType DEF Replace, Request
        <4> QED
          BY <3>4, <4>1, <4>2
      <3> QED
        BY <1>2, <3>1, <3>2, <3>3, <3>4
    <2> QED
      BY <1>1, <2>1, <2>2, <2>3
  <1>3. ASSUME NEW r \in Requests, ReadOverride(r) \/ ReadDefault(r)
        PROVE  Shrinks
    <2>1. cache' = cache /\ \A q \in Requests \ {r} : req'[q] = req[q]
      BY <1>3 DEF ReadOverride, ReadDefault
    <2>2. PICK f \in Features : f = req[r].feature
      BY DEF Request
    <2>3. /\ req'[r].feature = f
          /\ req'[r].pc = "fill" => req'[r].value \in Window(f)
          /\ req'[r].pc = "default" => DefaultOf(f) \in Window(f)
      <3>1. CASE ReadOverride(r)
        <4>1. /\ req'[r].feature = f /\ req'[r].value = rows[f].isEnabled
              /\ req'[r].pc = IF rows[f].id # 0 THEN "fill" ELSE "default"
          BY <2>2, <3>1 DEF ReadOverride, Request
        <4>2. IF rows[f].id # 0 THEN Effective(f) = rows[f].isEnabled
                                ELSE Effective(f) = DefaultOf(f)
          BY DEF Effective
        <4> QED
          BY <4>1, <4>2, InWindow
      <3>2. CASE ReadDefault(r)
        <4>1. /\ req'[r].feature = f /\ req'[r].value = DefaultOf(f) /\ req'[r].pc = "fill"
              /\ req[r].pc = "default"
          BY <2>2, <3>2 DEF ReadDefault, Request
        <4>2. Holds(req[r], f, DefaultOf(f))
          BY <2>2, <4>1 DEF Holds
        <4> QED
          BY <4>1, <4>2, InWindow
      <3> QED
        BY <1>3, <3>1, <3>2
    <2>4. \A g \in Features : \A v : Holds(req'[r], g, v) => v \in Window(g)
      BY <2>3 DEF Holds
    <2> QED
      BY <1>0, <2>1, <2>4, ShrinksIf
  <1>4. ASSUME NEW r \in Requests, Fill(r)
        PROVE  Shrinks
    <2>1. PICK f \in Features, v \in Flags :
             f = req[r].feature /\ v = req[r].value /\ req[r].pc = "fill"
      BY <1>4 DEF Fill, Request
    <2>2. /\ cache' = [cache EXCEPT ![f] = v] /\ req'[r].pc = "idle"
          /\ \A q \in Requests \ {r} : req'[q] = req[q]
      BY <1>4, <2>1, IdleType DEF Fill, Finish
    <2>3. Holds(req[r], f, v)
      BY <2>1 DEF Holds
    <2>4. \A g \in Features : cache'[g] # "none" => cache'[g] \in Window(g)
      BY <1>0, <2>2, <2>3, InWindow
    <2>5. \A g \in Features : \A w : ~Holds(req'[r], g, w)
      BY <2>2 DEF Holds
    <2> QED
      BY <2>2, <2>4, <2>5, ShrinksIf
  <1>5. ASSUME req' = req, \A f \in Features : cache'[f] = cache[f] \/ cache'[f] = "none"
        PROVE  Shrinks
    <2> SUFFICES ASSUME NEW f \in Features, NEW v \in Window(f)', v # Effective(f)'
                 PROVE  v \in Window(f)
      BY DEF Shrinks
    <2> QED
      BY <1>5, InWindow, InWindowNext
  <1>6. ASSUME NEW f \in Features, Expire(f)
        PROVE  Shrinks
    BY <1>5, <1>6 DEF Expire
  <1>7. ASSUME UNCHANGED flagVars
        PROVE  Shrinks
    BY <1>5, <1>7 DEF flagVars
  <1>8. ASSUME NEW r \in Requests,
               \/ FlagsStep(r) \/ FlagsAbort(r)
               \/ \E f \in Features : CheckMisses(r, f) \/ \E v \in Flags : Toggle(r, f, v)
               \/ \E codes \in FeatureSets : Replace(r, codes)
        PROVE  Shrinks
    BY <1>2, <1>3, <1>4, <1>8 DEF FlagsStep, ReplaceStep
  <1> QED
    BY <1>6, <1>7, <1>8 DEF FlagsNext

\* The cache implements the promise: the values of the tables, and the windows of what may
\* still be answered, start and move as FlagPromise says, whatever overlaps, expires or
\* fails.
THEOREM CacheKeepsPromise == FlagsSpec => KeepsPromise
  <1>1. FlagsInit => Promise!Init
    <2> SUFFICES ASSUME FlagsInit PROVE Promise!Init
      OBVIOUS
    <2>1. FlagsTypeOK
      BY FlagsStartInv, FlagsAssumption DEF FlagsInit, FlagsInv
    <2>2. \A f \in Features : Effective(f) \in Flags
      BY <2>1, WindowType
    <2>3. \A f \in Features : cache[f] = "none" /\ \A q \in Requests : req[q].pc = "idle"
      BY IdleType DEF FlagsInit, FlagsStart
    <2>4. \A f \in Features : \A v : v \in Window(f) <=> v = Effective(f)
      BY <2>3, InWindow DEF Holds
    <2>5. \A f \in Features : Window(f) = {Effective(f)}
      BY <2>4
    <2> QED
      BY <2>2, <2>5 DEF Promise!Init
  <1>2. FlagsInv /\ [FlagsNext]_flagVars =>
          [Promise!Next]_<<[f \in Features |-> Effective(f)], [f \in Features |-> Window(f)]>>
    <2> SUFFICES ASSUME FlagsInv, [FlagsNext]_flagVars PROVE Promise!Next
      OBVIOUS
    <2>1. FlagsTypeOK /\ FlagsTypeOK'
      BY FlagsNextInv DEF FlagsInv
    <2>2. \A f \in Features : /\ Effective(f)' \in Flags /\ Window(f)' \subseteq Flags
                              /\ Effective(f)' \in Window(f)'
      BY <2>1, WindowTypeNext, InWindowNext
    <2>3. \A f \in Features : Window(f)' \subseteq Window(f) \cup {Effective(f)'}
      BY <2>1, WindowStep DEF Shrinks
    <2> QED
      BY <2>2, <2>3 DEF Promise!Next
  <1> QED
    BY <1>1, <1>2, StaleIsExplained, PTL DEF FlagsSpec, KeepsPromise, Promise!Spec

-----------------------------------------------------------------------------
(* The life of a tenant: the inductive invariant.                          *)

Saving(r) == op[r].pc \in {"compare", "write"}
Matches(t) == t.enabledFeatures = IncludedFeatures(t.currentPlan)
Dated(t) ==
    /\ t.status = "suspended" => t.suspendedAt # 0
    /\ t.status = "cancelled" => t.cancelledAt # 0
    /\ t.status = "active" => t.suspendedAt = 0

\* A request saves the row before it replaces features; nothing happens to no tenant.
Phases ==
    /\ \A r \in Requests :
          /\ op[r].pc # "idle" => req[r].pc = "idle"
          /\ op[r].pc # "idle" \/ req[r].pc # "idle" => Exists
          /\ Saving(r) => op[r].copy.status # "none"
    /\ ~Exists => tenant.stripeCustomerId = None

\* Alone means alone.
Single == ~overlap => \A r, q \in Requests : Busy(r) /\ Busy(q) => r = q

\* Row and copies pair plans with their features, and when the features tell the plans
\* apart the comparison finds both or neither different.
Pairs ==
    ~replanned =>
        /\ Exists => tenant.currentPlan \in plansUsed
        /\ \A r \in Requests : Saving(r) => op[r].copy.currentPlan \in plansUsed
        /\ ~overlap \/ Distinct =>
              /\ Exists => Matches(tenant)
              /\ \A r \in Requests : Saving(r) => Matches(op[r].copy)
        /\ Distinct => \A r \in Requests : op[r].pc = "write" =>
              ("currentPlan" \in op[r].dirty <=> "enabledFeatures" \in op[r].dirty)

\* What an operation that is alone is about to save.
SoloCopy ==
    ~overlap => \A r \in Requests : Saving(r) =>
        LET copy == op[r].copy
        IN  /\ op[r].pc = "write" =>
                  \A col \in Columns \ op[r].dirty : copy[col] = tenant[col]
            /\ op[r].by = "admin" /\ tenant.status = "cancelled" => copy.status = "cancelled"
            /\ tenant.stripeCustomerId # None =>
                  copy.stripeCustomerId # None \/ op[r].customer = None
            /\ faults = 0 => Dated(copy)
            /\ op[r].next # "delete" => copy.enabledFeatures = tenant.enabledFeatures

\* The feature rows between replacements,
Settled ==
    /\ tenant.enabledFeatures \subseteq Present
    /\ \A f \in Present \ toggled : f \in tenant.enabledFeatures /\ rows[f].isEnabled = "on"

\* and while they are replaced.
Refilling(r) ==
    /\ Present \cup req[r].todo = tenant.enabledFeatures /\ Present \cap req[r].todo = {}
    /\ \A f \in Present : rows[f].isEnabled = "on"

Following ==
    Calm =>
        /\ \A r \in Requests : req[r].pc \in Toggling => req[r].feature \in toggled
        /\ tenant.enabledFeatures # {} =>
              /\ (\A r \in Requests : req[r].pc \notin {"delete", "insert"}) => Settled
              /\ \A r \in Requests :
                    /\ req[r].pc = "delete" => req[r].codes = tenant.enabledFeatures
                    /\ req[r].pc = "insert" => Refilling(r)

\* The tenant is announced, or about to be.
Announcing ==
    Exists /\ faults = 0 =>
        announced \/ \E r \in Requests : op[r].pc \in {"membership", "announce"}

LifeInv ==
    /\ LifecycleTypeOK /\ Phases /\ Single /\ Pairs /\ SoloCopy /\ StatusDated /\ Following
    /\ Announcing

-----------------------------------------------------------------------------
(* The life of a tenant: the operators of the model.                       *)

\* Records before anything happened.
LEMMA NoTenantType ==
    /\ NoTenant \in Tenant /\ NoTenant.status = "none" /\ NoTenant.suspendedAt = 0
    /\ NoTenant.stripeCustomerId = None /\ NoTenant.enabledFeatures = {}
    /\ NoOperation \in Operation /\ NoOperation.pc = "idle"
  BY PlansAssumption DEF NoTenant, Tenant, NoOperation, Operation

\* The features of a plan, listed or not, and those of updateTenant's own map.
LEMMA FeaturesType ==
    /\ \A p \in Plans : IncludedFeatures(p) \in SUBSET Features
    /\ \A p \in Plans, codes \in SUBSET Features :
          /\ FeaturesToSync(p, codes) \in SUBSET Features
          /\ codes # {} => FeaturesToSync(p, codes) = codes
  <1>1. \A p \in Plans : IncludedFeatures(p) \in SUBSET Features
    BY PlansAssumption DEF IncludedFeatures
  <1>2. \A p \in Plans : StaticFeatures[p] \in SUBSET Features
    BY PlansAssumption
  <1> QED
    BY <1>1, <1>2 DEF FeaturesToSync

\* The type invariant in parts.
Bools ==
    /\ announced \in BOOLEAN /\ overlap \in BOOLEAN /\ replanned \in BOOLEAN
    /\ plansUsed \subseteq Plans /\ toggled \subseteq Features

\* The Booleans and the history are apart from the rest.
LEMMA LifecycleTypes ==
    LifecycleTypeOK <=>
        /\ FlagsTypeOK /\ tenant \in Tenant /\ op \in [Requests -> Operation]
        /\ now \in 0 .. MaxOps /\ Bools
  BY DEF LifecycleTypeOK, Bools

\* The same in the next state.
LEMMA LifecycleTypesNext ==
    LifecycleTypeOK' <=>
        /\ FlagsTypeOK' /\ tenant' \in Tenant /\ op' \in [Requests -> Operation]
        /\ now' \in 0 .. MaxOps /\ Bools'
  BY DEF LifecycleTypeOK, Bools

\* The Booleans stay Booleans, and the history one of plans and features.
LEMMA BoolsStep == Bools /\ [Next]_vars => Bools'
  <1> SUFFICES ASSUME Bools, [Next]_vars PROVE Bools'
    OBVIOUS
  <1> USE DEF Bools, lifecycle, history
  <1>1. announced' \in BOOLEAN
    BY Zenon DEF Next, vars, CreateTenant, CreateMembership, CreateAnnounce, UpdateTenant,
       SuspendTenant, ActivateTenant, ArchiveTenant, HandleSubscriptionStatus,
       HandleBillingSynced, Compare, Write, Abort, Load, LoadAs, Check, ToggleFeature,
       ReplaceRows, FlagsGoOn, FlagsFail, EntryExpires
  <1>2. overlap' \in BOOLEAN
    <2>1. overlap' = overlap \/ overlap' = (overlap \/ ~Quiet)
      BY Zenon DEF Next, vars, CreateTenant, CreateMembership, CreateAnnounce, UpdateTenant,
         SuspendTenant, ActivateTenant, ArchiveTenant, HandleSubscriptionStatus,
         HandleBillingSynced, Compare, Write, Abort, Load, LoadAs, Begin, Arrive, Check,
         ToggleFeature, ReplaceRows, FlagsGoOn, FlagsFail, EntryExpires
    <2>2. (overlap \/ ~Quiet) \in BOOLEAN
      OBVIOUS
    <2> QED
      BY <2>1, <2>2, Zenon
  <1>3. replanned' \in BOOLEAN
    <2>1. CASE \E r \in Requests : \E s \in Statuses, p \in Plans \cup {Absent} :
                  HandleSubscriptionStatus(r, s, p)
      <3>1. \E p : replanned' = (replanned \/ p \notin {Absent, tenant.currentPlan})
        BY <2>1, Zenon DEF HandleSubscriptionStatus
      <3>2. \A p : (replanned \/ p \notin {Absent, tenant.currentPlan}) \in BOOLEAN
        OBVIOUS
      <3> QED
        BY <3>1, <3>2, Zenon
    <2>2. CASE ~(\E r \in Requests : \E s \in Statuses, p \in Plans \cup {Absent} :
                  HandleSubscriptionStatus(r, s, p))
      <3>1. replanned' = replanned
        BY <2>2, Zenon DEF Next, vars, CreateTenant, CreateMembership, CreateAnnounce,
           UpdateTenant, SuspendTenant, ActivateTenant, ArchiveTenant, HandleBillingSynced,
           Compare, Write, Abort, LoadAs, Check, ToggleFeature, ReplaceRows, FlagsGoOn,
           FlagsFail, EntryExpires
      <3> QED
        BY <3>1
    <2> QED
      BY <2>1, <2>2
  <1>4. plansUsed' \subseteq Plans
    <2>1. ASSUME NEW r \in Requests, NEW p \in Plans \cup {Absent}, NEW c, UpdateTenant(r, p, c)
          PROVE  plansUsed' \subseteq Plans
      BY <2>1 DEF UpdateTenant
    <2>2. plansUsed' = plansUsed
          \/ (\E r \in Requests : \E p \in Plans \cup {Absent}, c \in Customers \cup {None, Absent} :
                UpdateTenant(r, p, c))
          \/ (\E p \in Plans : plansUsed' = plansUsed \cup {p})
      BY Zenon DEF Next, vars, CreateTenant, CreateMembership, CreateAnnounce,
         SuspendTenant, ActivateTenant, ArchiveTenant, HandleSubscriptionStatus,
         HandleBillingSynced, Compare, Write, Abort, LoadAs, Check, ToggleFeature,
         ReplaceRows, FlagsGoOn, FlagsFail, EntryExpires
    <2> QED
      BY <2>1, <2>2
  <1>5. toggled' \subseteq Features
    <2>1. toggled' = toggled \/ toggled' = {} \/ \E f \in Features : toggled' = toggled \cup {f}
      BY Zenon DEF Next, vars, CreateTenant, CreateMembership, CreateAnnounce, UpdateTenant,
         SuspendTenant, ActivateTenant, ArchiveTenant, HandleSubscriptionStatus,
         HandleBillingSynced, Compare, Write, Abort, Load, LoadAs, Check, ToggleFeature,
         ReplaceRows, FlagsGoOn, FlagsFail, EntryExpires
    <2> QED
      BY <2>1
  <1> QED
    BY <1>1, <1>2, <1>3, <1>4, <1>5

\* What the handlers do to their copies.
LEMMA CopyType ==
    ASSUME NEW t \in Tenant, NEW d \in Nat \ {0}
    PROVE  /\ LET c == Suspended(t, d)
              IN  /\ c \in Tenant /\ c.status = "suspended" /\ c.suspendedAt = d
                  /\ c.cancelledAt = t.cancelledAt
                  /\ c.currentPlan = t.currentPlan /\ c.enabledFeatures = t.enabledFeatures
                  /\ c.stripeCustomerId = t.stripeCustomerId
           /\ LET c == Activated(t)
              IN  /\ c \in Tenant /\ c.status = "active" /\ c.suspendedAt = 0
                  /\ c.cancelledAt = t.cancelledAt
                  /\ c.currentPlan = t.currentPlan /\ c.enabledFeatures = t.enabledFeatures
                  /\ c.stripeCustomerId = t.stripeCustomerId
           /\ LET c == Cancelled(t, d)
              IN  /\ c \in Tenant /\ c.status = "cancelled" /\ c.cancelledAt = d
                  /\ c.suspendedAt = t.suspendedAt
                  /\ c.currentPlan = t.currentPlan /\ c.enabledFeatures = t.enabledFeatures
                  /\ c.stripeCustomerId = t.stripeCustomerId
  BY DEF Tenant, Suspended, Activated, Cancelled

\* A copy with another plan, with and without its features, and with another customer.
LEMMA PlanType ==
    ASSUME NEW t \in Tenant, NEW p \in Plans, NEW c \in Customers \cup {None}
    PROVE  /\ LET n == WithPlan(t, p)
              IN  /\ n \in Tenant /\ n.status = t.status /\ n.suspendedAt = t.suspendedAt
                  /\ n.cancelledAt = t.cancelledAt /\ n.stripeCustomerId = t.stripeCustomerId
                  /\ n.currentPlan = p /\ n.enabledFeatures = IncludedFeatures(p)
           /\ LET n == [t EXCEPT !.currentPlan = p]
              IN  /\ n \in Tenant /\ n.status = t.status /\ n.suspendedAt = t.suspendedAt
                  /\ n.cancelledAt = t.cancelledAt /\ n.stripeCustomerId = t.stripeCustomerId
                  /\ n.enabledFeatures = t.enabledFeatures
           /\ LET n == [t EXCEPT !.stripeCustomerId = c]
              IN  /\ n \in Tenant /\ n.status = t.status /\ n.suspendedAt = t.suspendedAt
                  /\ n.cancelledAt = t.cancelledAt /\ n.stripeCustomerId = c
                  /\ n.currentPlan = t.currentPlan /\ n.enabledFeatures = t.enabledFeatures
  <1>1. PICK features \in SUBSET Features : features = IncludedFeatures(p)
    BY FeaturesType
  <1> QED
    BY <1>1 DEF Tenant, WithPlan

\* An update of the columns that differed.
LEMMA Updated ==
    ASSUME NEW t \in Tenant, NEW c \in Tenant, NEW dirty, NEW new,
           new = [col \in Columns |-> IF col \in dirty THEN c[col] ELSE t[col]]
    PROVE  /\ new \in Tenant
           /\ new.status = IF "status" \in dirty THEN c.status ELSE t.status
           /\ new.suspendedAt = IF "suspendedAt" \in dirty THEN c.suspendedAt ELSE t.suspendedAt
           /\ new.cancelledAt = IF "cancelledAt" \in dirty THEN c.cancelledAt ELSE t.cancelledAt
           /\ new.currentPlan = IF "currentPlan" \in dirty THEN c.currentPlan ELSE t.currentPlan
           /\ new.enabledFeatures = IF "enabledFeatures" \in dirty THEN c.enabledFeatures
                                                                   ELSE t.enabledFeatures
           /\ new.stripeCustomerId = IF "stripeCustomerId" \in dirty THEN c.stripeCustomerId
                                                                     ELSE t.stripeCustomerId
  BY DEF Tenant, Columns

\* A complete comparison makes the update a copy.
LEMMA Copied ==
    ASSUME NEW t \in Tenant, NEW c \in Tenant, NEW dirty, NEW new,
           new = [col \in Columns |-> IF col \in dirty THEN c[col] ELSE t[col]],
           \A col \in Columns \ dirty : c[col] = t[col]
    PROVE  /\ new.status = c.status /\ new.suspendedAt = c.suspendedAt
           /\ new.cancelledAt = c.cancelledAt /\ new.currentPlan = c.currentPlan
           /\ new.enabledFeatures = c.enabledFeatures
           /\ new.stripeCustomerId = c.stripeCustomerId
  BY DEF Tenant, Columns

\* The comparison of two rows that match plans which differ in their features.
LEMMA Compared ==
    ASSUME NEW t \in Tenant, NEW c \in Tenant, Matches(t), Matches(c), NEW dirty,
           dirty = {col \in Columns : c[col] # t[col]},
           IncludedFeatures(t.currentPlan) = IncludedFeatures(c.currentPlan) =>
               t.currentPlan = c.currentPlan
    PROVE  "currentPlan" \in dirty <=> "enabledFeatures" \in dirty
  BY DEF Tenant, Columns, Matches

\* What a request does after its save.
LEMMA AfterType ==
    ASSUME NEW next \in {"done", "delete", "scan"}, NEW codes \in SUBSET Features
    PROVE  /\ After(next, codes) \in Request
           /\ After(next, codes).pc = CASE next = "done" -> "idle"
                                        [] next = "delete" -> "delete"
                                        [] next = "scan" -> "scan"
           /\ next = "delete" => After(next, codes).codes = codes
  <1>1. CASE next = "done"
    BY <1>1, IdleType DEF After
  <1>2. CASE next = "scan"
    BY <1>2, IdleType DEF After
  <1>3. CASE next = "delete"
    <2> DEFINE new == [Idle EXCEPT !.pc = "delete", !.codes = codes]
    <2>1. After(next, codes) = new
      BY <1>3 DEF After
    <2>2. new \in Request
      BY BeginType
    <2>3. new.pc = "delete" /\ new.codes = codes
      BY IdleType DEF Request
    <2> HIDE DEF new
    <2> QED
      BY <1>3, <2>1, <2>2, <2>3
  <1> QED
    BY <1>1, <1>2, <1>3

-----------------------------------------------------------------------------
(* The life of a tenant: the handlers load.                                *)

\* What every handler that loads the row makes of it.
Loaded(r) ==
    \E by \in {"admin", "billing"}, t \in Tenant, next \in {"done", "delete", "scan"},
       c \in Customers \cup {None, Absent} :
        /\ Load(r, by, t, next, c)
        /\ t.status # "none"
        /\ plansUsed \subseteq plansUsed'
        /\ ~replanned' => /\ ~replanned /\ (Matches(tenant) => Matches(t))
                          /\ t.currentPlan \in plansUsed' \cup {tenant.currentPlan}
        /\ by = "admin" /\ tenant.status = "cancelled" => t.status = "cancelled"
        /\ tenant.stripeCustomerId # None => t.stripeCustomerId # None \/ c = None
        /\ Dated(tenant) => Dated(t)
        /\ next # "delete" => t.enabledFeatures = tenant.enabledFeatures

\* updateTenant.
LEMMA UpdateLoads ==
    ASSUME LifecycleTypeOK, NEW r \in Requests, NEW p \in Plans \cup {Absent},
           NEW c \in Customers \cup {None, Absent}, UpdateTenant(r, p, c)
    PROVE  Loaded(r)
  <1> DEFINE t == IF c = Absent THEN tenant ELSE [tenant EXCEPT !.stripeCustomerId = c]
  <1>0. tenant \in Tenant /\ tenant.status # "none"
    BY LifecycleTypes DEF UpdateTenant, Load, Begin, Exists
  <1>1. PICK p0 \in Plans : TRUE
    BY PlansAssumption
  <1>2. /\ t \in Tenant /\ t.status = tenant.status /\ t.suspendedAt = tenant.suspendedAt
        /\ t.cancelledAt = tenant.cancelledAt /\ t.currentPlan = tenant.currentPlan
        /\ t.enabledFeatures = tenant.enabledFeatures
        /\ tenant.stripeCustomerId # None => t.stripeCustomerId # None \/ c = None
    <2>1. CASE c = Absent
      BY <1>0, <2>1
    <2>2. CASE c # Absent
      <3>1. t = [tenant EXCEPT !.stripeCustomerId = c]
        BY <2>2
      <3>2. c \in Customers \cup {None}
        BY <2>2
      <3> HIDE DEF t
      <3>3. /\ t \in Tenant /\ t.status = tenant.status /\ t.suspendedAt = tenant.suspendedAt
            /\ t.cancelledAt = tenant.cancelledAt /\ t.stripeCustomerId = c
            /\ t.currentPlan = tenant.currentPlan /\ t.enabledFeatures = tenant.enabledFeatures
        BY <1>0, <1>1, <3>1, <3>2, PlanType
      <3> QED
        BY <3>3
    <2> QED
      BY <2>1, <2>2
  <1>3. /\ replanned' = replanned
        /\ \/ Load(r, "admin", t, "done", c) /\ plansUsed' = plansUsed
           \/ /\ p # Absent /\ Load(r, "admin", WithPlan(t, p), "delete", c)
              /\ plansUsed' = plansUsed \cup {p}
    BY DEF UpdateTenant
  <1> HIDE DEF t
  <1>4. CASE Load(r, "admin", t, "done", c) /\ plansUsed' = plansUsed
    BY <1>0, <1>2, <1>3, <1>4 DEF Loaded, Matches, Dated
  <1>5. CASE /\ p # Absent /\ Load(r, "admin", WithPlan(t, p), "delete", c)
             /\ plansUsed' = plansUsed \cup {p}
    <2> DEFINE n == WithPlan(t, p)
    <2>0. PICK c0 \in Customers \cup {None} : TRUE
      OBVIOUS
    <2>1. /\ n \in Tenant /\ n.status = t.status /\ n.suspendedAt = t.suspendedAt
          /\ n.cancelledAt = t.cancelledAt /\ n.stripeCustomerId = t.stripeCustomerId
          /\ n.currentPlan = p /\ n.enabledFeatures = IncludedFeatures(p)
      BY <1>2, <1>5, <2>0, PlanType
    <2>2. Load(r, "admin", n, "delete", c) /\ plansUsed' = plansUsed \cup {p}
      BY <1>5
    <2> HIDE DEF n
    <2> QED
      BY <1>0, <1>2, <1>3, <2>1, <2>2 DEF Loaded, Matches, Dated
  <1> QED
    BY <1>3, <1>4, <1>5

\* suspendTenant, activateTenant and archiveTenant.
LEMMA StatusLoads ==
    ASSUME LifecycleTypeOK, NEW r \in Requests,
           SuspendTenant(r) \/ ActivateTenant(r) \/ ArchiveTenant(r)
    PROVE  Loaded(r)
  <1>0. /\ tenant \in Tenant /\ now + 1 \in Nat \ {0}
        /\ replanned' = replanned /\ plansUsed' = plansUsed
    BY LifecycleTypes, PlansAssumption DEF SuspendTenant, ActivateTenant, ArchiveTenant, LoadAs
  <1>1. CASE SuspendTenant(r)
    <2> DEFINE t == Suspended(tenant, now + 1)
    <2>1. Load(r, "admin", t, "done", Absent) /\ tenant.status # "cancelled"
      BY <1>1 DEF SuspendTenant, LoadAs
    <2>2. /\ t \in Tenant /\ t.status = "suspended" /\ t.suspendedAt # 0
          /\ t.currentPlan = tenant.currentPlan /\ t.enabledFeatures = tenant.enabledFeatures
          /\ t.stripeCustomerId = tenant.stripeCustomerId
      BY <1>0, CopyType
    <2> HIDE DEF t
    <2> QED
      BY <1>0, <2>1, <2>2 DEF Loaded, Matches, Dated
  <1>2. CASE ActivateTenant(r)
    <2> DEFINE t == Activated(tenant)
    <2>1. Load(r, "admin", t, "done", Absent) /\ tenant.status # "cancelled"
      BY <1>2 DEF ActivateTenant, LoadAs
    <2>2. /\ t \in Tenant /\ t.status = "active" /\ t.suspendedAt = 0
          /\ t.currentPlan = tenant.currentPlan /\ t.enabledFeatures = tenant.enabledFeatures
          /\ t.stripeCustomerId = tenant.stripeCustomerId
      BY <1>0, CopyType
    <2> HIDE DEF t
    <2> QED
      BY <1>0, <2>1, <2>2 DEF Loaded, Matches, Dated
  <1>3. CASE ArchiveTenant(r)
    <2> DEFINE t == Cancelled(tenant, now + 1)
    <2>1. Load(r, "admin", t, "scan", Absent)
      BY <1>3 DEF ArchiveTenant, LoadAs
    <2>2. /\ t \in Tenant /\ t.status = "cancelled" /\ t.cancelledAt # 0
          /\ t.currentPlan = tenant.currentPlan /\ t.enabledFeatures = tenant.enabledFeatures
          /\ t.stripeCustomerId = tenant.stripeCustomerId
      <3>1. PICK d \in Nat \ {0} : d = now + 1
        BY <1>0
      <3>2. t = Cancelled(tenant, d)
        BY <3>1
      <3> HIDE DEF t
      <3> QED
        BY <1>0, <3>2, CopyType
    <2> HIDE DEF t
    <2> QED
      BY <1>0, <2>1, <2>2 DEF Loaded, Matches, Dated
  <1> QED
    BY <1>1, <1>2, <1>3

\* handleSubscriptionStatus, which changes a plan without its features.
LEMMA BillingLoads ==
    ASSUME LifecycleTypeOK, NEW r \in Requests, NEW s \in Statuses, NEW p \in Plans \cup {Absent},
           HandleSubscriptionStatus(r, s, p)
    PROVE  Loaded(r)
  <1> DEFINE t == WithStatus(tenant, s, now + 1)
             other == p \notin {Absent, tenant.currentPlan}
  <1>0. tenant \in Tenant /\ now + 1 \in Nat \ {0} /\ tenant.status # "none"
    BY LifecycleTypes, PlansAssumption DEF HandleSubscriptionStatus, Load, Begin, Exists
  <1>1. /\ t \in Tenant /\ t.status # "none" /\ t.currentPlan = tenant.currentPlan
        /\ t.enabledFeatures = tenant.enabledFeatures
        /\ t.stripeCustomerId = tenant.stripeCustomerId /\ (Dated(tenant) => Dated(t))
    <2>1. CASE s = "active"
      <3>1. t = Activated(tenant)
        BY <2>1 DEF WithStatus
      <3> HIDE DEF t
      <3> QED
        BY <1>0, <3>1, CopyType DEF Dated
    <2>2. CASE s \in {"suspended", "past_due"}
      <3>1. t = Suspended(tenant, now + 1)
        BY <2>2 DEF WithStatus
      <3> HIDE DEF t
      <3> QED
        BY <1>0, <3>1, CopyType DEF Dated
    <2>3. CASE s = "cancelled"
      <3>1. t = Cancelled(tenant, now + 1)
        BY <2>3 DEF WithStatus
      <3> HIDE DEF t
      <3> QED
        BY <1>0, <3>1, CopyType DEF Dated
    <2>4. CASE s \notin {"active", "suspended", "past_due", "cancelled"}
      <3>1. t = tenant
        BY <2>4 DEF WithStatus
      <3> HIDE DEF t
      <3> QED
        BY <1>0, <3>1
    <2> QED
      BY <2>1, <2>2, <2>3, <2>4
  <1>2. /\ Load(r, "billing", IF other THEN [t EXCEPT !.currentPlan = p] ELSE t, "done", Absent)
        /\ replanned' = (replanned \/ other) /\ plansUsed' = plansUsed
    BY DEF HandleSubscriptionStatus
  <1> HIDE DEF t
  <1>3. CASE other
    <2> DEFINE n == [t EXCEPT !.currentPlan = p]
    <2>1. PICK c \in Customers \cup {None} : TRUE
      OBVIOUS
    <2>2. /\ n \in Tenant /\ n.status = t.status /\ n.suspendedAt = t.suspendedAt
          /\ n.cancelledAt = t.cancelledAt /\ n.stripeCustomerId = t.stripeCustomerId
          /\ n.enabledFeatures = t.enabledFeatures
      BY <1>1, <1>3, <2>1, PlanType
    <2>3. Load(r, "billing", n, "done", Absent) /\ replanned' /\ plansUsed' = plansUsed
      BY <1>2, <1>3
    <2> HIDE DEF n
    <2> QED
      BY <1>1, <2>2, <2>3 DEF Loaded, Dated
  <1>4. CASE ~other
    <2>1. /\ Load(r, "billing", t, "done", Absent) /\ (~replanned' => ~replanned)
          /\ plansUsed' = plansUsed
      BY <1>2, <1>4
    <2> QED
      BY <1>1, <2>1 DEF Loaded, Matches
  <1> QED
    BY <1>3, <1>4

\* The copy of a handler that is alone says what the invariant asks.
LEMMA LoadedInv ==
    ASSUME LifeInv, NEW r \in Requests, Loaded(r), Bools'
    PROVE  LifeInv'
  <1>1. PICK by \in {"admin", "billing"}, t \in Tenant, next \in {"done", "delete", "scan"},
             c \in Customers \cup {None, Absent} :
        /\ Load(r, by, t, next, c)
        /\ t.status # "none"
        /\ plansUsed \subseteq plansUsed'
        /\ ~replanned' => /\ ~replanned /\ (Matches(tenant) => Matches(t))
                          /\ t.currentPlan \in plansUsed' \cup {tenant.currentPlan}
        /\ by = "admin" /\ tenant.status = "cancelled" => t.status = "cancelled"
        /\ tenant.stripeCustomerId # None => t.stripeCustomerId # None \/ c = None
        /\ Dated(tenant) => Dated(t)
        /\ next # "delete" => t.enabledFeatures = tenant.enabledFeatures
    BY DEF Loaded
  <1>2. /\ FlagsTypeOK /\ tenant \in Tenant /\ op \in [Requests -> Operation]
        /\ now \in 0 .. MaxOps
    BY LifecycleTypes DEF LifeInv
  <1>3. /\ op' \in [Requests -> Operation]
        /\ op'[r].pc = "compare" /\ op'[r].by = by /\ op'[r].copy = t /\ op'[r].next = next
        /\ op'[r].customer = c
        /\ \A q \in Requests \ {r} : op'[q] = op[q]
    <2> DEFINE o1 == [NoOperation EXCEPT !.pc = "compare"]
               o2 == [o1 EXCEPT !.by = by]
               o3 == [o2 EXCEPT !.copy = t]
               o4 == [o3 EXCEPT !.next = next]
               new == [o4 EXCEPT !.customer = c]
    <2>1. op' = [op EXCEPT ![r] = new]
      BY <1>1 DEF Load
    <2>2. o1 \in Operation /\ o1.pc = "compare"
      BY NoTenantType DEF Operation
    <2> HIDE DEF o1
    <2>3. o2 \in Operation /\ o2.pc = "compare" /\ o2.by = by
      BY <2>2 DEF Operation
    <2> HIDE DEF o2
    <2>4. o3 \in Operation /\ o3.pc = "compare" /\ o3.by = by /\ o3.copy = t
      BY <2>3 DEF Operation
    <2> HIDE DEF o3
    <2>5. o4 \in Operation /\ o4.pc = "compare" /\ o4.by = by /\ o4.copy = t
          /\ o4.next = next
      BY <2>4 DEF Operation
    <2> HIDE DEF o4
    <2>6. new \in Operation /\ new.pc = "compare" /\ new.by = by /\ new.copy = t
          /\ new.next = next /\ new.customer = c
      BY <2>5 DEF Operation
    <2> HIDE DEF new
    <2> QED
      BY <1>2, <2>1, <2>6
  <1>4. /\ UNCHANGED <<rows, lastId, cache, req, writes, faults, excused, tenant, announced,
                       toggled>>
        /\ now < MaxOps /\ now' = now + 1 /\ Unused(r) /\ Exists
        /\ overlap' = (overlap \/ ~Quiet)
    BY <1>1 DEF Load, Begin, Arrive, flagVars
  <1>5. ~overlap' => ~overlap /\ \A q \in Requests : op[q].pc = "idle" /\ ~Busy(q)
    BY <1>4 DEF Quiet, Busy
  <1>6. LifecycleTypeOK'
    <2>1. FlagsTypeOK'
      BY <1>2, <1>4 DEF FlagsTypeOK
    <2>2. now' \in 0 .. MaxOps
      BY <1>2, <1>4, PlansAssumption
    <2> QED
      BY <1>2, <1>3, <1>4, <2>1, <2>2, LifecycleTypesNext
  <1>7. Phases'
    BY <1>1, <1>3, <1>4 DEF LifeInv, Phases, Unused, Saving, Exists
  <1>8. Single'
    BY <1>3, <1>4, <1>5 DEF Single, Busy
  <1>9. Pairs'
    <2> SUFFICES ASSUME ~replanned' PROVE Pairs'
      BY DEF Pairs
    <2>1. /\ Distinct' => Distinct
          /\ ~overlap' => ~overlap
          /\ tenant.currentPlan \in plansUsed
          /\ ~replanned /\ (Matches(tenant) => Matches(t))
          /\ t.currentPlan \in plansUsed'
      BY <1>1, <1>4 DEF Distinct, LifeInv, Pairs
    <2>2. ~overlap \/ Distinct => Matches(tenant) /\ Matches(t)
      BY <1>4, <2>1 DEF LifeInv, Pairs
    <2>3. \A q \in Requests : Saving(q)' => op'[q].copy.currentPlan \in plansUsed'
      BY <1>1, <1>3, <2>1 DEF LifeInv, Pairs, Saving
    <2>4. ~overlap \/ Distinct => \A q \in Requests : Saving(q)' => Matches(op'[q].copy)
      BY <1>3, <2>1, <2>2 DEF LifeInv, Pairs, Saving
    <2>5. Distinct => \A q \in Requests : op'[q].pc = "write" =>
              ("currentPlan" \in op'[q].dirty <=> "enabledFeatures" \in op'[q].dirty)
      BY <1>3, <2>1 DEF LifeInv, Pairs
    <2> QED
      BY <1>1, <1>4, <2>1, <2>2, <2>3, <2>4, <2>5 DEF Pairs, Saving, Matches, Exists
  <1>10. StatusDated'
    BY <1>4, <1>5 DEF LifeInv, StatusDated, Calm
  <1>11. SoloCopy'
    <2>1. ~overlap /\ faults = 0 => Dated(tenant)
      BY DEF LifeInv, StatusDated, Calm, Dated
    <2>2. Dated(tenant) => Dated(op'[r].copy)
      BY <1>1, <1>3
    <2> QED
      BY <1>1, <1>3, <1>4, <1>5, <2>1, <2>2 DEF SoloCopy, Saving, Dated
  <1>12. Following'
    BY <1>4, <1>5 DEF LifeInv, Following, Calm, Settled, Refilling, Present
  <1>13. Announcing'
    <2>1. ASSUME NEW q \in Requests, op[q].pc \in {"membership", "announce"}
          PROVE  op'[q].pc \in {"membership", "announce"}
      BY <1>3, <1>4, <2>1 DEF Unused
    <2> QED
      BY <1>4, <2>1 DEF LifeInv, Announcing, Exists
  <1> QED
    BY <1>6, <1>7, <1>8, <1>9, <1>10, <1>11, <1>12, <1>13 DEF LifeInv

-----------------------------------------------------------------------------
(* The life of a tenant: the other actions.                                *)

\* Nobody is busy before the tenant exists.
LEMMA CreateInv ==
    ASSUME LifeInv, Bools', NEW r \in Requests, NEW p \in Plans, NEW c \in Customers \cup {None},
           CreateTenant(r, p, c)
    PROVE  LifeInv'
  <1>0. PICK features \in SUBSET Features : features = IncludedFeatures(p)
    BY FeaturesType
  <1>1. /\ FlagsTypeOK /\ tenant \in Tenant /\ op \in [Requests -> Operation]
        /\ now \in 0 .. MaxOps
    BY LifecycleTypes DEF LifeInv
  <1>2. /\ tenant' \in Tenant /\ tenant'.status = "active" /\ tenant'.suspendedAt = 0
        /\ tenant'.currentPlan = p /\ tenant'.enabledFeatures = features
    <2> DEFINE t1 == [NoTenant EXCEPT !.status = "active"]
               t2 == [t1 EXCEPT !.currentPlan = p]
               t3 == [t2 EXCEPT !.enabledFeatures = features]
    <2>1. tenant' = [t3 EXCEPT !.stripeCustomerId = c]
      BY <1>0 DEF CreateTenant
    <2>2. t1 \in Tenant /\ t1.status = "active" /\ t1.suspendedAt = 0
      BY NoTenantType DEF Tenant
    <2> HIDE DEF t1
    <2>3. t2 \in Tenant /\ t2.status = "active" /\ t2.suspendedAt = 0 /\ t2.currentPlan = p
      BY <2>2 DEF Tenant
    <2> HIDE DEF t2
    <2>4. /\ t3 \in Tenant /\ t3.status = "active" /\ t3.suspendedAt = 0 /\ t3.currentPlan = p
          /\ t3.enabledFeatures = features
      BY <2>3 DEF Tenant
    <2> HIDE DEF t3
    <2> QED
      BY <2>1, <2>4 DEF Tenant
  <1>3. /\ op' \in [Requests -> Operation] /\ op'[r].pc = "membership"
        /\ \A q \in Requests \ {r} : op'[q] = op[q]
    BY <1>1 DEF CreateTenant, Operation
  <1>4. /\ UNCHANGED <<lastId, cache, req, writes, faults, excused, now, announced, replanned,
                       toggled>>
        /\ rows' = RowsOf(features) /\ plansUsed' = plansUsed \cup {p}
    BY <1>0 DEF CreateTenant
  <1>5. \A q \in Requests : op[q].pc = "idle" /\ req[q].pc = "idle"
    BY DEF CreateTenant, LifeInv, Phases
  <1>6. RowsOf(features) \in [Features -> Row]
        /\ {f \in Features : RowsOf(features)[f].id # 0} = features
        /\ \A f \in features : RowsOf(features)[f].isEnabled = "on"
    BY IdleType DEF RowsOf, Row, Flags
  <1>7. LifecycleTypeOK'
    <2>1. FlagsTypeOK'
      BY <1>1, <1>4, <1>6 DEF FlagsTypeOK
    <2> QED
      BY <1>1, <1>2, <1>3, <1>4, <2>1, LifecycleTypesNext
  <1>8. Phases' /\ Single' /\ SoloCopy'
    BY <1>2, <1>3, <1>4, <1>5 DEF Phases, Single, SoloCopy, Busy, Saving, Exists, Toggling,
       Replacing
  <1>9. Pairs' /\ StatusDated'
    BY <1>0, <1>2, <1>3, <1>4, <1>5 DEF Pairs, StatusDated, Saving, Matches
  <1>10. Following'
    BY <1>2, <1>4, <1>5, <1>6 DEF Following, Settled, Present, Toggling
  <1>11. Announcing'
    BY <1>3 DEF Announcing
  <1> QED
    BY <1>7, <1>8, <1>9, <1>10, <1>11 DEF LifeInv

\* An operation goes on or ends, and the row, its features and the history stay.
LEMMA OpInv ==
    ASSUME LifeInv, Bools', NEW r \in Requests, NEW new \in Operation,
           op' = [op EXCEPT ![r] = new], op[r].pc # "idle", new.pc \in {"idle", "announce"},
           new.pc = "announce" => op[r].pc = "membership",
           UNCHANGED <<rows, lastId, cache, req, writes, excused, tenant, now, history>>,
           faults' \in Nat, faults' = 0 => faults = 0,
           announced => announced',
           op[r].pc \in {"membership", "announce"} =>
               announced' \/ new.pc = "announce" \/ faults' # 0
    PROVE  LifeInv'
  <1>1. /\ FlagsTypeOK /\ tenant \in Tenant /\ op \in [Requests -> Operation]
        /\ now \in 0 .. MaxOps
    BY LifecycleTypes DEF LifeInv
  <1>2. /\ op' \in [Requests -> Operation] /\ op'[r] = new
        /\ \A q \in Requests \ {r} : op'[q] = op[q]
    BY <1>1
  <1>3. /\ \A q \in Requests : Busy(q)' => Busy(q)
        /\ UNCHANGED <<overlap, replanned, plansUsed, toggled>>
    BY <1>2 DEF Busy, history
  <1>4. \A q \in Requests : op'[q].pc \in {"compare", "write"} => op'[q] = op[q] /\ Saving(q)
    BY <1>2 DEF Saving
  <1>5. LifecycleTypeOK'
    <2>1. FlagsTypeOK'
      BY <1>1 DEF FlagsTypeOK
    <2> QED
      BY <1>1, <1>2, <2>1, LifecycleTypesNext
  <1>6. Phases'
    <2>1. \A q \in Requests : op'[q].pc # "idle" => op[q].pc # "idle"
      BY <1>2
    <2> QED
      BY <1>4, <2>1 DEF LifeInv, Phases, Saving, Exists
  <1>7. Single'
    BY <1>3 DEF LifeInv, Single
  <1>8. Pairs'
    BY <1>3, <1>4 DEF LifeInv, Pairs, Saving, Exists, Matches, Distinct
  <1>9. SoloCopy'
    BY <1>3, <1>4 DEF LifeInv, SoloCopy, Saving, Dated
  <1>10. StatusDated' /\ Following'
    BY <1>3 DEF LifeInv, StatusDated, Following, Settled, Refilling, Calm, Present
  <1>11. Announcing'
    BY <1>2 DEF LifeInv, Announcing, Exists
  <1> QED
    BY <1>5, <1>6, <1>7, <1>8, <1>9, <1>10, <1>11 DEF LifeInv

\* The rest of createTenant, and failures.
LEMMA EndsInv ==
    ASSUME LifeInv, Bools', NEW r \in Requests,
           CreateMembership(r) \/ CreateAnnounce(r) \/ Abort(r)
    PROVE  LifeInv'
  <1>1. op \in [Requests -> Operation] /\ faults \in Nat
    BY LifecycleTypes DEF LifeInv, FlagsTypeOK
  <1>2. CASE CreateMembership(r)
    <2> DEFINE new == [op[r] EXCEPT !.pc = "announce"]
    <2>1. op' = [op EXCEPT ![r] = new] /\ op[r].pc = "membership"
      BY <1>2 DEF CreateMembership
    <2>2. new \in Operation /\ new.pc = "announce"
      BY <1>1 DEF Operation
    <2>3. UNCHANGED <<rows, lastId, cache, req, writes, faults, excused, tenant, now, announced,
                      history>>
      BY <1>2 DEF CreateMembership, flagVars
    <2> HIDE DEF new
    <2> QED
      BY <1>1, <2>1, <2>2, <2>3, OpInv
  <1>3. CASE CreateAnnounce(r)
    <2>1. op' = [op EXCEPT ![r] = NoOperation] /\ op[r].pc = "announce" /\ announced'
      BY <1>3 DEF CreateAnnounce
    <2>2. UNCHANGED <<rows, lastId, cache, req, writes, faults, excused, tenant, now, history>>
      BY <1>3 DEF CreateAnnounce, flagVars
    <2> QED
      BY <1>1, <2>1, <2>2, NoTenantType, OpInv
  <1>4. CASE Abort(r)
    <2>1. op' = [op EXCEPT ![r] = NoOperation] /\ op[r].pc # "idle" /\ faults' = faults + 1
      BY <1>4 DEF Abort
    <2>2. UNCHANGED <<rows, lastId, cache, req, writes, excused, tenant, now, announced, history>>
      BY <1>4 DEF Abort
    <2>3. faults' \in Nat /\ faults' # 0
      BY <1>1, <2>1
    <2> QED
      BY <2>1, <2>2, <2>3, NoTenantType, OpInv
  <1> QED
    BY <1>2, <1>3, <1>4

\* One column of the row, while nobody else is busy or the history says so.
LEMMA SyncedInv ==
    ASSUME LifeInv, Bools', NEW r \in Requests, NEW c \in Customers, HandleBillingSynced(r, c)
    PROVE  LifeInv'
  <1>1. /\ FlagsTypeOK /\ tenant \in Tenant /\ op \in [Requests -> Operation]
        /\ now \in 0 .. MaxOps
    BY LifecycleTypes DEF LifeInv
  <1>2. /\ tenant' \in Tenant /\ tenant'.status = tenant.status
        /\ tenant'.suspendedAt = tenant.suspendedAt /\ tenant'.cancelledAt = tenant.cancelledAt
        /\ tenant'.currentPlan = tenant.currentPlan
        /\ tenant'.enabledFeatures = tenant.enabledFeatures
    BY <1>1 DEF HandleBillingSynced, Tenant
  <1>3. /\ UNCHANGED <<rows, lastId, cache, req, writes, faults, excused, op, announced, replanned,
                       plansUsed, toggled>>
        /\ now < MaxOps /\ now' = now + 1 /\ Exists
        /\ overlap' = (overlap \/ ~Quiet)
    BY DEF HandleBillingSynced, Begin, Arrive, flagVars
  <1>4. ~overlap' => ~overlap /\ \A q \in Requests : op[q].pc = "idle" /\ ~Busy(q)
    BY <1>3 DEF Quiet, Busy
  <1>5. LifecycleTypeOK'
    <2>1. FlagsTypeOK'
      BY <1>1, <1>3 DEF FlagsTypeOK
    <2>2. now' \in 0 .. MaxOps
      BY <1>1, <1>3, PlansAssumption
    <2> QED
      BY <1>1, <1>2, <1>3, <2>1, <2>2, LifecycleTypesNext
  <1>6. Phases'
    BY <1>2, <1>3 DEF LifeInv, Phases, Saving, Exists
  <1>7. Single' /\ SoloCopy'
    BY <1>3, <1>4 DEF Single, SoloCopy, Busy, Saving
  <1>8. Pairs'
    BY <1>2, <1>3 DEF LifeInv, Pairs, Saving, Exists, Matches, Distinct
  <1>9. StatusDated'
    BY <1>2, <1>3, <1>4 DEF LifeInv, StatusDated, Calm
  <1>10. Following'
    BY <1>2, <1>3, <1>4 DEF LifeInv, Following, Settled, Refilling, Calm, Present
  <1>11. Announcing'
    BY <1>2, <1>3 DEF LifeInv, Announcing, Exists
  <1> QED
    BY <1>5, <1>6, <1>7, <1>8, <1>9, <1>10, <1>11 DEF LifeInv

\* The comparison finds the plan and its features different, or neither.
LEMMA CompareInv ==
    ASSUME LifeInv, Bools', NEW r \in Requests, Compare(r)
    PROVE  LifeInv'
  <1> DEFINE dirty == {col \in Columns : op[r].copy[col] # tenant[col]}
  <1>1. /\ FlagsTypeOK /\ tenant \in Tenant /\ op \in [Requests -> Operation]
        /\ now \in 0 .. MaxOps
    BY LifecycleTypes DEF LifeInv
  <1>2. UNCHANGED <<rows, lastId, cache, req, writes, faults, excused, tenant, now, announced,
                    overlap, replanned, plansUsed, toggled>>
    BY DEF Compare, flagVars, history
  <1>3. PICK d \in SUBSET Columns : d = dirty
    OBVIOUS
  <1>4. /\ op[r].pc = "compare" /\ op[r] \in Operation
        /\ op' = [op EXCEPT ![r].pc = "write", ![r].dirty = d]
    BY <1>1, <1>3 DEF Compare
  <1>5. /\ op' \in [Requests -> Operation] /\ op'[r].pc = "write" /\ op'[r].dirty = d
        /\ op'[r].copy = op[r].copy /\ op'[r].by = op[r].by /\ op'[r].next = op[r].next
        /\ op'[r].customer = op[r].customer
        /\ \A q \in Requests \ {r} : op'[q] = op[q]
    BY <1>1, <1>4 DEF Operation
  <1>6. op[r].copy \in Tenant
    BY <1>4 DEF Operation
  <1>7. \A col \in Columns \ d : op[r].copy[col] = tenant[col]
    BY <1>3
  <1>8. LifecycleTypeOK'
    <2>1. FlagsTypeOK'
      BY <1>1, <1>2 DEF FlagsTypeOK
    <2> QED
      BY <1>1, <1>2, <1>5, <2>1, LifecycleTypesNext
  <1>9. \A q \in Requests : Busy(q)' <=> Busy(q)
    BY <1>2, <1>4, <1>5 DEF Busy
  <1>10. Phases'
    BY <1>2, <1>4, <1>5, <1>9 DEF LifeInv, Phases, Saving, Exists
  <1>11. Single'
    BY <1>2, <1>9 DEF LifeInv, Single
  <1>12. Pairs'
    <2> SUFFICES ASSUME ~replanned PROVE Pairs'
      BY <1>2 DEF Pairs
    <2>1. Saving(r) /\ Exists /\ tenant.currentPlan \in plansUsed
          /\ op[r].copy.currentPlan \in plansUsed
      BY <1>4 DEF LifeInv, Pairs, Phases, Saving
    <2>2. ASSUME Distinct PROVE "currentPlan" \in d <=> "enabledFeatures" \in d
      <3>1. Matches(tenant) /\ Matches(op[r].copy)
        BY <2>1, <2>2 DEF LifeInv, Pairs
      <3>2. PICK c \in Tenant : c = op[r].copy
        BY <1>6
      <3>3. IncludedFeatures(tenant.currentPlan) = IncludedFeatures(c.currentPlan) =>
               tenant.currentPlan = c.currentPlan
        BY <2>1, <2>2, <3>2 DEF Distinct
      <3> QED
        BY <1>1, <1>3, <3>1, <3>2, <3>3, Compared
    <2>3. \A q \in Requests : Saving(q)' => Saving(q) /\ op'[q].copy = op[q].copy
      BY <1>4, <1>5 DEF Saving
    <2>4. Distinct => \A q \in Requests : op'[q].pc = "write" =>
              ("currentPlan" \in op'[q].dirty <=> "enabledFeatures" \in op'[q].dirty)
      BY <1>5, <2>2 DEF LifeInv, Pairs
    <2> QED
      BY <1>2, <2>3, <2>4 DEF LifeInv, Pairs, Exists, Matches, Distinct
  <1>13. SoloCopy'
    BY <1>2, <1>4, <1>5, <1>7 DEF LifeInv, SoloCopy, Saving, Dated
  <1>14. StatusDated' /\ Following'
    BY <1>2 DEF LifeInv, StatusDated, Following, Settled, Refilling, Calm, Present
  <1>15. Announcing'
    <2>1. ASSUME NEW q \in Requests, op[q].pc \in {"membership", "announce"}
          PROVE  op'[q].pc \in {"membership", "announce"}
      BY <1>4, <1>5, <2>1
    <2> QED
      BY <1>2, <2>1 DEF LifeInv, Announcing, Exists
  <1> QED
    BY <1>8, <1>10, <1>11, <1>12, <1>13, <1>14, <1>15 DEF LifeInv

\* The update of the columns that differed.  An operation that is alone saves its copy as
\* it is; one of several keeps plan and features together.
LEMMA WriteInv ==
    ASSUME LifeInv, Bools', NEW r \in Requests, Write(r)
    PROVE  LifeInv'
  <1>1. /\ FlagsTypeOK /\ tenant \in Tenant /\ op \in [Requests -> Operation]
        /\ now \in 0 .. MaxOps
    BY LifecycleTypes DEF LifeInv
  <1>2. PICK copy \in Tenant, dirty \in SUBSET Columns, next \in {"done", "delete", "scan"} :
        copy = op[r].copy /\ dirty = op[r].dirty /\ next = op[r].next
    BY <1>1 DEF Operation
  <1>0. PICK codes \in SUBSET Features :
        /\ codes = FeaturesToSync(copy.currentPlan, copy.enabledFeatures)
        /\ copy.enabledFeatures # {} => codes = copy.enabledFeatures
    BY FeaturesType DEF Tenant
  <1>3. PICK new \in Request : new = After(next, codes)
    BY AfterType
  <1>4. /\ new.pc = CASE next = "done" -> "idle" [] next = "delete" -> "delete"
                      [] next = "scan" -> "scan"
        /\ next = "delete" => new.codes = codes
    BY <1>3, AfterType
  <1>5. /\ op[r].pc = "write"
        /\ tenant' = [col \in Columns |-> IF col \in dirty THEN copy[col] ELSE tenant[col]]
        /\ op' = [op EXCEPT ![r] = NoOperation]
        /\ req' = [req EXCEPT ![r] = new]
        /\ UNCHANGED <<rows, lastId, cache, writes, faults, excused, now, announced, overlap,
                       replanned, plansUsed, toggled>>
    BY <1>0, <1>2, <1>3 DEF Write, history
  <1>6. /\ op'[r].pc = "idle" /\ \A q \in Requests \ {r} : op'[q] = op[q]
        /\ op' \in [Requests -> Operation]
        /\ req'[r] = new /\ \A q \in Requests \ {r} : req'[q] = req[q]
        /\ req' \in [Requests -> Request]
    BY <1>1, <1>5, NoTenantType DEF FlagsTypeOK
  <1>7. /\ tenant' \in Tenant
        /\ tenant'.status = IF "status" \in dirty THEN copy.status ELSE tenant.status
        /\ tenant'.currentPlan = IF "currentPlan" \in dirty THEN copy.currentPlan
                                                            ELSE tenant.currentPlan
        /\ tenant'.enabledFeatures = IF "enabledFeatures" \in dirty THEN copy.enabledFeatures
                                                                    ELSE tenant.enabledFeatures
    <2>1. PICK t : t = tenant'
      OBVIOUS
    <2> QED
      BY <1>1, <1>5, <2>1, Updated
  <1>8. Busy(r) /\ Saving(r) /\ Exists /\ copy.status # "none"
    BY <1>2, <1>5 DEF Busy, Saving, LifeInv, Phases
  <1>9. tenant'.status # "none"
    BY <1>7, <1>8 DEF Exists
  <1>10. \A q \in Requests : Busy(q)' => Busy(q)
    BY <1>6, <1>8 DEF Busy
  <1>11. ~overlap => /\ tenant'.status = copy.status /\ tenant'.suspendedAt = copy.suspendedAt
                     /\ tenant'.cancelledAt = copy.cancelledAt
                     /\ tenant'.enabledFeatures = copy.enabledFeatures
                     /\ tenant'.currentPlan = copy.currentPlan
                     /\ faults = 0 => Dated(copy)
                     /\ next # "delete" => copy.enabledFeatures = tenant.enabledFeatures
                     /\ \A q \in Requests \ {r} : op[q].pc = "idle" /\ ~Busy(q)
    <2> SUFFICES ASSUME ~overlap
                 PROVE  /\ tenant'.status = copy.status /\ tenant'.suspendedAt = copy.suspendedAt
                        /\ tenant'.cancelledAt = copy.cancelledAt
                        /\ tenant'.enabledFeatures = copy.enabledFeatures
                        /\ tenant'.currentPlan = copy.currentPlan
                        /\ faults = 0 => Dated(copy)
                        /\ next # "delete" => copy.enabledFeatures = tenant.enabledFeatures
                        /\ \A q \in Requests \ {r} : op[q].pc = "idle" /\ ~Busy(q)
      OBVIOUS
    <2>1. /\ \A col \in Columns \ dirty : copy[col] = tenant[col]
          /\ faults = 0 => Dated(copy)
          /\ next # "delete" => copy.enabledFeatures = tenant.enabledFeatures
      BY <1>2, <1>5, <1>8 DEF LifeInv, SoloCopy
    <2>2. PICK t : t = tenant'
      OBVIOUS
    <2>3. /\ t.status = copy.status /\ t.suspendedAt = copy.suspendedAt
          /\ t.cancelledAt = copy.cancelledAt /\ t.enabledFeatures = copy.enabledFeatures
          /\ t.currentPlan = copy.currentPlan
      BY <1>1, <1>5, <2>1, <2>2, Copied
    <2>4. \A q \in Requests \ {r} : op[q].pc = "idle" /\ ~Busy(q)
      BY <1>8 DEF LifeInv, Single, Busy
    <2> QED
      BY <2>1, <2>2, <2>3, <2>4
  <1>12. LifecycleTypeOK'
    <2>1. FlagsTypeOK'
      BY <1>1, <1>5, <1>6 DEF FlagsTypeOK
    <2> QED
      BY <1>1, <1>5, <1>6, <1>7, <2>1, LifecycleTypesNext
  <1>13. Phases'
    <2>1. \A q \in Requests : op'[q].pc # "idle" => req'[q].pc = "idle"
      BY <1>6 DEF LifeInv, Phases
    <2>2. \A q \in Requests : Saving(q)' => op'[q].copy.status # "none"
      BY <1>6 DEF LifeInv, Phases, Saving
    <2> QED
      BY <1>9, <2>1, <2>2 DEF Phases, Exists, Saving
  <1>14. Single'
    BY <1>5, <1>10 DEF LifeInv, Single
  <1>15. Pairs'
    <2> SUFFICES ASSUME ~replanned PROVE Pairs'
      BY <1>5 DEF Pairs
    <2>1. tenant'.currentPlan \in plansUsed
      BY <1>2, <1>7, <1>8 DEF LifeInv, Pairs
    <2>2. ASSUME ~overlap \/ Distinct PROVE Matches(tenant')
      <3>1. Matches(tenant) /\ Matches(copy)
        BY <1>2, <1>8, <2>2 DEF LifeInv, Pairs
      <3>2. CASE ~overlap
        BY <1>11, <3>1, <3>2 DEF Matches
      <3>3. CASE Distinct
        <4>1. "currentPlan" \in dirty <=> "enabledFeatures" \in dirty
          BY <1>2, <1>5, <3>3 DEF LifeInv, Pairs
        <4> QED
          BY <1>7, <3>1, <4>1 DEF Matches
      <3> QED
        BY <2>2, <3>2, <3>3
    <2>3. \A q \in Requests : op'[q].pc # "idle" => op'[q] = op[q]
      BY <1>6
    <2>4. \A q \in Requests :
            /\ Saving(q)' => Saving(q) /\ op'[q].copy = op[q].copy
            /\ op'[q].pc = "write" => op[q].pc = "write" /\ op'[q].dirty = op[q].dirty
      BY <2>3 DEF Saving
    <2>5. (Distinct' <=> Distinct) /\ (Matches(tenant)' <=> Matches(tenant'))
      BY <1>5 DEF Distinct, Matches
    <2> QED
      BY <1>5, <2>1, <2>2, <2>4, <2>5 DEF LifeInv, Pairs, Matches
  <1>16. SoloCopy'
    <2>1. ~overlap => \A q \in Requests : op'[q].pc = "idle"
      BY <1>6, <1>11
    <2> QED
      BY <1>5, <2>1 DEF SoloCopy, Saving
  <1>17. StatusDated'
    BY <1>5, <1>11 DEF StatusDated, Calm, Dated
  <1>18. Following'
    <2> SUFFICES ASSUME ~overlap, faults = 0 PROVE Following'
      BY <1>5 DEF Following, Calm
    <2>1. \A q \in Requests : ~(req[q].pc \in Toggling \cup Replacing)
      <3>1. req[r].pc = "idle"
        BY <1>5 DEF LifeInv, Phases
      <3> QED
        BY <1>11, <3>1 DEF Busy, Toggling, Replacing
    <2>2. \A q \in Requests \ {r} : ~(req'[q].pc \in Toggling \cup Replacing)
      BY <1>6, <2>1
    <2>3. req'[r].pc \notin Toggling
      BY <1>4, <1>6 DEF Toggling
    <2>4. CASE next = "delete"
      <3>1. /\ req'[r].pc = "delete"
            /\ tenant'.enabledFeatures # {} => req'[r].codes = tenant'.enabledFeatures
        BY <1>0, <1>4, <1>6, <1>11, <2>4
      <3> QED
        BY <2>2, <2>3, <3>1 DEF Following, Toggling, Replacing
    <2>5. CASE next # "delete"
      <3>1. tenant'.enabledFeatures = tenant.enabledFeatures /\ req'[r].pc \in {"idle", "scan"}
        BY <1>4, <1>6, <1>11, <2>5
      <3>2. tenant.enabledFeatures # {} => Settled
        BY <2>1 DEF LifeInv, Following, Calm, Replacing
      <3>3. tenant'.enabledFeatures # {} => Settled'
        BY <1>5, <3>1, <3>2 DEF Settled, Present
      <3> QED
        BY <2>2, <2>3, <3>1, <3>3 DEF Following, Toggling, Replacing
    <2> QED
      BY <2>4, <2>5
  <1>19. Announcing'
    <2>1. \A q \in Requests : op[q].pc \in {"membership", "announce"} => op'[q] = op[q]
      BY <1>5, <1>6
    <2> QED
      BY <1>5, <1>8, <2>1 DEF LifeInv, Announcing
  <1> QED
    BY <1>12, <1>13, <1>14, <1>15, <1>16, <1>17, <1>18, <1>19 DEF LifeInv

-----------------------------------------------------------------------------
(* The life of a tenant: checks, toggles and replacements.                 *)

\* The requests of the features module leave the row and the operations alone.
LEMMA RowsInv ==
    ASSUME LifeInv, Bools', FlagsTypeOK',
           UNCHANGED <<tenant, op, now, announced, replanned, plansUsed>>,
           overlap => overlap', faults' = 0 => faults = 0,
           \A q \in Requests : req'[q].pc # "idle" => Exists /\ op[q].pc = "idle",
           Single', Following'
    PROVE  LifeInv'
  <1>1. LifecycleTypeOK'
    BY LifecycleTypes, LifecycleTypesNext DEF LifeInv
  <1>2. Phases'
    BY DEF LifeInv, Phases, Saving, Exists
  <1>3. Pairs' /\ SoloCopy'
    BY DEF LifeInv, Pairs, SoloCopy, Saving, Exists, Matches, Dated, Distinct
  <1>4. StatusDated' /\ Announcing'
    BY DEF LifeInv, StatusDated, Announcing, Calm, Exists
  <1> QED
    BY <1>1, <1>2, <1>3, <1>4 DEF LifeInv

\* One of them moves on.
LEMMA MovesInv ==
    ASSUME LifeInv, Bools', FlagsTypeOK', NEW r \in Requests,
           UNCHANGED <<tenant, op, now, announced, overlap, replanned, plansUsed>>,
           req[r].pc # "idle", \A q \in Requests \ {r} : req'[q] = req[q],
           req'[r].pc \in Toggling \cup Replacing => req[r].pc \in Toggling \cup Replacing,
           faults' = 0 => faults = 0, Following'
    PROVE  LifeInv'
  <1>1. \A q \in Requests : Busy(q)' => Busy(q)
    BY DEF Busy
  <1>2. Single'
    BY <1>1 DEF LifeInv, Single
  <1>3. \A q \in Requests : req'[q].pc # "idle" => Exists /\ op[q].pc = "idle"
    BY DEF LifeInv, Phases
  <1> QED
    BY <1>2, <1>3, RowsInv

\* Rows and snapshot stay as they are.
LEMMA FollowFrame ==
    ASSUME LifeInv, UNCHANGED <<rows, tenant, toggled>>, overlap => overlap',
           faults' = 0 => faults = 0,
           \A q \in Requests :
              /\ req'[q].pc \in Toggling =>
                    req[q].pc \in Toggling /\ req'[q].feature = req[q].feature
              /\ req'[q].pc \in {"delete", "insert"} => req'[q] = req[q]
              /\ req[q].pc \in {"delete", "insert"} => req'[q] = req[q]
    PROVE  Following'
  <1> SUFFICES ASSUME Calm' PROVE Following'
    BY DEF Following
  <1>1. Calm
    BY DEF Calm
  <1>2. \A q \in Requests : req'[q].pc \in Toggling => req'[q].feature \in toggled'
    BY <1>1 DEF LifeInv, Following
  <1>3. ASSUME tenant'.enabledFeatures # {},
               \A q \in Requests : req'[q].pc \notin {"delete", "insert"}
        PROVE  Settled'
    <2>1. \A q \in Requests : req[q].pc \notin {"delete", "insert"}
      BY <1>3
    <2>2. Settled
      BY <1>1, <1>3, <2>1 DEF LifeInv, Following
    <2> QED
      BY <2>2 DEF Settled, Present
  <1>4. ASSUME tenant'.enabledFeatures # {}, NEW q \in Requests
        PROVE  /\ req'[q].pc = "delete" => req'[q].codes = tenant'.enabledFeatures
               /\ req'[q].pc = "insert" => Refilling(q)'
    <2>1. /\ req[q].pc = "delete" => req[q].codes = tenant.enabledFeatures
          /\ req[q].pc = "insert" => Refilling(q)
      BY <1>1, <1>4 DEF LifeInv, Following
    <2> QED
      BY <2>1 DEF Refilling, Present
  <1> QED
    BY <1>2, <1>3, <1>4 DEF Following

\* What the rest of the lemmas use of the types.
LEMMA LifeTypes ==
    ASSUME LifeInv
    PROVE  /\ FlagsTypeOK /\ req \in [Requests -> Request] /\ rows \in [Features -> Row]
           /\ faults \in Nat /\ lastId \in Nat
  BY LifecycleTypes DEF LifeInv, FlagsTypeOK

\* Checks that go on, and toggles up to and after the write.
LEMMA QuietMoves ==
    ASSUME LifeInv, Bools', NEW r \in Requests, UNCHANGED lifecycle,
           \/ ReadOverride(r) \/ ReadDefault(r) \/ Fill(r) \/ ToggleLoad(r) \/ ToggleDel(r)
           \/ ScanDone(r) \/ DelKeys(r) \/ \E f \in Features : Scan(r, f)
    PROVE  LifeInv'
  <1>1. FlagsTypeOK /\ req \in [Requests -> Request]
    BY LifeTypes
  <1>2. FlagsTypeOK'
    <2>1. FlagsNext
      BY DEF FlagsNext, FlagsStep, ReplaceStep
    <2> QED
      BY <1>1, <2>1, FlagsTypes
  <1>3. rows' = rows /\ faults' = faults
    BY DEF ReadOverride, ReadDefault, Fill, ToggleLoad, ToggleDel, ScanDone, DelKeys, Scan
  <1>4. /\ \A q \in Requests \ {r} : req'[q] = req[q]
        /\ \/ req[r].pc \in Reading /\ req'[r].pc \in Reading \cup {"idle"}
           \/ /\ req[r].pc \in Toggling
              /\ req'[r].pc = "idle" \/ (req'[r].pc \in Toggling
                                             /\ req'[r].feature = req[r].feature)
           \/ req[r].pc \in {"scan", "delKeys"} /\ req'[r].pc \in {"idle", "scan", "delKeys"}
    <2>1. CASE ReadOverride(r)
      BY <1>1, <2>1 DEF ReadOverride, Request, Reading
    <2>2. CASE ReadDefault(r)
      BY <1>1, <2>2 DEF ReadDefault, Request, Reading
    <2>3. CASE Fill(r)
      BY <1>1, <2>3, IdleType DEF Fill, Finish, Reading
    <2>4. CASE ToggleLoad(r)
      BY <1>1, <2>4 DEF ToggleLoad, Request, Toggling
    <2>5. CASE ToggleDel(r)
      BY <1>1, <2>5, IdleType DEF ToggleDel, Finish, Toggling
    <2>6. CASE ScanDone(r)
      BY <1>1, <2>6 DEF ScanDone, Goto, Request
    <2>7. CASE DelKeys(r)
      BY <1>1, <2>7, IdleType DEF DelKeys, Finish
    <2>8. ASSUME NEW f \in Features, Scan(r, f)
          PROVE  /\ \A q \in Requests \ {r} : req'[q] = req[q]
                 /\ req[r].pc = "scan" /\ req'[r].pc = "scan"
      <3> DEFINE keys == IF Cached(f) THEN req[r].keys \cup {f} ELSE req[r].keys
                 todo == req[r].todo \ {f}
      <3>1. req' = [req EXCEPT ![r].todo = todo, ![r].keys = keys] /\ req[r].pc = "scan"
        BY <2>8 DEF Scan
      <3> HIDE DEF keys, todo
      <3> QED
        BY <1>1, <3>1 DEF Request
    <2> QED
      BY <2>1, <2>2, <2>3, <2>4, <2>5, <2>6, <2>7, <2>8
  <1>5. UNCHANGED <<tenant, op, now, announced, overlap, replanned, plansUsed, toggled>>
    BY DEF lifecycle, history
  <1>6. Following'
    BY <1>3, <1>4, <1>5, FollowFrame DEF Reading, Toggling
  <1>7. /\ req[r].pc # "idle"
        /\ req'[r].pc \in Toggling \cup Replacing => req[r].pc \in Toggling \cup Replacing
    BY <1>4 DEF Reading, Toggling, Replacing
  <1> QED
    BY <1>2, <1>3, <1>4, <1>5, <1>6, <1>7, MovesInv

\* A toggle that is alone writes a row that a toggle explains.
LEMMA ToggleSaveInv ==
    ASSUME LifeInv, Bools', NEW r \in Requests, UNCHANGED lifecycle, ToggleSave(r)
    PROVE  LifeInv'
  <1>1. FlagsTypeOK /\ req \in [Requests -> Request] /\ rows \in [Features -> Row]
        /\ lastId \in Nat
    BY LifeTypes
  <1>2. FlagsTypeOK'
    <2>1. FlagsNext
      BY DEF FlagsNext, FlagsStep
    <2> QED
      BY <1>1, <2>1, FlagsTypes
  <1>3. PICK f \in Features : f = req[r].feature
    BY <1>1 DEF Request
  <1>4. UNCHANGED <<tenant, op, now, announced, overlap, replanned, plansUsed, toggled>>
    BY DEF lifecycle, history
  <1>5. /\ req[r].pc = "save" /\ faults' = faults
        /\ \A q \in Requests \ {r} : req'[q] = req[q]
        /\ req'[r].pc \in {"idle", "del"}
        /\ req'[r].pc = "del" => req'[r].feature = f
    BY <1>1, <1>3, IdleType DEF ToggleSave, Goto, GiveUp, Finish, Request
  <1>6. /\ \A g \in Features \ {f} : rows'[g] = rows[g]
        /\ rows[f].id # 0 => rows'[f].id # 0
        /\ rows' \in [Features -> Row]
    <2>1. rows' \in [Features -> Row]
      BY <1>2 DEF FlagsTypeOK
    <2>2. CASE rows[f].id = 0
      BY <1>1, <1>3, <2>1, <2>2 DEF ToggleSave, Insert
    <2>3. CASE rows[f].id # 0
      <3>1. rows' = rows \/ rows' = [rows EXCEPT ![f].isEnabled = req[r].value]
        BY <1>3, <2>3 DEF ToggleSave
      <3> QED
        BY <1>1, <2>1, <2>3, <3>1 DEF Row
    <2> QED
      BY <2>2, <2>3
  <1>7. Following'
    <2> SUFFICES ASSUME Calm' PROVE Following'
      BY DEF Following
    <2>1. Calm
      BY <1>4, <1>5 DEF Calm
    <2>2. \A q \in Requests \ {r} : ~(req[q].pc \in Toggling \cup Replacing)
      BY <1>5, <2>1 DEF LifeInv, Single, Calm, Busy, Toggling
    <2>3. f \in toggled
      BY <1>3, <1>5, <2>1 DEF LifeInv, Following, Toggling
    <2>4. tenant.enabledFeatures # {} => Settled
      BY <1>5, <2>1, <2>2 DEF LifeInv, Following, Replacing
    <2>5. Present \subseteq Present' /\ Present' \subseteq Present \cup {f}
      BY <1>6 DEF Present
    <2>6. tenant'.enabledFeatures # {} => Settled'
      BY <1>4, <1>6, <2>3, <2>4, <2>5 DEF Settled, Present
    <2> QED
      BY <1>4, <1>5, <2>2, <2>3, <2>6 DEF Following, Toggling, Replacing
  <1> QED
    BY <1>2, <1>4, <1>5, <1>7, MovesInv DEF Toggling

\* Alone and without failures, the rows deleted and inserted are those of the snapshot.
LEMMA ReplaceInv ==
    ASSUME LifeInv, Bools', NEW r \in Requests,
           \/ ReplaceRows(r)
           \/ UNCHANGED lifecycle /\ RowsReplaced(r)
           \/ UNCHANGED lifecycle /\ \E f \in Features : InsertRow(r, f)
    PROVE  LifeInv'
  <1>1. FlagsTypeOK /\ req \in [Requests -> Request] /\ rows \in [Features -> Row]
        /\ lastId \in Nat
    BY LifeTypes
  <1>2. FlagsTypeOK'
    <2>1. FlagsNext
      BY DEF FlagsNext, FlagsStep, ReplaceStep, ReplaceRows
    <2> QED
      BY <1>1, <2>1, FlagsTypes
  <1>3. UNCHANGED <<tenant, op, now, announced, overlap, replanned, plansUsed>>
    BY DEF lifecycle, history, ReplaceRows
  <1>4. /\ req[r].pc \in {"delete", "insert"} /\ faults' = faults
        /\ \A q \in Requests \ {r} : req'[q] = req[q]
    <2>1. CASE ReplaceRows(r)
      BY <1>1, <2>1 DEF ReplaceRows, DeleteRows
    <2>2. CASE RowsReplaced(r)
      BY <1>1, <2>2 DEF RowsReplaced
    <2>3. ASSUME NEW f \in Features, InsertRow(r, f)
          PROVE  /\ req[r].pc = "insert" /\ faults' = faults
                 /\ \A q \in Requests \ {r} : req'[q] = req[q]
      BY <1>1, <2>3 DEF InsertRow, GiveUp, Finish
    <2> QED
      BY <2>1, <2>2, <2>3
  <1>5. Calm => \A q \in Requests \ {r} :
                   ~(req[q].pc \in Toggling \cup Replacing) /\ req'[q] = req[q]
    BY <1>4 DEF LifeInv, Single, Calm, Busy, Replacing
  <1> DEFINE snapshot == tenant.enabledFeatures
  <1>6. /\ req'[r].pc \in {"idle", "insert", "scan"}
        /\ Calm /\ snapshot # {} =>
              /\ req'[r].pc = "insert" => Refilling(r)'
              /\ req'[r].pc # "insert" => Settled'
    <2>1. CASE ReplaceRows(r)
      <3>1. /\ req[r].pc = "delete" /\ req'[r].pc = "insert" /\ req'[r].todo = req[r].codes
        BY <1>1, <2>1 DEF ReplaceRows, DeleteRows, Request
      <3>2. Present' = {}
        BY <2>1, IdleType DEF ReplaceRows, DeleteRows, Present
      <3>3. Calm /\ snapshot # {} => req[r].codes = snapshot
        BY <3>1 DEF LifeInv, Following
      <3> QED
        BY <1>3, <3>1, <3>2, <3>3 DEF Refilling
    <2>2. ASSUME NEW f \in Features, InsertRow(r, f), UNCHANGED lifecycle
          PROVE  /\ req'[r].pc \in {"idle", "insert"}
                 /\ Calm /\ snapshot # {} =>
                       /\ req'[r].pc = "insert" => Refilling(r)'
                       /\ req'[r].pc # "insert" => Settled'
      <3>1. req[r].pc = "insert" /\ f \in req[r].todo
        BY <2>2 DEF InsertRow
      <3>2. Calm /\ snapshot # {} => Refilling(r)
        BY <3>1 DEF LifeInv, Following
      <3>3. CASE rows[f].id = 0
        <4>1. /\ req' = [req EXCEPT ![r].todo = @ \ {f}]
              /\ rows' = [rows EXCEPT ![f] = [id |-> lastId + 1, isEnabled |-> "on"]]
          BY <2>2, <3>3 DEF InsertRow, Insert
        <4>2. req'[r].pc = "insert" /\ req'[r].todo = req[r].todo \ {f}
          BY <1>1, <3>1, <4>1 DEF Request
        <4>3. /\ Present' = Present \cup {f}
              /\ rows'[f].isEnabled = "on" /\ \A g \in Features \ {f} : rows'[g] = rows[g]
          BY <1>1, <4>1 DEF Present, Row
        <4>4. Calm /\ snapshot # {} =>
                /\ Present' \cup req'[r].todo = snapshot /\ Present' \cap req'[r].todo = {}
                /\ \A g \in Present' : rows'[g].isEnabled = "on"
          BY <3>1, <3>2, <4>2, <4>3 DEF Refilling, Present
        <4> QED
          BY <1>3, <4>2, <4>4 DEF Refilling
      <3>4. CASE rows[f].id # 0
        <4>1. f \in Present /\ req'[r].pc = "idle"
          BY <1>1, <2>2, <3>4, IdleType DEF Present, InsertRow, GiveUp, Finish
        <4>2. ~(Calm /\ snapshot # {})
          BY <3>1, <3>2, <4>1 DEF Refilling
        <4> QED
          BY <4>1, <4>2
      <3> QED
        BY <3>3, <3>4
    <2>3. CASE RowsReplaced(r) /\ UNCHANGED lifecycle
      <3>1. /\ req[r].pc = "insert" /\ req[r].todo = {} /\ req'[r].pc = "scan"
            /\ rows' = rows
        BY <1>1, <2>3, IdleType DEF RowsReplaced
      <3>2. Calm /\ snapshot # {} => Refilling(r)
        BY <3>1 DEF LifeInv, Following
      <3>3. Refilling(r) => Settled
        BY <3>1 DEF Refilling, Settled
      <3>4. UNCHANGED <<tenant, toggled>>
        BY <2>3 DEF lifecycle, history
      <3>5. Settled => Settled'
        BY <3>1, <3>4 DEF Settled, Present
      <3> QED
        BY <3>1, <3>2, <3>3, <3>5
    <2> QED
      BY <2>1, <2>2, <2>3
  <1>7. Following'
    <2> SUFFICES ASSUME Calm' PROVE Following'
      BY DEF Following
    <2>1. Calm
      BY <1>3, <1>4 DEF Calm
    <2>2. \A q \in Requests : req'[q].pc \notin Toggling /\ req'[q].pc # "delete"
      BY <1>5, <1>6, <2>1 DEF Toggling, Replacing
    <2>3. \A q \in Requests : req'[q].pc = "insert" => q = r
      BY <1>5, <2>1 DEF Replacing
    <2> QED
      BY <1>3, <1>6, <2>1, <2>2, <2>3 DEF Following
  <1> QED
    BY <1>2, <1>3, <1>4, <1>6, <1>7, MovesInv DEF Replacing

\* A failure is one.
LEMMA FailInv ==
    ASSUME LifeInv, Bools', NEW r \in Requests, FlagsFail(r)
    PROVE  LifeInv'
  <1>1. FlagsTypeOK /\ req \in [Requests -> Request] /\ faults \in Nat
    BY LifeTypes
  <1>2. FlagsTypeOK'
    <2>1. FlagsNext
      BY DEF FlagsNext, FlagsFail
    <2> QED
      BY <1>1, <2>1, FlagsTypes
  <1>3. UNCHANGED <<tenant, op, now, announced, overlap, replanned, plansUsed>>
    BY DEF FlagsFail, lifecycle, history
  <1>4. /\ req[r].pc # "idle" /\ req'[r].pc = "idle" /\ faults' # 0
        /\ \A q \in Requests \ {r} : req'[q] = req[q]
    BY <1>1, IdleType DEF FlagsFail, FlagsAbort, GiveUp, Finish
  <1>5. Following'
    BY <1>4 DEF Following, Calm
  <1> QED
    BY <1>2, <1>3, <1>4, <1>5, MovesInv DEF Toggling, Replacing

\* A check begins, or an entry expires.
LEMMA CheckInv ==
    ASSUME LifeInv, Bools',
           \/ \E r \in Requests, f \in Features : Check(r, f)
           \/ \E f \in Features : EntryExpires(f)
    PROVE  LifeInv'
  <1>1. FlagsTypeOK /\ req \in [Requests -> Request]
    BY LifeTypes
  <1>2. FlagsTypeOK'
    <2>1. FlagsNext
      BY DEF FlagsNext, Check, EntryExpires
    <2> QED
      BY <1>1, <2>1, FlagsTypes
  <1>3. /\ UNCHANGED <<tenant, op, now, announced, overlap, replanned, plansUsed, toggled>>
        /\ rows' = rows /\ faults' = faults
    BY DEF Check, CheckMisses, EntryExpires, Expire, lifecycle, history
  <1>4. \A q \in Requests :
          req'[q] = req[q] \/ /\ Exists /\ op[q].pc = "idle" /\ req[q].pc = "idle"
                              /\ req'[q].pc = "override"
    <2>1. ASSUME NEW r \in Requests, NEW f \in Features, Check(r, f)
          PROVE  \A q \in Requests :
                   req'[q] = req[q] \/ /\ Exists /\ op[q].pc = "idle" /\ req[q].pc = "idle"
                                       /\ req'[q].pc = "override"
      <3> DEFINE new == [Idle EXCEPT !.pc = "override", !.feature = f]
      <3>1. new.pc = "override"
        BY IdleType DEF Request
      <3>2. req' = [req EXCEPT ![r] = new] /\ Exists /\ Unused(r)
        BY <2>1 DEF Check, CheckMisses
      <3> HIDE DEF new
      <3> QED
        BY <1>1, <3>1, <3>2 DEF Unused
    <2>2. ASSUME NEW f \in Features, EntryExpires(f)
          PROVE  req' = req
      BY <2>2 DEF EntryExpires, Expire
    <2> QED
      BY <2>1, <2>2
  <1>5. Following'
    BY <1>3, <1>4, FollowFrame DEF Toggling
  <1>6. Single'
    <2>1. \A q \in Requests : Busy(q)' => Busy(q)
      BY <1>3, <1>4 DEF Busy, Toggling, Replacing
    <2> QED
      BY <1>3, <2>1 DEF LifeInv, Single
  <1>7. \A q \in Requests : req'[q].pc # "idle" => Exists /\ op[q].pc = "idle"
    BY <1>4 DEF LifeInv, Phases
  <1> QED
    BY <1>2, <1>3, <1>5, <1>6, <1>7, RowsInv

\* A toggle begins.
LEMMA ToggleInv ==
    ASSUME LifeInv, Bools', NEW r \in Requests, NEW f \in Features, NEW v \in Flags,
           ToggleFeature(r, f, v)
    PROVE  LifeInv'
  <1>1. FlagsTypeOK /\ req \in [Requests -> Request]
    BY LifeTypes
  <1>2. FlagsTypeOK'
    <2>1. FlagsNext
      BY DEF FlagsNext, ToggleFeature
    <2> QED
      BY <1>1, <2>1, FlagsTypes
  <1>3. /\ UNCHANGED <<tenant, op, now, announced, replanned, plansUsed>>
        /\ rows' = rows /\ faults' = faults /\ toggled' = toggled \cup {f}
        /\ overlap' = (overlap \/ ~Quiet) /\ Exists /\ Unused(r)
    BY DEF ToggleFeature, Toggle, Arrive
  <1>4. /\ req'[r].pc = "load" /\ req'[r].feature = f
        /\ \A q \in Requests \ {r} : req'[q] = req[q]
    <2> DEFINE new == [Idle EXCEPT !.pc = "load", !.feature = f, !.value = v]
    <2>1. new.pc = "load" /\ new.feature = f
      BY IdleType DEF Request
    <2>2. req' = [req EXCEPT ![r] = new]
      BY DEF ToggleFeature, Toggle
    <2> HIDE DEF new
    <2> QED
      BY <1>1, <2>1, <2>2
  <1>5. ~overlap' => ~overlap /\ \A q \in Requests : ~Busy(q)
    BY <1>3 DEF Quiet
  <1>6. Single'
    BY <1>3, <1>4, <1>5 DEF Single, Busy
  <1>7. \A q \in Requests : req'[q].pc # "idle" => Exists /\ op[q].pc = "idle"
    BY <1>3, <1>4 DEF LifeInv, Phases, Unused
  <1>8. Following'
    <2> SUFFICES ASSUME Calm' PROVE Following'
      BY DEF Following
    <2>1. Calm /\ \A q \in Requests : req[q].pc \notin Toggling \cup Replacing
      BY <1>3, <1>5 DEF Calm, Busy
    <2>2. tenant.enabledFeatures # {} => Settled
      BY <2>1 DEF LifeInv, Following, Replacing
    <2>3. tenant'.enabledFeatures # {} => Settled'
      BY <1>3, <2>2 DEF Settled, Present
    <2> QED
      BY <1>3, <1>4, <2>1, <2>3 DEF Following, Toggling, Replacing
  <1> QED
    BY <1>2, <1>3, <1>6, <1>7, <1>8, RowsInv

-----------------------------------------------------------------------------
(* The life of a tenant: theorems.                                         *)

\* No step leaves the invariant.
LEMMA LifeNextInv == LifeInv /\ [Next]_vars => LifeInv'
  <1> SUFFICES ASSUME LifeInv, [Next]_vars PROVE LifeInv'
    OBVIOUS
  <1>0. LifecycleTypeOK /\ Bools'
    BY LifecycleTypes, BoolsStep DEF LifeInv
  <1>1. CASE UNCHANGED vars
    <2>1. UNCHANGED <<rows, lastId, cache, req, writes, faults, excused, tenant, op, now,
                      announced, overlap, replanned, plansUsed, toggled>>
      BY <1>1 DEF vars, flagVars, lifecycle, history
    <2>2. LifecycleTypeOK'
      BY <1>0, <2>1, LifecycleTypes, LifecycleTypesNext DEF FlagsTypeOK
    <2> QED
      BY <2>1, <2>2 DEF LifeInv, Phases, Single, Pairs, SoloCopy, StatusDated, Following,
         Settled, Refilling, Announcing, Calm, Busy, Exists, Saving, Matches, Present, Dated,
         Distinct
  <1>2. CASE Next
    <2>1. CASE \E f \in Features : EntryExpires(f)
      BY <1>0, <2>1, CheckInv
    <2>2. ASSUME NEW r \in Requests,
                 \/ \E p \in Plans, c \in Customers \cup {None} : CreateTenant(r, p, c)
                 \/ CreateMembership(r) \/ CreateAnnounce(r)
                 \/ \E p \in Plans \cup {Absent}, c \in Customers \cup {None, Absent} :
                       UpdateTenant(r, p, c)
                 \/ SuspendTenant(r) \/ ActivateTenant(r) \/ ArchiveTenant(r)
                 \/ \E st \in Statuses, p \in Plans \cup {Absent} :
                       HandleSubscriptionStatus(r, st, p)
                 \/ \E c \in Customers : HandleBillingSynced(r, c)
                 \/ Compare(r) \/ Write(r) \/ Abort(r)
          PROVE  LifeInv'
      <3>1. Loaded(r) => LifeInv'
        BY <1>0, LoadedInv
      <3> QED
        BY <1>0, <2>2, <3>1, UpdateLoads, StatusLoads, BillingLoads, CreateInv, EndsInv,
           SyncedInv, CompareInv, WriteInv
    <2>3. ASSUME NEW r \in Requests,
                 \/ \E f \in Features : Check(r, f) \/ \E v \in Flags : ToggleFeature(r, f, v)
                 \/ ReplaceRows(r) \/ FlagsFail(r)
          PROVE  LifeInv'
      BY <1>0, <2>3, CheckInv, ToggleInv, ReplaceInv, FailInv
    <2>4. ASSUME NEW r \in Requests, FlagsGoOn(r)
          PROVE  LifeInv'
      <3>1. UNCHANGED lifecycle /\ FlagsStep(r) /\ ~DeleteRows(r)
        BY <2>4 DEF FlagsGoOn, DeleteRows
      <3> QED
        BY <1>0, <3>1, QuietMoves, ToggleSaveInv, ReplaceInv DEF FlagsStep, ReplaceStep
    <2> QED
      BY <1>2, <2>1, <2>2, <2>3, <2>4 DEF Next
  <1> QED
    BY <1>1, <1>2

\* Before the tenant is created there is nothing to pair.
LEMMA LifeInit == Init => LifeInv
  <1> SUFFICES ASSUME Init PROVE LifeInv
    OBVIOUS
  <1>1. FlagsTypeOK
    BY FlagsStartInv DEF Init, FlagsInv
  <1>2. /\ tenant = NoTenant /\ op = [r \in Requests |-> NoOperation] /\ now = 0
        /\ announced = FALSE /\ overlap = FALSE /\ replanned = FALSE
        /\ plansUsed = {} /\ toggled = {}
        /\ req = [r \in Requests |-> Idle] /\ rows = RowsOf({})
    BY DEF Init, FlagsStart
  <1>3. Bools
    BY <1>2 DEF Bools
  <1>4. LifecycleTypeOK
    BY <1>1, <1>2, <1>3, LifecycleTypes, NoTenantType, PlansAssumption
  <1>5. \A r \in Requests : op[r].pc = "idle" /\ req[r].pc = "idle"
    BY <1>2, IdleType, NoTenantType
  <1>6. Phases /\ Single /\ Pairs /\ SoloCopy /\ StatusDated /\ Announcing
    BY <1>2, <1>5, NoTenantType DEF Phases, Single, Pairs, SoloCopy, StatusDated, Announcing,
       Exists, Busy, Saving, Toggling, Replacing
  <1>7. Following
    BY <1>2, <1>5, NoTenantType DEF Following, Toggling
  <1> QED
    BY <1>4, <1>6, <1>7 DEF LifeInv

\* For any plans, customers and requests, the invariant is one.
LEMMA LifeInvariance == Spec => []LifeInv
  BY LifeInit, LifeNextInv, PTL DEF Spec

\* One at a time and without failures, the operations of administrators and the messages
\* of billing keep the status and its dates together and leave tenant_features with the rows
\* of a snapshot that is not empty, but for toggles, and a created tenant is announced.
THEOREM TenantStaysWhole == Spec => []LifecycleInv
  <1>1. LifeInv => LifecycleInv
    <2> SUFFICES ASSUME LifeInv PROVE LifecycleInv
      OBVIOUS
    <2>1. FlagsFollowTenant
      BY DEF LifeInv, Following, Settled, FlagsFollowTenant, Quiet, Busy, Replacing
    <2>2. CreatedIsAnnounced
      BY DEF LifeInv, Announcing, CreatedIsAnnounced, Quiet, Busy
    <2> QED
      BY <2>1, <2>2 DEF LifeInv, LifecycleInv
  <1> QED
    BY <1>1, LifeInvariance, PTL

\* However requests overlap and fail, and however stale what they save, no row pairs a
\* plan with another plan's features unless a billing message brought a plan, or requests
\* overlapped and asked for two plans with the same features.
THEOREM PlanAndSnapshotAgree == Spec => []SnapshotMatchesPlan
  <1>1. LifeInv => SnapshotMatchesPlan
    BY DEF LifeInv, Pairs, SnapshotMatchesPlan, Matches
  <1> QED
    BY <1>1, LifeInvariance, PTL

\* What an operation that is alone writes.
LEMMA AloneWrites ==
    ASSUME LifeInv, NEW r \in Requests, Write(r), ~overlap
    PROVE  /\ op[r].pc = "write"
           /\ op[r].by = "billing" \/ (tenant.status = "cancelled" => tenant'.status = "cancelled")
           /\ tenant.stripeCustomerId # None =>
                 tenant'.stripeCustomerId # None \/ op[r].customer = None
  <1>1. tenant \in Tenant /\ op[r] \in Operation
    BY LifecycleTypes DEF LifeInv
  <1>2. PICK copy \in Tenant, dirty \in SUBSET Columns : copy = op[r].copy /\ dirty = op[r].dirty
    BY <1>1 DEF Operation
  <1>3. PICK t : t = tenant'
    OBVIOUS
  <1>4. /\ op[r].pc = "write" /\ op[r].by \in {"admin", "billing"}
        /\ t = [col \in Columns |-> IF col \in dirty THEN copy[col] ELSE tenant[col]]
    BY <1>1, <1>2, <1>3 DEF Write, Operation
  <1>5. /\ \A col \in Columns \ dirty : copy[col] = tenant[col]
        /\ op[r].by = "admin" /\ tenant.status = "cancelled" => copy.status = "cancelled"
        /\ tenant.stripeCustomerId # None =>
              copy.stripeCustomerId # None \/ op[r].customer = None
    BY <1>2, <1>4 DEF LifeInv, SoloCopy, Saving
  <1>6. t.status = copy.status /\ t.stripeCustomerId = copy.stripeCustomerId
    BY <1>1, <1>4, <1>5, Copied
  <1> QED
    BY <1>3, <1>4, <1>5, <1>6

\* What changes the row of a tenant.
LEMMA WhoWrites ==
    ASSUME LifeInv, [Next]_vars, Exists
    PROVE  \/ tenant' = tenant
           \/ \E r \in Requests : Write(r)
           \/ \E c \in Customers : tenant' = [tenant EXCEPT !.stripeCustomerId = c]
  BY Zenon DEF Next, vars, lifecycle, CreateTenant, CreateMembership, CreateAnnounce,
     UpdateTenant, SuspendTenant, ActivateTenant, ArchiveTenant, HandleSubscriptionStatus,
     HandleBillingSynced, Compare, Abort, Load, LoadAs, Check, ToggleFeature, ReplaceRows,
     FlagsGoOn, FlagsFail, EntryExpires

\* While requests do not overlap, no operation of an administrator revives a cancelled
\* tenant, and only a PATCH that says null loses a tenant's Stripe customer.
THEOREM NoStepRevivesOrForgets == Spec => LifecycleSteps
  <1>1. ASSUME LifeInv, [Next]_vars
        PROVE  /\ tenant.status = "cancelled" /\ tenant'.status # "cancelled" /\ ~overlap
                     => \E r \in Requests : op[r].pc = "write" /\ op[r].by = "billing"
               /\ tenant.stripeCustomerId # None /\ tenant'.stripeCustomerId = None /\ ~overlap
                     => \E r \in Requests : op[r].pc = "write" /\ op[r].customer = None
    <2>0. tenant \in Tenant
      BY <1>1, LifecycleTypes DEF LifeInv
    <2>1. tenant.status = "cancelled" \/ tenant.stripeCustomerId # None => Exists
      BY <1>1 DEF LifeInv, Phases, Exists
    <2>2. CASE tenant' = tenant
      BY <2>2
    <2>3. ASSUME NEW c \in Customers, tenant' = [tenant EXCEPT !.stripeCustomerId = c]
          PROVE  tenant'.status = tenant.status /\ tenant'.stripeCustomerId # None
      BY <2>0, <2>3, PlansAssumption DEF Tenant
    <2> QED
      BY <1>1, <2>1, <2>2, <2>3, AloneWrites, WhoWrites
  <1>2. LifeInv /\ [Next]_vars =>
          [tenant.status = "cancelled" /\ tenant'.status # "cancelled" /\ ~overlap
             => \E r \in Requests : op[r].pc = "write" /\ op[r].by = "billing"]_vars
    BY <1>1
  <1>3. LifeInv /\ [Next]_vars =>
          [tenant.stripeCustomerId # None /\ tenant'.stripeCustomerId = None /\ ~overlap
             => \E r \in Requests : op[r].pc = "write" /\ op[r].customer = None]_vars
    BY <1>1
  <1> QED
    BY <1>2, <1>3, LifeInvariance, PTL
       DEF Spec, LifecycleSteps, OnlyBillingRevives, CustomerKept

=============================================================================
