--------------------------- MODULE SdkRequestProofs ---------------------------
(***************************************************************************)
(* The feature gate of the SDK opens for nobody whose tenant did not have  *)
(* the feature recently, the cache keeps its bound, and audit events       *)
(* follow the answers, for any tenants, callers, routes, options, times    *)
(* and number of overlapping requests.                                     *)
(***************************************************************************)
EXTENDS SdkRequest, SequenceTheorems, TLAPS

\* How far a request has come: before the handler nothing is done or answered, and whoever
\* is behind the gate, or holds an answer of the tenant manager, named a tenant.
Staged(q) ==
    /\ q.pc \in {"idle", "fetch", "fill", "reply"} => q.answer = 0 /\ ~q.effect /\ ~q.published
    /\ q.pc = "handler" =>
          /\ q.answer \in {0, 408} /\ ~q.published
          /\ GateAsks(q.route) => q.tenant # NoTenant
    /\ q.pc \in {"fetch", "fill", "reply", "handler"} =>
          q.context = q.tenant \/ q.tenant = NoTenant
    /\ q.pc = "fill" => q.fetched \in {"on", "off"}
    /\ q.pc \in {"fill", "reply"} /\ q.fetched \in {"on", "off"} => q.tenant # NoTenant

\* AuditFollowsAnswer, of one request.
Audited(q) ==
    /\ q.published => q.effect /\ q.answer = 200
    /\ q.answer = 200 /\ Publishes(q.route) => q.published

\* The answer "on" is no older than the time its call has used; on its way to Redis it is
\* still what the tenant manager has.
Punctual(q) ==
    /\ q.pc = "reply" /\ q.fetched = "on" => sinceOn[q.tenant] + q.left <= FetchTimeout
    /\ q.pc = "fill" /\ q.fetched = "on" => sinceOn[q.tenant] = 0

Good(q) == Staged(q) /\ Audited(q) /\ Punctual(q)

\* The tenant manager's table, Redis and the reads that nobody waits for.
ManagerOK ==
    /\ flag \in [Tenants -> BOOLEAN] /\ redis \in [Tenants -> {"none", "on", "off"}]
    /\ late \subseteq Tenants \X {"on", "off"}
OnIsNow ==
    \A t \in Tenants : flag[t] \/ redis[t] = "on" \/ <<t, "on">> \in late => sinceOn[t] = 0

\* The same of the cache, for as long as an entry lives.
CacheFresh ==
    \A i \in DOMAIN cache :
        cache[i].value /\ cache[i].left > 0 => sinceOn[cache[i].key] + cache[i].left <= Stale

IInv ==
    /\ SdkTypeOK /\ OnIsNow /\ CacheFresh
    /\ \A r \in Requests : Good(req[r])

-----------------------------------------------------------------------------
(* The operators of the model.                                             *)

\* The record of a request that is not in flight.
LEMMA IdleType ==
    /\ Idle \in Request /\ Idle.pc = "idle" /\ Idle.answer = 0 /\ Idle.effect = FALSE
    /\ Idle.published = FALSE /\ Idle.tenant = NoTenant
  BY SdkAssumption DEF Idle, Request

\* It has done nothing.
LEMMA IdleGood == Good(Idle)
  BY IdleType DEF Good, Staged, Audited, Punctual

\* A refused request did nothing.
LEMMA RefusedGood ==
    ASSUME NEW status \in {401, 403}
    PROVE  Refused(status) \in Request /\ Good(Refused(status)) /\ Refused(status).pc = "over"
  <1> DEFINE q == Refused(status)
  <1>0. q \in Request
    <2> DEFINE q1 == [Idle EXCEPT !.pc = "over"]
    <2>1. q = [q1 EXCEPT !.answer = status]
      BY DEF Refused
    <2>2. q1 \in Request
      BY IdleType DEF Request
    <2> HIDE DEF q, q1
    <2> QED
      BY <2>1, <2>2 DEF Request
  <1>1. /\ q \in Request /\ q.pc = "over" /\ q.answer = status
        /\ q.effect = FALSE /\ q.published = FALSE
    BY <1>0, IdleType DEF Refused, Request
  <1> HIDE DEF q
  <1>2. Good(q)
    BY <1>1 DEF Good, Staged, Audited, Punctual
  <1> QED
    BY <1>1, <1>2 DEF q

\* The cache as a function.
LEMMA CacheFunction ==
    ASSUME SdkTypeOK
    PROVE  /\ Len(cache) \in Nat /\ DOMAIN cache = 1 .. Len(cache)
           /\ cache \in [DOMAIN cache -> Entry] /\ cache \in Seq(Entry)
           /\ Len(cache) <= MaxSize
           /\ \A i, j \in DOMAIN cache : cache[i].key = cache[j].key => i = j
  BY LenProperties DEF SdkTypeOK

\* What setCacheEntry leaves in the Map: one entry for each key, at most MAX_CACHE_SIZE, each
\* the new one or an old one.
LEMMA CacheSet ==
    ASSUME SdkTypeOK, NEW t \in Tenants, NEW v \in BOOLEAN
    PROVE  LET new == SetCacheEntry(t, v)
           IN  /\ new \in Seq(Entry) /\ Len(new) <= MaxSize
               /\ \A i, j \in DOMAIN new : new[i].key = new[j].key => i = j
               /\ \A i \in DOMAIN new :
                     \/ new[i] = [key |-> t, value |-> v, left |-> Ttl]
                     \/ \E j \in DOMAIN cache : new[i] = cache[j]
  <1> DEFINE entry == [key |-> t, value |-> v, left |-> Ttl]
             kept == IF Len(cache) >= MaxSize THEN Tail(cache) ELSE cache
             at == {i \in DOMAIN kept : kept[i].key = t}
             new == SetCacheEntry(t, v)
  <1>1. entry \in Entry /\ entry.key = t
    BY SdkAssumption DEF Entry
  <1>2. /\ kept \in Seq(Entry) /\ Len(kept) \in Nat /\ Len(kept) + 1 <= MaxSize
        /\ DOMAIN kept = 1 .. Len(kept)
        /\ \A i \in DOMAIN kept : \E j \in DOMAIN cache : kept[i] = cache[j]
        /\ \A i, j \in DOMAIN kept : kept[i].key = kept[j].key => i = j
    <2>1. CASE Len(cache) >= MaxSize
      <3>1. cache # <<>> /\ cache \in Seq(Entry)
        BY <2>1, CacheFunction, SdkAssumption, EmptySeq
      <3>2. /\ Tail(cache) \in Seq(Entry) /\ Len(Tail(cache)) = Len(cache) - 1
            /\ \A i \in 1 .. Len(Tail(cache)) : Tail(cache)[i] = cache[i + 1]
        BY <3>1, HeadTailProperties
      <3>3. DOMAIN Tail(cache) = 1 .. Len(Tail(cache))
        BY <3>2, LenProperties
      <3>4. kept = Tail(cache)
        BY <2>1
      <3> HIDE DEF kept
      <3> QED
        BY <3>2, <3>3, <3>4, CacheFunction, SdkAssumption
    <2>2. CASE ~(Len(cache) >= MaxSize)
      <3>1. kept = cache
        BY <2>2
      <3> HIDE DEF kept
      <3> QED
        BY <2>2, <3>1, CacheFunction, SdkAssumption
    <2> QED
      BY <2>1, <2>2
  <1>3. new = IF at = {} THEN Append(kept, entry)
              ELSE [i \in DOMAIN kept |-> IF i \in at THEN entry ELSE kept[i]]
    BY DEF SetCacheEntry
  <1> HIDE DEF kept, entry, new
  <1>4. CASE at = {}
    <2>1. new = Append(kept, entry)
      BY <1>3, <1>4
    <2>2. /\ new \in Seq(Entry) /\ Len(new) = Len(kept) + 1
          /\ \A i \in 1 .. Len(kept) : new[i] = kept[i]
          /\ new[Len(kept) + 1] = entry
      BY <1>1, <1>2, <2>1, AppendProperties
    <2>3. DOMAIN new = 1 .. Len(new)
      BY <2>2, LenProperties
    <2>4. \A i \in 1 .. Len(kept) : kept[i].key # t
      BY <1>2, <1>4
    <2>5. \A i \in DOMAIN new : i \in 1 .. Len(kept) \/ i = Len(kept) + 1
      BY <1>2, <2>2, <2>3
    <2>6. \A i, j \in DOMAIN new : new[i].key = new[j].key => i = j
      BY <1>1, <1>2, <2>2, <2>4, <2>5
    <2>7. \A i \in DOMAIN new : new[i] = entry \/ \E j \in DOMAIN cache : new[i] = cache[j]
      BY <1>2, <2>2, <2>5
    <2> QED
      BY <1>2, <2>2, <2>6, <2>7 DEF entry, new
  <1>5. CASE at # {}
    <2>1. new = [i \in DOMAIN kept |-> IF i \in at THEN entry ELSE kept[i]]
      BY <1>3, <1>5
    <2>2. \A i \in DOMAIN kept : kept[i] \in Entry
      BY <1>2, ElementOfSeq
    <2>3. new \in [1 .. Len(kept) -> Entry]
      BY <1>1, <1>2, <2>1, <2>2
    <2>4. new \in Seq(Entry) /\ Len(new) = Len(kept) /\ DOMAIN new = DOMAIN kept
      BY <1>2, <2>3
    <2>5. \A i \in DOMAIN new : new[i].key = kept[i].key
      BY <1>1, <2>1, <2>4
    <2>6. \A i \in DOMAIN new : new[i] = entry \/ \E j \in DOMAIN cache : new[i] = cache[j]
      BY <1>2, <2>1, <2>4
    <2> QED
      BY <1>2, <2>4, <2>5, <2>6, SdkAssumption DEF entry, new
  <1> QED
    BY <1>4, <1>5

\* What becomes of a request that is let through.
LEMMA AdmittedType ==
    ASSUME NEW q \in Request
    PROVE  LET new == Admitted(q)
           IN  /\ new \in Request /\ new.pc = "handler"
               /\ new.tenant = q.tenant /\ new.context = q.context /\ new.route = q.route
               /\ new.answer = q.answer /\ new.effect = q.effect
               /\ new.published = q.published
  <1> DEFINE q1 == [q EXCEPT !.pc = "handler"]
             q2 == [q1 EXCEPT !.left = 0]
             new == Admitted(q)
  <1>1. new = [q2 EXCEPT !.fetched = "error"]
    BY DEF Admitted
  <1>2. /\ new.pc = "handler"
        /\ new.tenant = q.tenant /\ new.context = q.context /\ new.route = q.route
        /\ new.answer = q.answer /\ new.effect = q.effect /\ new.published = q.published
    BY DEF Admitted, Request
  <1>3. q1 \in Request
    BY DEF Request
  <1> HIDE DEF q1
  <1>4. q2 \in Request
    BY <1>3, SdkAssumption DEF Request
  <1> HIDE DEF q2, new
  <1>5. new \in Request
    BY <1>1, <1>4 DEF Request
  <1> QED
    BY <1>2, <1>5 DEF new

-----------------------------------------------------------------------------
(* What each action makes of its request.                                  *)

Requested(r) == \E new \in Request : Good(new) /\ req' = [req EXCEPT ![r] = new]

\* A request arrives: refused by a guard or the cache, admitted, or waiting for an answer.
LEMMA ArriveGood ==
    ASSUME IInv, NEW r \in Requests, NEW c \in Callers, NEW d \in Routes, Arrive(r, c, d)
    PROVE  /\ Requested(r)
           /\ req'[r].pc = "handler" /\ GateAsks(req'[r].route) =>
                 req'[r].tenant # NoTenant /\ sinceOn[req'[r].tenant] < Stale
  <1> DEFINE q == [Idle EXCEPT !.tenant = c.tenant, !.context = ContextOf(c), !.route = d]
             denied == GuardAnswer(c, d)
             live == Live(c.tenant)
             asking == [q EXCEPT !.pc = "fetch", !.left = FetchTimeout]
  <1>0. /\ q \in Request /\ q.context = ContextOf(c)
        /\ ContextOf(c) = c.tenant \/ c.tenant = NoTenant
    <2> DEFINE q1 == [Idle EXCEPT !.tenant = c.tenant]
               q2 == [q1 EXCEPT !.context = ContextOf(c)]
    <2>1. /\ q = [q2 EXCEPT !.route = d]
          /\ q.context = ContextOf(c)
      BY IdleType DEF Request
    <2>2. /\ c.tenant \in Tenants \cup {NoTenant}
          /\ ContextOf(c) \in Tenants \cup {NoTenant, PlatformAdminTenant}
          /\ ContextOf(c) = c.tenant \/ c.tenant = NoTenant
      BY SdkAssumption DEF Caller, ContextOf
    <2>3. q1 \in Request
      BY <2>2, IdleType DEF Request
    <2> HIDE DEF q1
    <2>4. q2 \in Request
      BY <2>2, <2>3 DEF Request
    <2> HIDE DEF q2, q
    <2> QED
      BY <2>1, <2>2, <2>4 DEF Request
  <1>1. /\ q \in Request /\ q.pc = "idle" /\ q.answer = 0 /\ q.effect = FALSE
        /\ q.published = FALSE /\ q.route = d /\ q.tenant = c.tenant
        /\ q.context = q.tenant \/ q.tenant = NoTenant
    <2>1. /\ q.pc = "idle" /\ q.answer = 0 /\ q.effect = FALSE
          /\ q.published = FALSE /\ q.route = d /\ q.tenant = c.tenant
      BY IdleType DEF Request
    <2> HIDE DEF q
    <2> QED
      BY <1>0, <2>1
  <1>2. denied \in {0, 401, 403}
    BY DEF GuardAnswer
  <1>3. req' = [req EXCEPT ![r] =
             IF denied # 0 THEN Refused(denied)
             ELSE IF ~GateAsks(d) THEN Admitted(q)
             ELSE IF live # {} THEN Gated(q, \A i \in live : cache[i].value)
             ELSE asking]
    BY DEF Arrive
  <1> HIDE DEF q
  <1>4. /\ Admitted(q) \in Request /\ Admitted(q).pc = "handler" /\ Admitted(q).answer = 0
        /\ Admitted(q).effect = FALSE /\ Admitted(q).published = FALSE
        /\ Admitted(q).route = d /\ Admitted(q).tenant = q.tenant
        /\ Admitted(q).context = q.context
    BY <1>1, AdmittedType
  <1>5. /\ asking \in Request /\ asking.pc = "fetch" /\ asking.answer = 0
        /\ asking.effect = FALSE /\ asking.published = FALSE
        /\ asking.tenant = q.tenant /\ asking.context = q.context
    <2> DEFINE q1 == [q EXCEPT !.pc = "fetch"]
    <2>1. asking = [q1 EXCEPT !.left = FetchTimeout]
      OBVIOUS
    <2>2. /\ asking.pc = "fetch" /\ asking.answer = 0
          /\ asking.effect = FALSE /\ asking.published = FALSE
          /\ asking.tenant = q.tenant /\ asking.context = q.context
      BY <1>1 DEF Request
    <2>3. q1 \in Request
      BY <1>1 DEF Request
    <2> HIDE DEF q1, asking
    <2>4. asking \in Request
      BY <2>1, <2>3, SdkAssumption DEF Request
    <2> QED
      BY <2>2, <2>4
  <1>6. req \in [Requests -> Request]
    BY DEF IInv, SdkTypeOK
  <1> HIDE DEF denied, live, asking
  <1>7. CASE denied # 0
    <2>1. req' = [req EXCEPT ![r] = Refused(denied)]
      BY <1>3, <1>7
    <2>2. Refused(denied) \in Request /\ Good(Refused(denied)) /\ Refused(denied).pc = "over"
      BY <1>2, <1>7, RefusedGood
    <2> QED
      BY <1>6, <2>1, <2>2 DEF Requested
  <1>8. CASE denied = 0 /\ ~GateAsks(d)
    <2>1. req' = [req EXCEPT ![r] = Admitted(q)]
      BY <1>3, <1>8
    <2>2. ~GateAsks(Admitted(q).route)
      BY <1>4, <1>8
    <2>3. Good(Admitted(q))
      BY <1>1, <1>4, <2>2 DEF Good, Staged, Audited, Punctual
    <2> QED
      BY <1>4, <1>6, <2>1, <2>2, <2>3 DEF Requested
  <1>9. CASE denied = 0 /\ GateAsks(d) /\ live # {}
    <2>1. req' = [req EXCEPT ![r] = Gated(q, \A i \in live : cache[i].value)]
      BY <1>3, <1>9
    <2>2. CASE \A i \in live : cache[i].value
      <3>1. req' = [req EXCEPT ![r] = Admitted(q)]
        BY <2>1, <2>2 DEF Gated
      <3>2. PICK i \in DOMAIN cache : cache[i].key = c.tenant /\ cache[i].left > 0 /\ cache[i].value
        BY <1>9, <2>2 DEF live, Live
      <3>3. cache[i] \in Entry
        BY CacheFunction DEF IInv
      <3>4. c.tenant \in Tenants /\ c.tenant # NoTenant
        BY <3>2, <3>3, SdkAssumption DEF Entry
      <3>5. sinceOn[c.tenant] < Stale
        <4>1. sinceOn[c.tenant] + cache[i].left <= Stale
          BY <3>2 DEF IInv, CacheFresh
        <4>2. sinceOn[c.tenant] \in 0 .. Stale /\ cache[i].left \in 0 .. Ttl
          BY <3>3, <3>4 DEF IInv, SdkTypeOK, Entry
        <4> QED
          BY <3>2, <4>1, <4>2, SdkAssumption DEF Stale
      <3>6. Good(Admitted(q))
        BY <1>1, <1>4, <3>4 DEF Good, Staged, Audited, Punctual
      <3> QED
        BY <1>1, <1>4, <1>6, <3>1, <3>4, <3>5, <3>6 DEF Requested
    <2>3. CASE ~(\A i \in live : cache[i].value)
      <3>1. req' = [req EXCEPT ![r] = Refused(403)]
        BY <2>1, <2>3 DEF Gated
      <3>2. Refused(403) \in Request /\ Good(Refused(403)) /\ Refused(403).pc = "over"
        BY RefusedGood
      <3> QED
        BY <1>6, <3>1, <3>2 DEF Requested
    <2> QED
      BY <2>2, <2>3
  <1>10. CASE denied = 0 /\ GateAsks(d) /\ live = {}
    <2>1. req' = [req EXCEPT ![r] = asking]
      BY <1>3, <1>10
    <2>2. Good(asking)
      BY <1>1, <1>5 DEF Good, Staged, Audited, Punctual
    <2> QED
      BY <1>5, <1>6, <2>1, <2>2 DEF Requested
  <1> QED
    BY <1>7, <1>8, <1>9, <1>10

\* A call that has an answer, which is "on" only if the tenant manager has it on.
LEMMA AnswerGood ==
    ASSUME IInv, NEW r \in Requests, NEW pc \in {"fill", "reply"},
           NEW answer \in {"on", "off", "absent", "error"},
           req[r].pc \in {"fetch", "fill"},
           answer \in {"on", "off"} => req[r].tenant # NoTenant,
           pc = "fill" => answer \in {"on", "off"},
           answer = "on" => sinceOn[req[r].tenant] = 0,
           req' = [req EXCEPT ![r].pc = pc, ![r].fetched = answer]
    PROVE  Requested(r) /\ req'[r].pc = pc
  <1> DEFINE q == req[r]
             new == [q EXCEPT !.pc = pc, !.fetched = answer]
  <1>2. q \in Request /\ Staged(q) /\ Audited(q) /\ q.pc \in {"fetch", "fill"}
    BY DEF IInv, SdkTypeOK, Good
  <1>3. /\ new \in Request /\ new.pc = pc /\ new.fetched = answer /\ new.left = q.left
        /\ new.tenant = q.tenant /\ new.context = q.context /\ new.answer = q.answer
        /\ new.effect = q.effect /\ new.published = q.published /\ new.route = q.route
    <2> DEFINE q1 == [q EXCEPT !.pc = pc]
    <2>1. new = [q1 EXCEPT !.fetched = answer]
      OBVIOUS
    <2>2. /\ new.pc = pc /\ new.fetched = answer /\ new.left = q.left
          /\ new.tenant = q.tenant /\ new.context = q.context /\ new.answer = q.answer
          /\ new.effect = q.effect /\ new.published = q.published /\ new.route = q.route
      BY <1>2 DEF Request
    <2>3. q1 \in Request
      BY <1>2 DEF Request
    <2> HIDE DEF q1, new
    <2>4. new \in Request
      BY <2>1, <2>3 DEF Request
    <2> QED
      BY <2>2, <2>4
  <1>4. req' = [req EXCEPT ![r] = new] /\ req \in [Requests -> Request]
    BY DEF IInv, SdkTypeOK
  <1>5. /\ answer \in {"on", "off"} => q.tenant # NoTenant
        /\ answer = "on" => sinceOn[q.tenant] = 0
    OBVIOUS
  <1> HIDE DEF new, q
  <1>6. Staged(new) /\ Audited(new)
    BY <1>2, <1>3, <1>5 DEF Staged, Audited
  <1>7. Punctual(new)
    <2> SUFFICES ASSUME answer = "on"
                 PROVE  sinceOn[q.tenant] = 0 /\ sinceOn[q.tenant] + q.left <= FetchTimeout
      BY <1>3 DEF Punctual
    <2>1. q.left \in 0 .. FetchTimeout
      BY <1>2 DEF Request
    <2> QED
      BY <1>5, <2>1, SdkAssumption
  <1> QED
    BY <1>3, <1>4, <1>6, <1>7 DEF Requested, Good

\* The tenant manager answers or is on its way to Redis.
LEMMA ServeGood ==
    ASSUME IInv, NEW r \in Requests,
           ServeAbsent(r) \/ ServeError(r) \/ ServeRead(r) \/ ServeFill(r)
    PROVE  Requested(r) /\ req'[r].pc \in {"fill", "reply"}
  <1> DEFINE q == req[r]
             t == q.tenant
  <1>0. /\ q \in Request /\ Staged(q) /\ Punctual(q) /\ req \in [Requests -> Request]
    BY DEF IInv, SdkTypeOK, Good
  <1>1. CASE ServeAbsent(r)
    BY <1>1, AnswerGood DEF ServeAbsent, At
  <1>2. CASE ServeError(r)
    BY <1>2, AnswerGood DEF ServeError
  <1>3. CASE ServeRead(r)
    <2>0. q.pc = "fetch" /\ t \in Tenants
      BY <1>0, <1>3 DEF ServeRead, At, Request
    <2> HIDE DEF t
    <2>1. /\ q.pc = "fetch" /\ t \in Tenants /\ redis[t] \in {"none", "on", "off"}
          /\ flag[t] \/ redis[t] = "on" => sinceOn[t] = 0
      BY <2>0 DEF IInv, OnIsNow, SdkTypeOK
    <2> USE DEF t
    <2>2. t # NoTenant
      BY <2>1, SdkAssumption
    <2>3. CASE redis[t] = "none"
      <3>1. req' = [req EXCEPT ![r].pc = "fill", ![r].fetched = InTable(t)]
        BY <1>3, <2>3 DEF ServeRead
      <3>2. InTable(t) \in {"on", "off"} /\ (InTable(t) = "on" => sinceOn[t] = 0)
        BY <2>1 DEF InTable
      <3> QED
        BY <2>1, <2>2, <3>1, <3>2, AnswerGood
    <2>4. CASE redis[t] # "none"
      <3>1. req' = [req EXCEPT ![r].pc = "reply", ![r].fetched = redis[t]]
        BY <1>3, <2>4 DEF ServeRead
      <3> QED
        BY <2>1, <2>2, <2>4, <3>1, AnswerGood
    <2> QED
      BY <2>3, <2>4
  <1>4. CASE ServeFill(r)
    <2>1. /\ q.pc = "fill" /\ q.fetched \in {"on", "off"} /\ t # NoTenant
          /\ q.fetched = "on" => sinceOn[t] = 0
      BY <1>0, <1>4 DEF ServeFill, At, Staged, Punctual
    <2>2. req' = [req EXCEPT ![r] = [q EXCEPT !.pc = "reply"]]
      BY <1>4 DEF ServeFill
    <2>3. [q EXCEPT !.pc = "reply"] = [q EXCEPT !.pc = "reply", !.fetched = q.fetched]
      BY <1>0 DEF Request
    <2>4. req' = [req EXCEPT ![r].pc = "reply", ![r].fetched = q.fetched]
      BY <2>2, <2>3
    <2> QED
      BY <2>1, <2>4, AnswerGood
  <1> QED
    BY <1>1, <1>2, <1>3, <1>4

\* An answer opens the gate, and is cached, no later than its call may take.
LEMMA ReceiveGood ==
    ASSUME IInv, NEW r \in Requests, Receive(r)
    PROVE  /\ Requested(r)
           /\ req'[r].pc = "handler" =>
                 req'[r].tenant # NoTenant /\ sinceOn[req'[r].tenant] < Stale
  <1> DEFINE q == req[r]
  <1>1. /\ q \in Request /\ Good(q) /\ q.pc = "reply" /\ req \in [Requests -> Request]
        /\ req' = [req EXCEPT ![r] = Gated(q, q.fetched = "on")]
    BY DEF IInv, SdkTypeOK, Receive, At
  <1> HIDE DEF q
  <1>2. CASE q.fetched = "on"
    <2>1. req' = [req EXCEPT ![r] = Admitted(q)]
      BY <1>1, <1>2 DEF Gated
    <2> DEFINE new == Admitted(q)
    <2>2. /\ new \in Request /\ new.pc = "handler" /\ new.tenant = q.tenant
          /\ new.context = q.context /\ new.answer = q.answer
          /\ new.effect = q.effect /\ new.published = q.published /\ new.route = q.route
      BY <1>1, AdmittedType
    <2>3. q.tenant \in Tenants /\ q.tenant # NoTenant /\ q.left \in 0 .. FetchTimeout
      BY <1>1, <1>2 DEF Good, Staged, Request
    <2>4. sinceOn[q.tenant] < Stale
      <3>1. sinceOn[q.tenant] + q.left <= FetchTimeout /\ sinceOn[q.tenant] \in 0 .. Stale
        BY <1>1, <1>2, <2>3 DEF Good, Punctual, IInv, SdkTypeOK
      <3> QED
        BY <2>3, <3>1, SdkAssumption DEF Stale
    <2> HIDE DEF new
    <2>5. Good(new)
      BY <1>1, <2>2, <2>3 DEF Good, Staged, Audited, Punctual
    <2> QED
      BY <1>1, <2>1, <2>2, <2>3, <2>4, <2>5 DEF Requested, new
  <1>3. CASE q.fetched # "on"
    <2>1. req' = [req EXCEPT ![r] = Refused(403)]
      BY <1>1, <1>3 DEF Gated
    <2>2. Refused(403) \in Request /\ Good(Refused(403)) /\ Refused(403).pc = "over"
      BY RefusedGood
    <2> QED
      BY <1>1, <2>1, <2>2 DEF Requested
  <1> QED
    BY <1>2, <1>3

\* A call that is aborted refuses the request.
LEMMA FetchAbortGood ==
    ASSUME IInv, NEW r \in Requests, FetchAbort(r)
    PROVE  Requested(r) /\ req'[r].pc = "over"
  <1>1. Refused(403) \in Request /\ Good(Refused(403)) /\ Refused(403).pc = "over"
    BY RefusedGood
  <1> QED
    BY <1>1 DEF Requested, FetchAbort, IInv, SdkTypeOK

\* A request that leaves.
LEMMA LeaveGood ==
    ASSUME IInv, NEW r \in Requests, Leave(r)
    PROVE  Requested(r) /\ req'[r].pc = "idle"
  BY IdleType, IdleGood DEF Requested, Leave, IInv, SdkTypeOK

\* The handler's change, its value, its exception and its timeout.
LEMMA HandlerGood ==
    ASSUME IInv, NEW r \in Requests, Handle(r) \/ Return(r) \/ TimeOut(r) \/ \E status \in Thrown : Throw(r, status)
    PROVE  Requested(r) /\ req[r].pc = "handler"
  <1> DEFINE q == req[r]
             p == q.answer = 0 /\ Publishes(q.route)
  <1>1. /\ q \in Request /\ Good(q) /\ q.pc = "handler" /\ req \in [Requests -> Request]
        /\ q.answer \in {0, 408} /\ q.published = FALSE
    <2>1. q.pc = "handler"
      BY DEF Handle, Return, Throw, TimeOut, At
    <2>2. q \in Request /\ Good(q) /\ req \in [Requests -> Request]
      BY DEF IInv, SdkTypeOK
    <2> HIDE DEF q
    <2> QED
      BY <2>1, <2>2 DEF Good, Staged, Request
  <1>0. q \in Request
    BY <1>1
  <1>2. CASE Handle(r)
    <2> DEFINE new == [q EXCEPT !.effect = TRUE]
    <2>1. req' = [req EXCEPT ![r] = new]
      BY <1>1, <1>2 DEF Handle
    <2>0. /\ new.pc = "handler" /\ new.tenant = q.tenant
          /\ new.context = q.context /\ new.answer = q.answer
          /\ new.effect = TRUE /\ new.published = FALSE /\ new.route = q.route
      BY <1>1 DEF Request
    <2> HIDE DEF q
    <2>2. new \in Request
      <3> DEFINE b == TRUE
      <3>1. new = [q EXCEPT !.effect = b] /\ b \in BOOLEAN
        OBVIOUS
      <3> HIDE DEF b, new
      <3> QED
        BY <1>0, <3>1 DEF Request
    <2> HIDE DEF new
    <2>3. Good(new)
      BY <1>1, <2>0 DEF Good, Staged, Audited, Punctual
    <2> QED
      BY <1>1, <2>1, <2>2, <2>3 DEF Requested, q
  <1>3. CASE Return(r)
    <2> DEFINE a == IF q.answer = 0 THEN 200 ELSE q.answer
    <2>1. p \in BOOLEAN /\ (p <=> q.answer = 0 /\ Publishes(q.route)) /\ q.effect
      BY <1>3 DEF Return
    <2>2. req' = [req EXCEPT ![r] = [q EXCEPT !.pc = "over", !.tenant = NoTenant,
                                !.context = NoTenant, !.published = p, !.answer = a]]
      BY <1>3 DEF Return
    <2>3. a \in {200, 408} /\ (a = 200 <=> q.answer = 0)
      BY <1>1
    <2> HIDE DEF p, a
    <2> DEFINE new == [q EXCEPT !.pc = "over", !.tenant = NoTenant, !.context = NoTenant,
                                !.published = p, !.answer = a]
    <2>4. req' = [req EXCEPT ![r] = new]
      BY <2>2
    <2> HIDE DEF q
    <2>5. /\ new.pc = "over" /\ new.answer = a
          /\ new.effect = q.effect /\ new.published = p /\ new.route = q.route
      BY <1>1 DEF Request
    <2>7. new \in Request
      <3> DEFINE q1 == [q EXCEPT !.pc = "over"]
                 q2 == [q1 EXCEPT !.tenant = NoTenant]
                 q3 == [q2 EXCEPT !.context = NoTenant]
                 q4 == [q3 EXCEPT !.published = p]
      <3>1. new = [q4 EXCEPT !.answer = a]
        OBVIOUS
      <3>2. q1 \in Request
        BY <1>1 DEF Request
      <3> HIDE DEF q1
      <3>3. q2 \in Request
        BY <3>2 DEF Request
      <3> HIDE DEF q2
      <3>4. q3 \in Request
        BY <3>3 DEF Request
      <3> HIDE DEF q3
      <3>5. q4 \in Request
        BY <2>1, <3>4 DEF Request
      <3> HIDE DEF q4, new
      <3> QED
        BY <2>3, <3>1, <3>5 DEF Request
    <2> HIDE DEF new
    <2>6. Good(new)
      BY <2>1, <2>3, <2>5 DEF Good, Staged, Audited, Punctual
    <2> QED
      BY <1>1, <2>4, <2>6, <2>7 DEF Requested, q
  <1>4. ASSUME NEW status \in Thrown, Throw(r, status)
        PROVE  Requested(r)
    <2> DEFINE a == IF q.answer = 0 THEN status ELSE q.answer
    <2>1. req' = [req EXCEPT ![r] = [q EXCEPT !.pc = "over", !.tenant = NoTenant,
                                              !.context = NoTenant, !.answer = a]]
      BY <1>4 DEF Throw
    <2>2. a \in {401, 403, 500, 408}
      BY <1>1 DEF Thrown
    <2> HIDE DEF a
    <2> DEFINE new == [q EXCEPT !.pc = "over", !.tenant = NoTenant, !.context = NoTenant,
                                !.answer = a]
    <2>3. req' = [req EXCEPT ![r] = new]
      BY <2>1
    <2> HIDE DEF q
    <2>4. new.pc = "over" /\ new.answer = a /\ new.published = FALSE
      BY <1>1 DEF Request
    <2>6. new \in Request
      <3> DEFINE q1 == [q EXCEPT !.pc = "over"]
                 q2 == [q1 EXCEPT !.tenant = NoTenant]
                 q3 == [q2 EXCEPT !.context = NoTenant]
      <3>1. new = [q3 EXCEPT !.answer = a]
        OBVIOUS
      <3>2. q1 \in Request
        BY <1>1 DEF Request
      <3> HIDE DEF q1
      <3>3. q2 \in Request
        BY <3>2 DEF Request
      <3> HIDE DEF q2
      <3>4. q3 \in Request
        BY <3>3 DEF Request
      <3> HIDE DEF q3, new
      <3> QED
        BY <2>2, <3>1, <3>4 DEF Request
    <2> HIDE DEF new
    <2>5. Good(new)
      BY <2>2, <2>4 DEF Good, Staged, Audited, Punctual
    <2> QED
      BY <1>1, <2>3, <2>5, <2>6 DEF Requested, q
  <1>5. CASE TimeOut(r)
    <2> DEFINE new == [q EXCEPT !.answer = 408]
    <2>1. req' = [req EXCEPT ![r] = new]
      BY <1>1, <1>5 DEF TimeOut
    <2>2. /\ new \in Request /\ new.pc = "handler" /\ new.tenant = q.tenant
          /\ new.context = q.context /\ new.answer = 408
          /\ new.published = FALSE /\ new.route = q.route
      BY <1>1 DEF Request
    <2> HIDE DEF new, q
    <2>3. Good(new)
      BY <1>1, <2>2 DEF Good, Staged, Audited, Punctual
    <2> QED
      BY <1>1, <2>1, <2>2, <2>3 DEF Requested, q
  <1> QED
    BY <1>1, <1>2, <1>3, <1>4, <1>5

-----------------------------------------------------------------------------
(* The invariant.                                                          *)

\* The next state's requests, when one of them moves and nothing they are measured by does.
LEMMA RequestMoves ==
    ASSUME IInv, NEW r \in Requests, Requested(r), UNCHANGED <<options, sinceOn>>
    PROVE  req' \in [Requests -> Request] /\ \A o \in Requests : Good(req[o])'
  <1>1. PICK new \in Request : Good(new) /\ req' = [req EXCEPT ![r] = new]
    BY DEF Requested
  <1>2. req \in [Requests -> Request]
    BY DEF IInv, SdkTypeOK
  <1>3. \A o \in Requests : Good(req'[o])
    BY <1>1, <1>2 DEF IInv
  <1>4. \A o \in Requests : Good(req[o])'
    BY <1>3 DEF Good, Staged, Audited, Punctual, GateAsks, Publishes, Mounted
  <1> QED
    BY <1>1, <1>2, <1>4

\* The actions of requests that leave the cache alone.
LEMMA MovesInv ==
    ASSUME IInv, NEW r \in Requests, Requested(r), UNCHANGED <<options, cache, sinceOn>>,
           ManagerOK', OnIsNow'
    PROVE  IInv'
  <1>1. req' \in [Requests -> Request] /\ \A o \in Requests : Good(req[o])'
    BY RequestMoves
  <1>2. SdkTypeOK'
    BY <1>1 DEF IInv, SdkTypeOK, ManagerOK
  <1>3. CacheFresh'
    BY DEF IInv, CacheFresh
  <1> QED
    BY <1>1, <1>2, <1>3 DEF IInv

\* What the tenant manager does for others.
LEMMA OthersInv ==
    ASSUME IInv, UNCHANGED <<options, cache, req, sinceOn>>, ManagerOK', OnIsNow'
    PROVE  IInv'
  <1>1. SdkTypeOK' /\ CacheFresh'
    BY DEF IInv, SdkTypeOK, ManagerOK, CacheFresh
  <1>2. \A o \in Requests : Good(req[o])'
    BY DEF IInv, Good, Staged, Audited, Punctual, GateAsks, Publishes, Mounted
  <1> QED
    BY <1>1, <1>2 DEF IInv

\* What the tenant manager still puts into Redis for a request is what it has.
LEMMA BehindNow ==
    ASSUME IInv, NEW r \in Requests
    PROVE  /\ Behind(r) \subseteq Tenants \X {"on", "off"}
           /\ \A t \in Tenants : <<t, "on">> \in Behind(r) => sinceOn[t] = 0
  <1> DEFINE q == req[r]
  <1>1. q \in Request /\ Staged(q) /\ Punctual(q)
    BY DEF IInv, SdkTypeOK, Good
  <1>2. CASE q.pc = "fill"
    <2>1. q.tenant \in Tenants /\ q.fetched \in {"on", "off"}
      BY <1>1, <1>2 DEF Staged, Request
    <2>2. Behind(r) = {<<q.tenant, q.fetched>>}
      BY <1>2 DEF Behind, At
    <2> HIDE DEF q
    <2> QED
      BY <1>1, <1>2, <2>1, <2>2 DEF Punctual
  <1>3. CASE q.pc # "fill"
    BY <1>3 DEF Behind, At
  <1> QED
    BY <1>2, <1>3

\* Redis and the reads under way get nothing that the tenant manager did not have.
LEMMA ManagerMoves ==
    ASSUME IInv,
           \/ \E r \in Requests : ServeFill(r) \/ FetchAbort(r)
           \/ \E t \in Tenants :
                 DropKey(t) \/ OtherRead(t) \/ \E v \in {"on", "off"} : LateFill(t, v)
           \/ Restart
    PROVE  ManagerOK' /\ OnIsNow'
  <1>0. ManagerOK /\ OnIsNow
    BY DEF IInv, SdkTypeOK, ManagerOK
  <1>1. ASSUME NEW r \in Requests, ServeFill(r)
        PROVE  ManagerOK' /\ OnIsNow'
    <2> DEFINE q == req[r]
    <2>1. q \in Request /\ Staged(q) /\ Punctual(q) /\ q.pc = "fill"
      BY <1>1 DEF IInv, SdkTypeOK, Good, ServeFill, At
    <2>2. /\ q.tenant \in Tenants /\ q.fetched \in {"on", "off"}
          /\ q.fetched = "on" => sinceOn[q.tenant] = 0
      BY <2>1 DEF Staged, Punctual, Request
    <2>3. redis' = [redis EXCEPT ![q.tenant] = q.fetched] /\ UNCHANGED <<flag, late, sinceOn>>
      BY <1>1 DEF ServeFill
    <2> HIDE DEF q
    <2> QED
      BY <1>0, <2>2, <2>3 DEF ManagerOK, OnIsNow
  <1>2. ASSUME NEW r \in Requests, FetchAbort(r)
        PROVE  ManagerOK' /\ OnIsNow'
    <2>1. late' = late \cup Behind(r) /\ UNCHANGED <<flag, redis, sinceOn>>
      BY <1>2 DEF FetchAbort
    <2> QED
      BY <1>0, <2>1, BehindNow DEF ManagerOK, OnIsNow
  <1>3. ASSUME NEW t \in Tenants, DropKey(t)
        PROVE  ManagerOK' /\ OnIsNow'
    BY <1>0, <1>3 DEF DropKey, ManagerOK, OnIsNow
  <1>4. ASSUME NEW t \in Tenants, OtherRead(t)
        PROVE  ManagerOK' /\ OnIsNow'
    <2>1. InTable(t) \in {"on", "off"} /\ (InTable(t) = "on" => flag[t])
      BY DEF InTable
    <2> QED
      BY <1>0, <1>4, <2>1 DEF OtherRead, ManagerOK, OnIsNow
  <1>5. ASSUME NEW t \in Tenants, NEW v \in {"on", "off"}, LateFill(t, v)
        PROVE  ManagerOK' /\ OnIsNow'
    BY <1>0, <1>5 DEF LateFill, ManagerOK, OnIsNow
  <1>6. CASE Restart
    <2>1. /\ late' = late \cup UNION {Behind(r) : r \in Requests}
          /\ UNCHANGED <<flag, redis, sinceOn>>
      BY <1>6 DEF Restart
    <2>2. /\ UNION {Behind(r) : r \in Requests} \subseteq Tenants \X {"on", "off"}
          /\ \A t \in Tenants : <<t, "on">> \in UNION {Behind(r) : r \in Requests}
                                => sinceOn[t] = 0
      BY BehindNow
    <2> QED
      BY <1>0, <2>1, <2>2 DEF ManagerOK, OnIsNow
  <1> QED
    BY <1>1, <1>2, <1>3, <1>4, <1>5, <1>6

\* An answer that is cached was given no longer ago than its call may take.
LEMMA ReceiveInv ==
    ASSUME IInv, NEW r \in Requests, Receive(r)
    PROVE  IInv'
  <1> DEFINE q == req[r]
             v == q.fetched = "on"
  <1>0. /\ UNCHANGED <<options, flag, redis, late, sinceOn>>
        /\ cache' = IF q.fetched \in {"absent", "error"} THEN cache ELSE SetCacheEntry(q.tenant, v)
    BY DEF Receive, manager
  <1>1. req' \in [Requests -> Request] /\ \A o \in Requests : Good(req[o])'
    BY <1>0, ReceiveGood, RequestMoves
  <1>2. /\ q \in Request /\ Good(q) /\ q.pc = "reply" /\ SdkTypeOK
        /\ v \in BOOLEAN /\ (v => q.fetched = "on")
    BY DEF IInv, SdkTypeOK, Receive, At
  <1> HIDE DEF v, q
  <1>3. CASE q.fetched \in {"absent", "error"}
    <2>1. cache' = cache
      BY <1>0, <1>3
    <2>2. SdkTypeOK'
      BY <1>0, <1>1, <1>2, <2>1 DEF SdkTypeOK
    <2>3. OnIsNow' /\ CacheFresh'
      BY <1>0, <2>1 DEF IInv, OnIsNow, CacheFresh
    <2> QED
      BY <1>1, <2>2, <2>3 DEF IInv
  <1>4. CASE q.fetched \notin {"absent", "error"}
    <2>1. cache' = SetCacheEntry(q.tenant, v)
      BY <1>0, <1>4
    <2>2. q.tenant \in Tenants /\ q.left \in 0 .. FetchTimeout
      BY <1>2, <1>4 DEF Good, Staged, Request
    <2>3. /\ cache' \in Seq(Entry) /\ Len(cache') <= MaxSize
          /\ \A i, j \in DOMAIN cache' : cache'[i].key = cache'[j].key => i = j
          /\ \A i \in DOMAIN cache' :
                \/ cache'[i] = [key |-> q.tenant, value |-> v, left |-> Ttl]
                \/ \E j \in DOMAIN cache : cache'[i] = cache[j]
      BY <1>2, <2>1, <2>2, CacheSet
    <2>4. SdkTypeOK'
      BY <1>0, <1>1, <1>2, <2>3 DEF SdkTypeOK
    <2>5. v => sinceOn[q.tenant] + Ttl <= Stale
      <3>1. v => sinceOn[q.tenant] + q.left <= FetchTimeout
        BY <1>2 DEF Good, Punctual
      <3>2. sinceOn[q.tenant] \in 0 .. Stale
        BY <1>2, <2>2 DEF SdkTypeOK
      <3> QED
        BY <2>2, <3>1, <3>2, SdkAssumption DEF Stale
    <2>6. CacheFresh'
      <3> SUFFICES ASSUME NEW i \in DOMAIN cache', cache'[i].value, cache'[i].left > 0
                   PROVE  sinceOn[cache'[i].key] + cache'[i].left <= Stale
        BY <1>0 DEF CacheFresh, Stale
      <3>1. CASE cache'[i] = [key |-> q.tenant, value |-> v, left |-> Ttl]
        BY <2>5, <3>1
      <3>2. CASE \E j \in DOMAIN cache : cache'[i] = cache[j]
        BY <3>2 DEF IInv, CacheFresh
      <3> QED
        BY <2>3, <3>1, <3>2
    <2>7. OnIsNow'
      BY <1>0 DEF IInv, OnIsNow
    <2> QED
      BY <1>1, <2>4, <2>6, <2>7 DEF IInv
  <1> QED
    BY <1>3, <1>4

\* The tenant manager turns the feature on or off, and its time begins again.
LEMMA SetFlagInv ==
    ASSUME IInv, NEW t \in Tenants, SetFlag(t)
    PROVE  IInv'
  <1>1. flag' \in [Tenants -> BOOLEAN]
    BY DEF IInv, SdkTypeOK, SetFlag
  <1>2. /\ sinceOn' \in [Tenants -> 0 .. Stale]
        /\ \A u \in Tenants : sinceOn'[u] \in 0 .. Stale /\ sinceOn[u] \in 0 .. Stale
                              /\ sinceOn'[u] <= sinceOn[u]
        /\ sinceOn'[t] = 0 /\ \A u \in Tenants \ {t} : flag'[u] = flag[u] /\ sinceOn'[u] = sinceOn[u]
    BY SdkAssumption DEF IInv, SdkTypeOK, SetFlag, Stale
  <1>3. UNCHANGED <<options, redis, late, cache, req>> /\ Stale \in Nat
    BY SdkAssumption DEF SetFlag, Stale
  <1>4. SdkTypeOK'
    BY <1>1, <1>2, <1>3 DEF IInv, SdkTypeOK, Stale
  <1>5. OnIsNow'
    BY <1>2, <1>3 DEF IInv, OnIsNow
  <1>6. CacheFresh'
    <2> SUFFICES ASSUME NEW i \in DOMAIN cache, cache[i].value, cache[i].left > 0
                 PROVE  sinceOn'[cache[i].key] + cache[i].left <= Stale
      BY <1>3 DEF CacheFresh, Stale
    <2>1. cache[i].key \in Tenants /\ cache[i].left \in Nat
      BY CacheFunction, SdkAssumption DEF IInv, Entry
    <2>2. sinceOn[cache[i].key] + cache[i].left <= Stale
      BY DEF IInv, CacheFresh
    <2> QED
      BY <1>2, <1>3, <2>1, <2>2
  <1>7. \A o \in Requests : Good(req[o])'
    <2> SUFFICES ASSUME NEW o \in Requests PROVE Good(req[o])'
      OBVIOUS
    <2>1. req[o] \in Request /\ Good(req[o]) /\ UNCHANGED req[o]
      BY <1>3 DEF IInv, SdkTypeOK
    <2>2. Staged(req[o])' /\ Audited(req[o])'
      BY <1>3, <2>1 DEF Good, Staged, Audited, GateAsks, Publishes, Mounted
    <2>3. Punctual(req[o])'
      <3> SUFFICES ASSUME req[o].pc \in {"fill", "reply"}, req[o].fetched = "on"
                   PROVE  /\ req[o].pc = "reply" =>
                                sinceOn'[req[o].tenant] + req[o].left <= FetchTimeout
                          /\ req[o].pc = "fill" => sinceOn'[req[o].tenant] = 0
        BY <2>1 DEF Punctual
      <3>1. req[o].tenant \in Tenants /\ req[o].left \in 0 .. FetchTimeout
        BY <2>1 DEF Good, Staged, Request
      <3>2. /\ req[o].pc = "reply" => sinceOn[req[o].tenant] + req[o].left <= FetchTimeout
            /\ req[o].pc = "fill" => sinceOn[req[o].tenant] = 0
        BY <2>1 DEF Good, Punctual
      <3> QED
        BY <1>2, <1>3, <3>1, <3>2, SdkAssumption
    <2> QED
      BY <2>2, <2>3 DEF Good
  <1> QED
    BY <1>4, <1>5, <1>6, <1>7 DEF IInv

\* A tick takes from what entries and calls have left at least what it adds to the time.
LEMMA TickInv ==
    ASSUME IInv, Tick
    PROVE  IInv'
  <1>0. /\ UNCHANGED <<options, flag, redis, late>> /\ Stale \in Nat /\ FetchTimeout \in Nat /\ Ttl \in Nat
        /\ SdkTypeOK
    BY SdkAssumption DEF Tick, Stale, IInv, manager
  <1>1. /\ sinceOn' \in [Tenants -> 0 .. Stale]
        /\ \A u \in Tenants : /\ sinceOn'[u] \in 0 .. Stale /\ sinceOn[u] \in 0 .. Stale
                              /\ sinceOn'[u] <= sinceOn[u] + 1
                              /\ HasOn(u) => sinceOn'[u] = 0
    BY <1>0 DEF SdkTypeOK, Tick
  <1>2. /\ cache' \in Seq(Entry) /\ Len(cache') = Len(cache) /\ DOMAIN cache' = DOMAIN cache
        /\ \A i \in DOMAIN cache :
              /\ cache[i] \in Entry
              /\ cache'[i].key = cache[i].key /\ cache'[i].value = cache[i].value
              /\ cache'[i].left = Less(cache[i].left)
    <2>1. \A i \in DOMAIN cache : cache[i] \in Entry /\ cache[i].left \in 0 .. Ttl
      BY <1>0, CacheFunction DEF Entry
    <2>2. \A i \in DOMAIN cache : Less(cache[i].left) \in 0 .. Ttl
      BY <1>0, <2>1 DEF Less
    <2>3. \A i \in DOMAIN cache : [cache[i] EXCEPT !.left = Less(@)] \in Entry
      BY <2>1, <2>2 DEF Entry
    <2>4. cache' = [i \in DOMAIN cache |-> [cache[i] EXCEPT !.left = Less(@)]]
      BY DEF Tick
    <2>5. cache' \in [1 .. Len(cache) -> Entry]
      BY <1>0, <2>3, <2>4, CacheFunction
    <2>6. cache' \in Seq(Entry) /\ Len(cache') = Len(cache)
      BY <1>0, <2>5, CacheFunction
    <2> QED
      BY <2>1, <2>4, <2>6 DEF Entry
  <1>3. /\ req' \in [Requests -> Request]
        /\ \A o \in Requests :
              /\ req[o] \in Request /\ Good(req[o]) /\ req[o].left \in 0 .. FetchTimeout
              /\ req[o].pc = "reply" => req[o].left > 0
              /\ req'[o] = [req[o] EXCEPT !.left = Less(@)]
    <2>1. \A o \in Requests : req[o] \in Request /\ req[o].left \in 0 .. FetchTimeout
      BY <1>0 DEF SdkTypeOK, Request
    <2>2. \A o \in Requests : Less(req[o].left) \in 0 .. FetchTimeout
      BY <1>0, <2>1 DEF Less
    <2>3. \A o \in Requests : [req[o] EXCEPT !.left = Less(@)] \in Request
      <3> SUFFICES ASSUME NEW o \in Requests PROVE [req[o] EXCEPT !.left = Less(@)] \in Request
        OBVIOUS
      <3> DEFINE q == req[o]
                 n == Less(q.left)
      <3>1. q \in Request /\ n \in 0 .. FetchTimeout
        BY <2>1, <2>2
      <3> HIDE DEF q, n
      <3>2. [q EXCEPT !.left = n] \in Request
        BY <3>1 DEF Request
      <3> QED
        BY <3>2 DEF q, n
    <2> QED
      BY <2>1, <2>3 DEF IInv, Tick, Calling
  <1>4. SdkTypeOK'
    BY <1>0, <1>1, <1>2, <1>3 DEF SdkTypeOK, Stale
  <1>5. OnIsNow'
    BY <1>0, <1>1 DEF OnIsNow, HasOn
  <1>6. CacheFresh'
    <2> SUFFICES ASSUME NEW i \in DOMAIN cache, cache[i].value, Less(cache[i].left) > 0
                 PROVE  sinceOn'[cache[i].key] + Less(cache[i].left) <= Stale
      BY <1>2 DEF CacheFresh, Stale
    <2>1. cache[i].key \in Tenants /\ cache[i].left \in Nat /\ cache[i].left > 0
      BY <1>0, <1>2 DEF Entry, Less
    <2>2. sinceOn[cache[i].key] + cache[i].left <= Stale
      BY <2>1 DEF IInv, CacheFresh
    <2> QED
      BY <1>0, <1>1, <2>1, <2>2 DEF Less
  <1>7. \A o \in Requests : Good(req[o])'
    <2> SUFFICES ASSUME NEW o \in Requests PROVE Good(req[o])'
      OBVIOUS
    <2> DEFINE q == req[o]
               new == req'[o]
    <2>1. /\ q \in Request /\ Good(q) /\ q.left \in 0 .. FetchTimeout
          /\ q.pc = "reply" => q.left > 0
      BY <1>3
    <2>2. /\ new.pc = q.pc /\ new.tenant = q.tenant /\ new.context = q.context
          /\ new.route = q.route /\ new.fetched = q.fetched /\ new.answer = q.answer
          /\ new.effect = q.effect /\ new.published = q.published
          /\ new.left = Less(q.left)
      BY <1>3 DEF Request
    <2> HIDE DEF q, new
    <2>3. Staged(new) /\ Audited(new)
      BY <2>1, <2>2 DEF Good, Staged, Audited, GateAsks, Publishes, Mounted
    <2>4. Staged(req[o])' /\ Audited(req[o])'
      BY <1>0, <2>3 DEF Staged, Audited, GateAsks, Publishes, Mounted, new
    <2>5. Punctual(req[o])'
      <3>0. q.pc \in {"fill", "reply"} /\ q.fetched = "on" => q.tenant \in Tenants
        BY <2>1 DEF Good, Staged, Request
      <3>1. q.pc = "reply" /\ q.fetched = "on" => sinceOn'[q.tenant] + Less(q.left) <= FetchTimeout
        <4> SUFFICES ASSUME q.pc = "reply", q.fetched = "on"
                     PROVE  sinceOn'[q.tenant] + Less(q.left) <= FetchTimeout
          OBVIOUS
        <4>1. sinceOn[q.tenant] + q.left <= FetchTimeout
          BY <2>1 DEF Good, Punctual
        <4> QED
          BY <1>0, <1>1, <2>1, <3>0, <4>1 DEF Less
      <3>2. q.pc = "fill" /\ q.fetched = "on" => sinceOn'[q.tenant] = 0
        BY <1>1, <3>0 DEF HasOn, At, q
      <3> QED
        BY <2>2, <3>1, <3>2 DEF Punctual, new
    <2> QED
      BY <2>4, <2>5 DEF Good
  <1> QED
    BY <1>4, <1>5, <1>6, <1>7 DEF IInv

\* An empty cache and no requests.
LEMMA FreshProcess ==
    ASSUME cache = <<>>, req = [r \in Requests |-> Idle]
    PROVE  /\ cache \in Seq(Entry) /\ Len(cache) <= MaxSize /\ DOMAIN cache = {}
           /\ req \in [Requests -> Request] /\ \A r \in Requests : Good(req[r])
  BY IdleType, IdleGood, EmptySeq, SdkAssumption

\* The process starts.
LEMMA InitInv == Init => IInv
  <1> SUFFICES ASSUME Init PROVE IInv
    OBVIOUS
  <1>1. /\ cache \in Seq(Entry) /\ Len(cache) <= MaxSize /\ DOMAIN cache = {}
        /\ req \in [Requests -> Request] /\ \A r \in Requests : Good(req[r])
    BY FreshProcess DEF Init
  <1>2. SdkTypeOK
    BY <1>1, SdkAssumption DEF Init, SdkTypeOK, Stale
  <1>3. OnIsNow /\ CacheFresh
    BY <1>1 DEF Init, OnIsNow, CacheFresh
  <1> QED
    BY <1>1, <1>2, <1>3 DEF IInv

\* The process starts again.
LEMMA RestartInv ==
    ASSUME IInv, Restart
    PROVE  IInv'
  <1>1. /\ cache' \in Seq(Entry) /\ Len(cache') <= MaxSize /\ DOMAIN cache' = {}
        /\ req' \in [Requests -> Request] /\ UNCHANGED <<options, sinceOn>>
        /\ \A r \in Requests : req'[r] = Idle
    BY IdleType, EmptySeq, SdkAssumption DEF Restart
  <1>0. ManagerOK' /\ OnIsNow'
    BY ManagerMoves
  <1>2. SdkTypeOK'
    BY <1>0, <1>1 DEF IInv, SdkTypeOK, ManagerOK, Stale
  <1>3. OnIsNow' /\ CacheFresh'
    BY <1>0, <1>1 DEF CacheFresh
  <1>4. \A r \in Requests : Good(req[r])'
    BY <1>1, IdleType DEF Good, Staged, Audited, Punctual
  <1> QED
    BY <1>2, <1>3, <1>4 DEF IInv

\* Every step keeps the invariant.
LEMMA NextInv == IInv /\ [Next]_vars => IInv'
  <1> SUFFICES ASSUME IInv, [Next]_vars PROVE IInv'
    OBVIOUS
  <1>1. ASSUME NEW r \in Requests,
               \/ \E c \in Callers, d \in Routes : Arrive(r, c, d)
               \/ ServeAbsent(r) \/ ServeError(r) \/ ServeRead(r)
               \/ Handle(r) \/ Return(r) \/ TimeOut(r) \/ Leave(r)
               \/ \E status \in Thrown : Throw(r, status)
        PROVE  IInv'
    <2>1. Requested(r)
      BY <1>1, ArriveGood, ServeGood, HandlerGood, LeaveGood
    <2>2. UNCHANGED <<options, flag, redis, late, cache, sinceOn>>
      BY <1>1 DEF Arrive, ServeAbsent, ServeError, ServeRead, Handle, Return, Throw, TimeOut,
                  Leave, manager
    <2>3. ManagerOK' /\ OnIsNow'
      BY <2>2 DEF IInv, SdkTypeOK, ManagerOK, OnIsNow
    <2> QED
      BY <2>1, <2>2, <2>3, MovesInv
  <1>3. ASSUME NEW r \in Requests, ServeFill(r) \/ FetchAbort(r)
        PROVE  IInv'
    <2>1. Requested(r)
      BY <1>3, ServeGood, FetchAbortGood
    <2>2. UNCHANGED <<options, cache, sinceOn>>
      BY <1>3 DEF ServeFill, FetchAbort
    <2>3. ManagerOK' /\ OnIsNow'
      BY <1>3, ManagerMoves
    <2> QED
      BY <2>1, <2>2, <2>3, MovesInv
  <1>4. ASSUME NEW t \in Tenants,
               DropKey(t) \/ OtherRead(t) \/ \E v \in {"on", "off"} : LateFill(t, v)
        PROVE  IInv'
    <2>1. UNCHANGED <<options, cache, req, sinceOn>>
      BY <1>4 DEF DropKey, OtherRead, LateFill
    <2>2. ManagerOK' /\ OnIsNow'
      BY <1>4, ManagerMoves
    <2> QED
      BY <2>1, <2>2, OthersInv
  <1>2. CASE UNCHANGED vars
    <2>1. SdkTypeOK' /\ OnIsNow' /\ CacheFresh'
      BY <1>2 DEF IInv, vars, manager, SdkTypeOK, OnIsNow, CacheFresh
    <2>2. \A r \in Requests : Good(req[r])'
      BY <1>2 DEF IInv, vars, manager, Good, Staged, Audited, Punctual, GateAsks, Publishes, Mounted
    <2> QED
      BY <2>1, <2>2 DEF IInv
  <1> QED
    BY <1>1, <1>2, <1>3, <1>4, ReceiveInv, SetFlagInv, TickInv, RestartInv DEF Next

\* The inductive invariant.
LEMMA Invariance == Spec => []IInv
  <1> QED
    BY InitInv, NextInv, PTL DEF Spec

-----------------------------------------------------------------------------
(* The theorems.                                                           *)

\* The cache of any size keeps its bound and one entry for each key, and behind the feature
\* gate the handler works for the tenant that the gate asked about.
THEOREM CacheAndContext == Spec => []SdkInv
  <1>1. IInv => SdkInv
    BY DEF IInv, SdkInv, GateAndContextAgree, Good, Staged, At
  <1> QED
    BY <1>1, Invariance, PTL

\* Where AuditInterceptor is mounted, audit events are published for changes that are
\* answered with success and for all of them on audited routes, whatever times out or throws.
THEOREM AuditAgrees == Spec => []AuditFollowsAnswer
  <1>1. IInv => AuditFollowsAnswer
    BY DEF IInv, AuditFollowsAnswer, Good, Audited
  <1> QED
    BY <1>1, Invariance, PTL

\* Where FeatureGateGuard is mounted, nobody passes the gate on behalf of a tenant whose
\* feature the tenant manager has had off, in its table and in Redis, for the life of a cache
\* entry and the timeout of a call, whatever order answers arrive in.
THEOREM GateOpensRecently == Spec => OpenOnlyIfRecentlyOn
  <1> DEFINE Opens == \A r \in Requests :
          ~At(r, "handler") /\ At(r, "handler")' /\ GateAsks(req'[r].route)
             => /\ req'[r].tenant # NoTenant
                /\ sinceOn[req'[r].tenant] < Stale
  <1>1. IInv /\ [Next]_vars => [Opens]_vars
    <2> SUFFICES ASSUME IInv, Next PROVE Opens
      OBVIOUS
    <2> SUFFICES ASSUME NEW o \in Requests, req[o].pc # "handler", req'[o].pc = "handler",
                        GateAsks(req'[o].route)
                 PROVE  /\ req'[o].tenant # NoTenant
                        /\ sinceOn[req'[o].tenant] < Stale
      BY DEF At
    <2>0. req \in [Requests -> Request]
      BY DEF IInv, SdkTypeOK
    <2>1. ASSUME NEW r \in Requests, Requested(r)
          PROVE  r = o
      BY <2>0, <2>1 DEF Requested
    <2>2. ASSUME NEW r \in Requests, NEW c \in Callers, NEW d \in Routes, Arrive(r, c, d)
          PROVE  req'[o].tenant # NoTenant /\ sinceOn[req'[o].tenant] < Stale
      <3>1. r = o
        BY <2>1, <2>2, ArriveGood
      <3> QED
        BY <2>2, <3>1, ArriveGood
    <2>3. ASSUME NEW r \in Requests, Receive(r)
          PROVE  req'[o].tenant # NoTenant /\ sinceOn[req'[o].tenant] < Stale
      <3>1. r = o
        BY <2>1, <2>3, ReceiveGood
      <3> QED
        BY <2>3, <3>1, ReceiveGood
    <2>4. ASSUME NEW r \in Requests,
                 \/ ServeAbsent(r) \/ ServeError(r) \/ ServeRead(r) \/ ServeFill(r)
                 \/ FetchAbort(r) \/ Handle(r) \/ Return(r) \/ TimeOut(r) \/ Leave(r)
                 \/ \E status \in Thrown : Throw(r, status)
          PROVE  FALSE
      <3>1. Requested(r) /\ (req'[r].pc \in {"fill", "reply", "over", "idle"} \/ req[r].pc = "handler")
        BY <2>4, ServeGood, FetchAbortGood, HandlerGood, LeaveGood
      <3>2. r = o
        BY <2>1, <3>1
      <3> QED
        BY <3>1, <3>2
    <2>5. ASSUME NEW t \in Tenants,
                 \/ SetFlag(t) \/ DropKey(t) \/ OtherRead(t)
                 \/ \E v \in {"on", "off"} : LateFill(t, v)
          PROVE  FALSE
      BY <2>5 DEF SetFlag, DropKey, OtherRead, LateFill
    <2>6. CASE Tick
      BY <2>0, <2>6 DEF Tick, Request
    <2>7. CASE Restart
      BY <2>7, IdleType DEF Restart
    <2> QED
      BY <2>2, <2>3, <2>4, <2>5, <2>6, <2>7 DEF Next
  <1> QED
    BY <1>1, Invariance, PTL DEF Spec, OpenOnlyIfRecentlyOn

=============================================================================
