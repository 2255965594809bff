------------------------------- MODULE Ledger -------------------------------
(***************************************************************************)
(* The universal ledger of one tenant: journal entries, fiscal periods and *)
(* the handlers of services/universal-ledger that create, post and reverse *)
(* entries and close periods.                                              *)
(*                                                                         *)
(* Every HTTP request has a DbContext of its own.  A handler is split at   *)
(* its awaits: a load step reads the database and runs the domain checks   *)
(* on the loaded copy, a save step is the one transaction of SaveChanges,  *)
(* a publish step sends the event afterwards.  EF Core writes only the     *)
(* columns the handler changed and no row carries a concurrency token, so  *)
(* the save step does not look at what happened since the load step.       *)
(*                                                                         *)
(* An entry's or a period's id is its position in its table; 0 is null.    *)
(* The lines of an entry are kept as one debit and one credit per account  *)
(* (the sums over its lines), which is all the code ever computes with.    *)
(***************************************************************************)
EXTENDS Integers, Sequences, FiniteSets, Functions

CONSTANTS
    Requests,         \* the requests being served
    Accounts,         \* the tenant's chart of accounts
    AccountType,      \* the type of each account
    RetainedSurplus,  \* the account with code 3002
    LineSets,         \* the lines clients send when they create an entry
    PatchedAccounts,  \* the accounts clients activate and deactivate
    PeriodRanges,     \* the <<start, end>> dates clients create periods with
    MaxAmount,        \* the largest amount a decimal(18,4) column holds
    MaxDate,          \* bound: the last day of the clock
    MaxEntries,       \* bound: entries in the journal
    MaxPeriods        \* bound: fiscal periods

Amounts == 0 .. MaxAmount
Lines == [Accounts -> [debit : Amounts, credit : Amounts]]
AccountTypes == {"Asset", "Liability", "Equity", "Revenue", "Expense"}

ASSUME ChartAssumption ==
    /\ IsFiniteSet(Accounts)
    /\ AccountType \in [Accounts -> AccountTypes]
    /\ RetainedSurplus \in Accounts
    /\ AccountType[RetainedSurplus] = "Equity"

ASSUME BoundAssumption ==
    /\ MaxAmount \in Nat /\ MaxDate \in Nat \ {0}
    /\ MaxEntries \in Nat /\ MaxPeriods \in Nat

\* CreateJournalEntryValidator: at least one line, one-sided lines (whose sums
\* per account may be two-sided).
ASSUME LineAssumption ==
    /\ LineSets \subseteq Lines
    /\ \A l \in LineSets : \E a \in Accounts : l[a].debit + l[a].credit > 0
    /\ PatchedAccounts \subseteq Accounts
    /\ PeriodRanges \subseteq (1 .. MaxDate) \X (1 .. MaxDate)

VARIABLES
    entries,    \* table journal_entries with its journal_lines
    periods,    \* table fiscal_periods
    active,     \* column is_active of table accounts
    today,      \* the UTC date of the server clock
    published,  \* events sent to exchange chassis.ledger
    pc,         \* where each request is in its handler
    target,     \* id of the entry or period the request's handler loaded
    seen,       \* ids of the posted entries CloseFiscalPeriod read
    adds        \* entries added to the request's DbContext, not yet saved

db == <<entries, periods, active>>
request == <<pc, target, seen, adds>>
vars == <<db, today, published, request>>

Statuses == {"Draft", "Posted", "Reversed"}
Sources == {"none", "period_close", "period_open"}
Entry == [date : Nat, period : Nat, status : Statuses, lines : Lines,
          reversedBy : Nat, reversalOf : Nat, source : Sources]
Period == [start : Nat, end : Nat, status : {"Open", "Closed"}, opening : Nat]
Event == [name : {"journal_entry.posted", "fiscal_period.closed"}, id : Nat]
Steps == {"idle", "create", "post", "postPublish", "reverse",
          "closeEntries", "closeAccounts", "close", "closePublish"}

-----------------------------------------------------------------------------
(* The domain model: JournalEntry and the arithmetic of the handlers.      *)

TotalDebits(l) == SumFunction([a \in Accounts |-> l[a].debit])
TotalCredits(l) == SumFunction([a \in Accounts |-> l[a].credit])
IsBalanced(l) == TotalDebits(l) = TotalCredits(l) /\ TotalDebits(l) > 0

NewEntry(d, p, l, src) ==
    [date |-> d, period |-> p, status |-> "Draft", lines |-> l,
     reversedBy |-> 0, reversalOf |-> 0, source |-> src]

Swap(l) == [a \in Accounts |-> [debit |-> l[a].credit, credit |-> l[a].debit]]

\* Mutant: the reversal negates the amounts instead of swapping the sides.
ReversalNegated(i) ==
    [date |-> today, period |-> 0, status |-> "Posted",
     lines |-> [a \in Accounts |-> [debit |-> -entries[i].lines[a].debit,
                                    credit |-> -entries[i].lines[a].credit]],
     reversedBy |-> 0, reversalOf |-> i, source |-> "none"]
\* Mutant: the reversal copies the lines instead of swapping them.
ReversalUnswapped(i) ==
    [date |-> today, period |-> 0, status |-> "Posted", lines |-> entries[i].lines,
     reversedBy |-> 0, reversalOf |-> i, source |-> "none"]
Reversal(i) ==
    [date |-> today, period |-> 0, status |-> "Posted",
     lines |-> Swap(entries[i].lines),
     reversedBy |-> 0, reversalOf |-> i, source |-> "none"]

\* Mutant: Post without the balance check.
PostCheckUnbalanced(e) == IF e.status # "Draft" THEN "VALIDATION_ERROR" ELSE "OK"

\* JournalEntry.Post on a loaded entry: the exception it throws, as a code.
PostCheck(e) ==
    CASE e.status # "Draft" -> "VALIDATION_ERROR"
      [] ~IsBalanced(e.lines) -> "UNBALANCED_ENTRY"
      [] OTHER -> "OK"

\* Mutant: CreateReversal does not ask whether the entry is posted.
ReversalCheckAnyStatus(e) == IF e.reversedBy # 0 THEN "DUPLICATE_REVERSAL" ELSE "OK"

\* JournalEntry.CreateReversal on a loaded entry: its two checks, in order.
ReversalCheck(e) ==
    CASE e.status # "Posted" -> "VALIDATION_ERROR"
      [] e.reversedBy # 0 -> "DUPLICATE_REVERSAL"
      [] OTHER -> "OK"

\* GetByTenantAsync(fromDate, toDate): entries dated from start to end.
InRange(start, end) ==
    {i \in DOMAIN entries : start <= entries[i].date /\ entries[i].date <= end}
WithStatus(ids, s) == {i \in ids : entries[i].status = s}

\* Debits and credits of account a over the entries in ids.
Debits(a, ids) ==
    SumFunctionOnSet([i \in DOMAIN entries |-> entries[i].lines[a].debit], ids)
Credits(a, ids) ==
    SumFunctionOnSet([i \in DOMAIN entries |-> entries[i].lines[a].credit], ids)
Net(a, ids) == Credits(a, ids) - Debits(a, ids)

\* The one-sided line that debits n, or credits -n.
Debit(n) ==
    [debit |-> IF n > 0 THEN n ELSE 0, credit |-> IF n < 0 THEN -n ELSE 0]
NoLines == [a \in Accounts |-> Debit(0)]

\* Mutant: the close forgets the expense accounts.
RevenueAccounts == {a \in Accounts : active[a] /\ AccountType[a] = "Revenue"}
IncomeAccounts ==
    {a \in Accounts : active[a] /\ AccountType[a] \in {"Revenue", "Expense"}}
BalanceSheetAccounts ==
    {a \in Accounts : active[a] /\ AccountType[a] \in {"Asset", "Liability", "Equity"}}
NetIncome(ids) ==
    SumFunctionOnSet([a \in Accounts |-> Net(a, ids)], IncomeAccounts)

\* The closing entry zeroes the income accounts into Retained Surplus.
ClosingLines(ids) ==
    [a \in Accounts |->
        IF a \in IncomeAccounts THEN Debit(Net(a, ids))
        ELSE IF a = RetainedSurplus THEN Debit(-NetIncome(ids))
        ELSE Debit(0)]

\* The opening entry carries the balance-sheet accounts forward.
OpeningLines(ids) ==
    [a \in Accounts |->
        IF a \in BalanceSheetAccounts THEN Debit(-Net(a, ids)) ELSE Debit(0)]

Posted(e) == [e EXCEPT !.status = "Posted"]

\* What CloseFiscalPeriod adds to its DbContext for period p after reading ids.
ClosingEntries(p, ids) ==
    IF ClosingLines(ids) = NoLines THEN << >>
    ELSE << Posted(NewEntry(periods[p].end, p, ClosingLines(ids), "period_close")) >>
\* Mutant: the opening entry is not checked for balance.
OpeningEntriesUnbalanced(p, ids) ==
    IF OpeningLines(ids) = NoLines THEN << >>
    ELSE << Posted(NewEntry(periods[p].end + 1, 0, OpeningLines(ids), "period_open")) >>
OpeningEntries(p, ids) ==
    IF IsBalanced(OpeningLines(ids))
    THEN << Posted(NewEntry(periods[p].end + 1, 0, OpeningLines(ids), "period_open")) >>
    ELSE << >>

\* A total beyond the amount column, in an entry the close is going to save.
Overflows(ids) ==
    \/ ClosingLines(ids) \notin Lines
    \/ IsBalanced(OpeningLines(ids)) /\ OpeningLines(ids) \notin Lines

\* The exception of CloseFiscalPeriod after reading the accounts: no active
\* account 3002; JournalEntry.Post of an unbalanced closing entry; the save of a
\* total beyond the amount column.
CloseCheck(ids) ==
    CASE ~active[RetainedSurplus] -> "VALIDATION_ERROR"
      [] active[RetainedSurplus] /\ ClosingLines(ids) # NoLines
            /\ ~IsBalanced(ClosingLines(ids)) -> "UNBALANCED_ENTRY"
      [] OTHER -> IF Overflows(ids) THEN "INTERNAL_ERROR" ELSE "OK"

-----------------------------------------------------------------------------
(* How a handler goes on and ends.                                         *)

Proceed(r, step, id, ids, new) ==
    /\ pc' = [pc EXCEPT ![r] = step]
    /\ target' = [target EXCEPT ![r] = id]
    /\ seen' = [seen EXCEPT ![r] = ids]
    /\ adds' = [adds EXCEPT ![r] = new]

\* The response is sent, by the endpoint or by ExceptionHandlingMiddleware, and
\* the DbContext is disposed of.
Respond(r) ==
    /\ pc' = [pc EXCEPT ![r] = "idle"]
    /\ target' = [target EXCEPT ![r] = 0]
    /\ seen' = [seen EXCEPT ![r] = {}]
    /\ adds' = [adds EXCEPT ![r] = << >>]

Init ==
    /\ entries = << >> /\ periods = << >>
    /\ active = [a \in Accounts |-> TRUE]
    /\ today = 1
    /\ published = {}
    /\ pc = [r \in Requests |-> "idle"]
    /\ target = [r \in Requests |-> 0]
    /\ seen = [r \in Requests |-> {}]
    /\ adds = [r \in Requests |-> << >>]

\* Mutant: a closed period is as good as an open one.
PeriodExists(p) == IF p \in {0} \cup DOMAIN periods THEN "OK" ELSE "VALIDATION_ERROR"

(* POST /entries *)
PeriodCheck(p) ==
    CASE p = 0 -> "OK"
      [] p # 0 /\ p \notin DOMAIN periods -> "VALIDATION_ERROR"
      [] p # 0 /\ p \in DOMAIN periods ->
            IF periods[p].status = "Open" THEN "OK" ELSE "CLOSED_PERIOD"

CreateEntry(r, d, p, l) ==
    /\ pc[r] = "idle"
    /\ LET code == PeriodCheck(p)
       IN \/ code = "OK" /\ Proceed(r, "create", p, {}, <<NewEntry(d, p, l, "none")>>)
          \/ code # "OK" /\ Respond(r)
    /\ UNCHANGED <<db, today, published>>

CreateEntrySave(r) ==
    /\ pc[r] = "create"
    /\ Len(entries) < MaxEntries
    /\ entries' = entries \o adds[r]
    /\ Respond(r)
    /\ UNCHANGED <<periods, active, today, published>>

\* Mutant: the event goes out before SaveChanges.
PostEntryPublishFirst(r, i) ==
    /\ pc[r] = "idle"
    /\ i \in DOMAIN entries /\ PostCheck(entries[i]) = "OK"
    /\ Proceed(r, "postPublish", i, {}, << >>)
    /\ UNCHANGED <<db, today, published>>

(* POST /entries/:id/post *)
PostEntry(r, i) ==
    /\ pc[r] = "idle"
    /\ LET code == IF i \in DOMAIN entries THEN PostCheck(entries[i]) ELSE "VALIDATION_ERROR"
       IN \/ code = "OK" /\ Proceed(r, "post", i, {}, << >>)
          \/ code # "OK" /\ Respond(r)
    /\ UNCHANGED <<db, today, published>>

PostEntrySave(r) ==
    /\ pc[r] = "post"
    /\ entries' = [entries EXCEPT ![target[r]].status = "Posted"]
    /\ Proceed(r, "postPublish", target[r], {}, << >>)
    /\ UNCHANGED <<periods, active, today, published>>

PostEntryPublish(r) ==
    /\ pc[r] = "postPublish"
    /\ published' = published \cup {[name |-> "journal_entry.posted", id |-> target[r]]}
    /\ Respond(r)
    /\ UNCHANGED <<db, today>>

(* POST /entries/:id/reverse *)
ReverseEntry(r, i) ==
    /\ pc[r] = "idle"
    /\ LET code == IF i \in DOMAIN entries THEN ReversalCheck(entries[i]) ELSE "VALIDATION_ERROR"
       IN \/ code = "OK" /\ Proceed(r, "reverse", i, {}, <<Reversal(i)>>)
          \/ code # "OK" /\ Respond(r)
    /\ UNCHANGED <<db, today, published>>

\* Mutant: the original is not marked as reversed.
ReverseEntrySaveUnmarked(r) ==
    /\ pc[r] = "reverse"
    /\ Len(entries) < MaxEntries
    /\ entries' = entries \o adds[r]
    /\ Respond(r)
    /\ UNCHANGED <<periods, active, today, published>>

ReverseEntrySave(r) ==
    /\ pc[r] = "reverse"
    /\ Len(entries) < MaxEntries
    /\ entries' = [entries EXCEPT ![target[r]].status = "Reversed",
                                  ![target[r]].reversedBy = Len(entries) + 1] \o adds[r]
    /\ Respond(r)
    /\ UNCHANGED <<periods, active, today, published>>

(* POST /periods: the unique key (tenant, start, end) is all that is checked. *)
CreatePeriod(r, range) ==
    /\ pc[r] = "idle"
    /\ Len(periods) < MaxPeriods
    /\ LET new == [start |-> range[1], end |-> range[2], status |-> "Open", opening |-> 0]
           taken == \E p \in DOMAIN periods :
                        periods[p].start = new.start /\ periods[p].end = new.end
       IN \/ /\ ~taken
             /\ periods' = Append(periods, new)
             /\ Respond(r)
          \/ /\ taken
             /\ UNCHANGED periods
             /\ Respond(r)
    /\ UNCHANGED <<entries, active, today, published>>

(* POST /periods/:id/close *)
ClosePeriod(r, p) ==
    /\ pc[r] = "idle"
    /\ LET code == IF p = 0 THEN "VALIDATION_ERROR" ELSE PeriodCheck(p)
       IN \/ code = "OK" /\ Proceed(r, "closeEntries", p, {}, << >>)
          \/ code # "OK" /\ Respond(r)
    /\ UNCHANGED <<db, today, published>>

ClosePeriodReadEntries(r) ==
    /\ pc[r] = "closeEntries"
    /\ LET p == target[r]
           ids == InRange(periods[p].start, periods[p].end)
       IN \/ /\ WithStatus(ids, "Draft") = {}
             /\ Proceed(r, "closeAccounts", p, WithStatus(ids, "Posted"), << >>)
          \/ /\ WithStatus(ids, "Draft") # {}
             /\ Respond(r)
    /\ UNCHANGED <<db, today, published>>

ClosePeriodReadAccounts(r) ==
    /\ pc[r] = "closeAccounts"
    /\ LET p == target[r]
           code == CloseCheck(seen[r])
       IN \/ /\ code = "OK"
             /\ Proceed(r, "close", p, {},
                        ClosingEntries(p, seen[r]) \o OpeningEntries(p, seen[r]))
          \/ code # "OK" /\ Respond(r)
    /\ UNCHANGED <<db, today, published>>

\* Mutant: off by one.
OpeningIdBefore(r) ==
    IF \E k \in DOMAIN adds[r] : adds[r][k].source = "period_open"
    THEN Len(entries) + Len(adds[r]) - 1
    ELSE periods[target[r]].opening

\* The id the opening entry among the adds gets when the adds are saved.
OpeningId(r) ==
    IF \E k \in DOMAIN adds[r] : adds[r][k].source = "period_open"
    THEN Len(entries) + Len(adds[r])
    ELSE periods[target[r]].opening

ClosePeriodSave(r) ==
    /\ pc[r] = "close"
    /\ Len(entries) + Len(adds[r]) <= MaxEntries
    /\ entries' = entries \o adds[r]
    /\ periods' = [periods EXCEPT ![target[r]].status = "Closed",
                                  ![target[r]].opening = OpeningId(r)]
    /\ Proceed(r, "closePublish", target[r], {}, << >>)
    /\ UNCHANGED <<active, today, published>>

ClosePeriodPublish(r) ==
    /\ pc[r] = "closePublish"
    /\ published' = published \cup {[name |-> "fiscal_period.closed", id |-> target[r]]}
    /\ Respond(r)
    /\ UNCHANGED <<db, today>>

\* The database or the broker fails, or the service dies, before the next await
\* completes: nothing is written and the client sees an error.
Abort(r) ==
    /\ pc[r] # "idle"
    /\ Respond(r)
    /\ UNCHANGED <<db, today, published>>

\* PATCH /accounts/:id.  Writing is_active takes effect at the save, and an
\* unchanged value is not written, so the whole handler is one step.
UpdateAccount(r, a, isActive) ==
    /\ pc[r] = "idle"
    /\ active' = [active EXCEPT ![a] = isActive]
    /\ Respond(r)
    /\ UNCHANGED <<entries, periods, today, published>>

Tick ==
    /\ today < MaxDate
    /\ today' = today + 1
    /\ UNCHANGED <<db, published, request>>

RequestStep(r) ==
    \/ \E d \in 1 .. MaxDate, p \in 0 .. Len(periods) + 1, l \in LineSets :
            CreateEntry(r, d, p, l)
    \/ CreateEntrySave(r)
    \/ \E i \in 1 .. Len(entries) + 1 : PostEntry(r, i) \/ ReverseEntry(r, i)
    \/ PostEntrySave(r) \/ PostEntryPublish(r)
    \/ ReverseEntrySave(r)
    \/ \E range \in PeriodRanges : CreatePeriod(r, range)
    \/ \E p \in 1 .. Len(periods) + 1 : ClosePeriod(r, p)
    \/ ClosePeriodReadEntries(r) \/ ClosePeriodReadAccounts(r)
    \/ ClosePeriodSave(r) \/ ClosePeriodPublish(r)
    \/ Abort(r)
    \/ \E a \in PatchedAccounts, isActive \in BOOLEAN : UpdateAccount(r, a, isActive)

Next == Tick \/ \E r \in Requests : RequestStep(r)

Spec == Init /\ [][Next]_vars

-----------------------------------------------------------------------------
(* The reports: GetTrialBalance and GetProfitAndLoss count posted entries. *)

PostedUpTo(date) == WithStatus(InRange(0, date), "Posted")
TrialBalanceDebits(date) ==
    SumFunction([a \in Accounts |-> Debits(a, PostedUpTo(date))])
TrialBalanceCredits(date) ==
    SumFunction([a \in Accounts |-> Credits(a, PostedUpTo(date))])

ProfitAndLoss(start, end) ==
    SumFunctionOnSet([a \in Accounts |-> Net(a, WithStatus(InRange(start, end), "Posted"))],
                     {a \in Accounts : AccountType[a] \in {"Revenue", "Expense"}})

-----------------------------------------------------------------------------
(* Properties of every interleaving of requests.                           *)

\* The tables and the in-flight requests have the shape the code gives them.
TypeOK ==
    /\ entries \in Seq(Entry)
    /\ periods \in Seq(Period)
    /\ active \in [Accounts -> BOOLEAN]
    /\ today \in 1 .. MaxDate
    /\ published \subseteq Event
    /\ pc \in [Requests -> Steps]
    /\ target \in [Requests -> Nat]
    /\ seen \in [Requests -> SUBSET Nat]
    /\ adds \in [Requests -> Seq(Entry)]

\* Double entry: whatever requests race, every entry in the journal that is
\* posted, or was before it was reversed, has equal and positive debits and
\* credits (JournalEntry.Post checks it on a loaded copy; CreateReversal and
\* CloseFiscalPeriod build posted entries without going through that request).
PostedBalanced ==
    \A i \in DOMAIN entries : entries[i].status # "Draft" => IsBalanced(entries[i].lines)

\* CreateReversal: a reversal mirrors the lines of an earlier entry, which knows
\* that it has been reversed; and the reversal an entry points to is one of it,
\* also when two requests reverse the same entry at the same time.
ReversalMirrors ==
    \A i \in DOMAIN entries :
        /\ LET o == entries[i].reversalOf
           IN o # 0 => /\ o \in 1 .. i - 1
                       /\ entries[i].lines = Swap(entries[o].lines)
                       /\ entries[o].reversedBy # 0
        /\ LET k == entries[i].reversedBy
           IN k # 0 => /\ k \in DOMAIN entries
                       /\ entries[k].reversalOf = i

\* GetTrialBalance: total debits equal total credits as of every date, closing
\* and opening entries included.
TrialBalanceBalances ==
    \A date \in 0 .. MaxDate + 1 : TrialBalanceDebits(date) = TrialBalanceCredits(date)

\* An event on chassis.ledger is about something that is in the database: the
\* entry is no longer a draft, the period is closed (the handlers publish only
\* after SaveChanges).
PublishedCommitted ==
    \A e \in published :
        IF e.name = "journal_entry.posted"
        THEN e.id \in DOMAIN entries /\ entries[e.id].status # "Draft"
        ELSE e.id \in DOMAIN periods /\ periods[e.id].status = "Closed"

\* SetOpeningBalanceEntry: the opening entry a period refers to is a posted
\* period_open entry of the day after the period, also when two requests close
\* the period at the same time.
OpeningEntryLinked ==
    \A p \in DOMAIN periods : periods[p].opening # 0 =>
        /\ periods[p].opening \in DOMAIN entries
        /\ LET e == entries[periods[p].opening]
           IN /\ e.source = "period_open"
              /\ e.date = periods[p].end + 1
              /\ e.status # "Draft"

\* What the handlers rely on between their awaits: what a request loaded and
\* checked still holds of the database where the rest of its handler needs it,
\* whatever other requests saved in the meantime.  (Not in it, because it may no
\* longer hold: that the entry is still a draft, or the period still open.)
InFlightOf(r) ==
    LET id == target[r]
        new == adds[r]
    IN /\ pc[r] = "create" =>
              Len(new) = 1 /\ new[1].status = "Draft"
              /\ new[1].reversedBy = 0 /\ new[1].reversalOf = 0
       /\ pc[r] \in {"post", "reverse"} =>
              id \in DOMAIN entries /\ IsBalanced(entries[id].lines)
       /\ pc[r] = "postPublish" =>
              id \in DOMAIN entries /\ entries[id].status # "Draft"
       /\ pc[r] = "reverse" =>
              Len(new) = 1 /\ new[1].status = "Posted"
              /\ new[1].reversedBy = 0 /\ new[1].reversalOf = id
              /\ new[1].lines = Swap(entries[id].lines)
       /\ pc[r] \in {"closeEntries", "closeAccounts", "close", "closePublish"} =>
              id \in DOMAIN periods
       /\ pc[r] = "close" =>
              \A k \in DOMAIN new :
                  /\ new[k].status = "Posted" /\ IsBalanced(new[k].lines)
                  /\ new[k].reversedBy = 0 /\ new[k].reversalOf = 0
                  /\ new[k].source = "period_open" =>
                        k = Len(new) /\ new[k].date = periods[id].end + 1
       /\ pc[r] = "closePublish" => periods[id].status = "Closed"

InFlight == \A r \in Requests : InFlightOf(r)

-----------------------------------------------------------------------------
(* Properties the code has only while requests are served one at a time.   *)

\* CreateReversal refuses an entry that has been reversed: no entry has two
\* reversals.
AtMostOneReversal ==
    \A i, j \in DOMAIN entries :
        entries[i].reversalOf # 0 /\ entries[i].reversalOf = entries[j].reversalOf => i = j

\* "Only draft entries can be posted." (JournalEntry.Post): no step makes a
\* reversed entry count as posted again.
OnlyDraftPosted ==
    [][\A i \in DOMAIN entries :
          entries[i].status # "Posted" /\ entries'[i].status = "Posted"
              => entries[i].status = "Draft"]_vars

\* "Fiscal period is closed and cannot accept new entries." (ClosedPeriodException):
\* an entry is only ever added to a period that is open at that moment.
ClosedPeriodRejects ==
    [][\A i \in DOMAIN entries' \ DOMAIN entries :
          entries'[i].period # 0 => periods[entries'[i].period].status = "Open"]_vars

\* What ClosedPeriodException and Post state of the journal, through any sequence of
\* creations, postings, reversals and closes.
JournalRules == OnlyDraftPosted /\ ClosedPeriodRejects

Closes(p) == periods[p].status = "Open" /\ periods'[p].status = "Closed"
PostedIn(p) == WithStatus(InRange(periods[p].start, periods[p].end), "Posted")
Profit(p) == ProfitAndLoss(periods[p].start, periods[p].end)
Balance(p, a) == Net(a, PostedIn(p))
Income == {a \in Accounts : AccountType[a] \in {"Revenue", "Expense"}}
ActiveProfit(p) ==
    SumFunctionOnSet([a \in Accounts |-> Balance(p, a)], {a \in Income : active[a]})

\* CloseFiscalPeriod, whatever accounts were deactivated before: the closing entry
\* takes every active income account of the period to zero and moves exactly what
\* they held into Retained Surplus; a deactivated one keeps its balance, so the
\* profit and loss of a closed period is zero only if all of them are active.
CloseMovesProfit ==
    [][\A p \in DOMAIN periods : Closes(p) =>
          /\ \A a \in Income : Balance(p, a)' = IF active[a] THEN 0 ELSE Balance(p, a)
          /\ Balance(p, RetainedSurplus)' - Balance(p, RetainedSurplus) = ActiveProfit(p)
          /\ (\A a \in Income : active[a]) => Profit(p)' = 0]_vars

=============================================================================
