----------------------------- MODULE UsageQuota -----------------------------
(***************************************************************************)
(* The usage log and the quota read from it (src/eoir_api/usage.py,        *)
(* sql/usage.sql), driven the way CaseService.get_case drives them: the    *)
(* quota is read before a lookup and the lookup is recorded after it, each *)
(* in a database call that other requests run beside.                      *)
(*                                                                         *)
(* A request is "idle"; "asked" once its SELECT has run, until its task    *)
(* resumes with what it saw; "looking" from there until its INSERT.        *)
(* Timestamps are kept as ages in ticks.  ISO texts in UTC are taken to    *)
(* order as the times they stand for.                                      *)
(***************************************************************************)
EXTENDS Integers, FiniteSets

CONSTANTS
    Requests,   \* concurrent callers, each calling again and again
    Tenants,
    TenantOf,   \* TenantOf[r]: the tenant whose key request r carries
    LimitOf,    \* LimitOf[t]: Tenant.quota_per_day, or NoLimit when unset
    NoLimit,
    Rows,       \* BOUND: the places of the lookups table
    NoRow,
    NoPromise,  \* promise[t] of a tenant that was told nothing
    Window,     \* QUOTA_WINDOW, in ticks
    Retention,  \* retention_days, in ticks
    Oldest      \* BOUND: ages stop counting here

ASSUME RequestsAssumption == IsFiniteSet(Requests) /\ TenantOf \in [Requests -> Tenants]
ASSUME LimitAssumption == LimitOf \in [Tenants -> (Nat \ {0}) \cup {NoLimit}]
ASSUME SentinelAssumption == NoLimit \notin Nat /\ NoPromise \notin Nat
ASSUME RowsAssumption == IsFiniteSet(Rows)
\* retention_days is at least 1 and the window is 24 hours
ASSUME WindowAssumption ==
    /\ Window \in Nat \ {0}
    /\ Retention \in Nat /\ Retention >= Window
    /\ Oldest \in Nat /\ Oldest > Retention

\* "ok" stands for every outcome that counts, "captcha" is the one in UNCOUNTED.
Outcomes == {"ok", "captcha"}
Uncounted == {"captcha"}

Row == [tenant : Tenants, age : 0..Oldest, outcome : Outcomes, cached : BOOLEAN]
ASSUME NoRowAssumption == NoRow \notin Row

VARIABLES
    table,    \* the lookups table
    phase,    \* where each request is
    seen,     \* the Quota an "asked" request has read
    promise   \* per tenant: what is left of the Retry-After it was last sent, until
              \* one more of its lookups is counted

vars == <<table, phase, seen, promise>>

Limited(t) == LimitOf[t] # NoLimit

\* TenantUsage.summary over the rows outcomes_since selects: ts > now - Window
\* Mutant: ts >= now - Window.
CountedRowsInclusive(t) ==
    {i \in Rows : /\ table[i] # NoRow
                  /\ table[i].tenant = t
                  /\ table[i].age <= Window
                  /\ ~table[i].cached
                  /\ table[i].outcome \notin Uncounted}
CountedRows(t) ==
    {i \in Rows : /\ table[i] # NoRow
                  /\ table[i].tenant = t
                  /\ table[i].age < Window
                  /\ ~table[i].cached
                  /\ table[i].outcome \notin Uncounted}
Used(t) == Cardinality(CountedRows(t))
\* Mutant: max(0, ...) left out.
RemainingUnclamped(t) == LimitOf[t] - Used(t)
Remaining(t) == IF Used(t) < LimitOf[t] THEN LimitOf[t] - Used(t) ELSE 0

\* reset_at, as the time left until then: the oldest counted row leaves the window
ResetIn(t) ==
    IF CountedRows(t) = {} THEN 0
    ELSE LET oldest == CHOOSE i \in CountedRows(t) :
                         \A j \in CountedRows(t) : table[j].age <= table[i].age
         IN Window - table[oldest].age

NothingSeen == [remaining |-> 0, resetIn |-> 0]

Init ==
    /\ table = [i \in Rows |-> NoRow]
    /\ phase = [r \in Requests |-> "idle"]
    /\ seen = [r \in Requests |-> NothingSeen]
    /\ promise = [t \in Tenants |-> NoPromise]

Insert(t, outcome, cached) ==
    \E i \in Rows :
        /\ table[i] = NoRow
        /\ table' = [table EXCEPT ![i] = [tenant |-> t, age |-> 0,
                                          outcome |-> outcome, cached |-> cached]]

\* A cache hit is recorded without a look at the quota.
RecordHit(r) ==
    /\ phase[r] = "idle"
    /\ Insert(TenantOf[r], "ok", TRUE)
    /\ UNCHANGED <<phase, seen, promise>>

\* quota() of a tenant without one asks nothing of the database.
BeginUnlimited(r) ==
    /\ phase[r] = "idle"
    /\ ~Limited(TenantOf[r])
    /\ phase' = [phase EXCEPT ![r] = "looking"]
    /\ UNCHANGED <<table, seen, promise>>

Ask(r) ==
    LET t == TenantOf[r] IN
    /\ phase[r] = "idle"
    /\ Limited(t)
    /\ phase' = [phase EXCEPT ![r] = "asked"]
    /\ seen' = [seen EXCEPT ![r] = [remaining |-> Remaining(t), resetIn |-> ResetIn(t)]]
    /\ UNCHANGED <<table, promise>>

Forget(r) == seen' = [seen EXCEPT ![r] = NothingSeen]

\* Mutant: remaining >= 0.
AllowsNone(r) == seen[r].remaining >= 0
Allows(r) == seen[r].remaining > 0

\* _check_quota raises QuotaExceededError with reset_in(), at least 1.
Refuse(r) ==
    /\ phase[r] = "asked"
    /\ ~Allows(r)
    /\ phase' = [phase EXCEPT ![r] = "idle"]
    /\ promise' = [promise EXCEPT ![TenantOf[r]] =
                     IF seen[r].resetIn > 1 THEN seen[r].resetIn ELSE 1]
    /\ Forget(r)
    /\ UNCHANGED table

\* The quota allows it; the guards of get_case refuse it without a record.
TurnAway(r) ==
    /\ phase[r] = "asked"
    /\ Allows(r)
    /\ phase' = [phase EXCEPT ![r] = "idle"]
    /\ Forget(r)
    /\ UNCHANGED <<table, promise>>

Begin(r) ==
    /\ phase[r] = "asked"
    /\ Allows(r)
    /\ phase' = [phase EXCEPT ![r] = "looking"]
    /\ Forget(r)
    /\ UNCHANGED <<table, promise>>

\* The record in get_case's finally, whatever the lookup came to.
Record(r, outcome) ==
    LET t == TenantOf[r] IN
    /\ phase[r] = "looking"
    /\ Insert(t, outcome, FALSE)
    /\ phase' = [phase EXCEPT ![r] = "idle"]
    /\ promise' = IF outcome \in Uncounted THEN promise
                  ELSE [promise EXCEPT ![t] = NoPromise]
    /\ UNCHANGED seen

\* The INSERT raises: the call fails with no row.
RecordFails(r) ==
    /\ phase[r] = "looking"
    /\ phase' = [phase EXCEPT ![r] = "idle"]
    /\ UNCHANGED <<table, seen, promise>>

\* Mutant: the comparison turned round.
InRetention(row) == row.age < Retention
PastRetention(row) == row.age > Retention

\* The daily task: ts < now - Retention
Prune ==
    /\ table' = [i \in Rows |->
                   IF table[i] # NoRow /\ PastRetention(table[i])
                   THEN NoRow ELSE table[i]]
    /\ UNCHANGED <<phase, seen, promise>>

Less(n) == IF n > 0 THEN n - 1 ELSE 0

Tick ==
    /\ table' = [i \in Rows |->
                   IF table[i] # NoRow /\ table[i].age < Oldest
                   THEN [table[i] EXCEPT !.age = @ + 1] ELSE table[i]]
    /\ seen' = [r \in Requests |-> [seen[r] EXCEPT !.resetIn = Less(@)]]
    /\ promise' = [t \in Tenants |-> IF promise[t] = NoPromise THEN NoPromise
                                     ELSE Less(promise[t])]
    /\ UNCHANGED phase

Next ==
    \/ Tick
    \/ Prune
    \/ \E r \in Requests :
        \/ RecordHit(r) \/ BeginUnlimited(r) \/ Ask(r)
        \/ Refuse(r) \/ TurnAway(r) \/ Begin(r)
        \/ \E outcome \in Outcomes : Record(r, outcome)
        \/ RecordFails(r)

Spec == Init /\ [][Next]_vars

-----------------------------------------------------------------------------
(* Properties. *)

Quota == [remaining : Nat, resetIn : 0..Window]

TypeOK ==
    /\ table \in [Rows -> Row \cup {NoRow}]
    /\ phase \in [Requests -> {"idle", "asked", "looking"}]
    /\ seen \in [Requests -> Quota]
    /\ promise \in [Tenants -> 0..Window \cup {NoPromise}]

CallersOf(t) == {r \in Requests : TenantOf[r] = t}

\* The requests of t that have passed the quota check and are not recorded yet.
Passed(t) ==
    {r \in CallersOf(t) : \/ phase[r] = "looking"
                          \/ phase[r] = "asked" /\ seen[r].remaining > 0}

\* The check and the record are two database calls, so concurrent requests can
\* pass on one remaining lookup; but a tenant never exceeds its quota by more
\* than the requests it has running beside the one that uses the last lookup.
OvershootBounded == \A t \in Tenants :
    Limited(t) /\ CallersOf(t) # {} =>
        Used(t) + Cardinality(Passed(t)) <= LimitOf[t] - 1 + Cardinality(CallersOf(t))

\* Only the passing of time gives quota back: the daily prune, a cache hit, a
\* refusal or a failed record never does.  It needs the retention, in days, never
\* to cut into the 24-hour window.
OnlyTimeRefunds == [][\A t \in Tenants : Used(t)' < Used(t) => Tick]_vars

\* When the Retry-After of a refusal has passed and nothing more was counted, one
\* lookup has left the window, so the overshoot, if any, has shrunk; a tenant that
\* calls one at a time has quota again.  It needs reset_at to agree with the
\* boundary of the window the rows are counted over, and with the rounding up to 1.
ResetFreesQuota == \A t \in Tenants :
    promise[t] = 0 => Used(t) <= LimitOf[t] - 2 + Cardinality(CallersOf(t))

\* settings.py, Tenant.quota_per_day: "Lookups allowed per rolling 24h."
NeverOverQuota == \A t \in Tenants : Limited(t) => Used(t) <= LimitOf[t]
=============================================================================
