------------------------------- MODULE Portal -------------------------------
(***************************************************************************)
(* The portal of a tenant: its session cookie (auth.py, the login routes of *)
(* portal.py) and the paged listing of its lookups (portal.py index, the    *)
(* lookups query of usage.py and usage.sql), read while lookups are being   *)
(* recorded and old ones pruned.                                            *)
(*                                                                          *)
(* One person with a browser holds the cookie and walks the listing, from   *)
(* "Lookups" along the "Next" links.  A page is a set of rows: their order  *)
(* in it is ORDER BY's.  A tick is half a second, so that every other       *)
(* timestamp has no fraction; a day is a few ticks.                         *)
(***************************************************************************)
EXTENDS Integers, FiniteSets

CONSTANTS
    Tenants,         \* the names a configuration may hold
    Writers,         \* the lookups that can be being recorded at once
    None,
    PAGE_SIZE,
    SESSION_MAX_AGE,
    Retention,       \* retention_days
    DayLength,
    Days,            \* bound: the days that a range may name
    Slow,            \* bound: ticks from the timestamp of a record to its INSERT
    MaxRows,         \* bound: rows ever inserted
    Horizon          \* bound: the clock stops here

ASSUME SizesAssumption ==
    /\ PAGE_SIZE \in Nat \ {0} /\ DayLength \in Nat \ {0}
    /\ SESSION_MAX_AGE \in Nat /\ Retention \in Nat
    /\ Days \subseteq Nat
    /\ Slow \in Nat /\ MaxRows \in Nat /\ Horizon \in Nat
ASSUME NoneAssumption == None \notin Tenants /\ None \notin Int
\* retention_days are days, an INSERT is not.
ASSUME SlowAssumption == Slow <= Retention

VARIABLES
    now,
    tenants,   \* the tenants of the running configuration
    table,     \* the lookups table
    inserted,  \* how many rows were ever inserted
    writing,   \* what each writer is about to insert
    session,   \* the cookie
    login,     \* history: who last logged in with it, and when
    walk       \* the listing that is open

log == <<table, inserted, writing>>
vars == <<now, tenants, log, session, login, walk>>

NoSession == [tenant |-> None, exp |-> 0]
NoWalk == [from |-> None, to |-> None, page |-> {}, next |-> None,
           passed |-> {}, start |-> {}]

Init ==
    /\ now = 0
    /\ tenants = Tenants
    /\ table = {} /\ inserted = 0
    /\ writing = [w \in Writers |-> None]
    /\ session = NoSession
    /\ login = [tenant |-> None, at |-> 0]
    /\ walk = NoWalk

-----------------------------------------------------------------------------
(* Timestamps as texts. *)

Second(ts) == ts \div 2

\* What iso writes behind the second: isoformat leaves out a fraction of zero, so
\* the "+" (43) of the offset stands where other texts have a "." (46).
\* Mutant: "Z" (90) for the offset.
MarkZulu(ts) == IF ts % 2 = 0 THEN 90 ELSE 46
Mark(ts) == IF ts % 2 = 0 THEN 43 ELSE 46

\* ts < ? in SQLite, which compares texts
Before(a, b) == Second(a) < Second(b) \/ (Second(a) = Second(b) /\ Mark(a) < Mark(b))

Day(ts) == ts \div DayLength
midnight(day, days) == IF day = None THEN None ELSE (day + days) * DayLength

-----------------------------------------------------------------------------
(* The log. *)

\* A request whose key is a tenant's is recorded: the timestamp is taken here,
BeginRecord(w) ==
    /\ writing[w] = None
    /\ \E t \in tenants : writing' = [writing EXCEPT ![w] = [tenant |-> t, ts |-> now]]
    /\ UNCHANGED <<now, tenants, table, inserted, session, login, walk>>

\* INTEGER PRIMARY KEY: one more than the greatest id there is
NextId == IF table = {} THEN 1
          ELSE 1 + (CHOOSE i \in {row.id : row \in table} : \A row \in table : row.id <= i)

\* and the row is inserted here.
Insert(w) ==
    /\ writing[w] # None
    /\ inserted < MaxRows
    /\ table' = table \cup {[id |-> NextId, tenant |-> writing[w].tenant, ts |-> writing[w].ts]}
    /\ inserted' = inserted + 1
    /\ writing' = [writing EXCEPT ![w] = None]
    /\ UNCHANGED <<now, tenants, session, login, walk>>

\* DELETE ... WHERE ts < ?
Prune ==
    /\ now >= Retention
    /\ table' = {row \in table : ~Before(row.ts, now - Retention)}
    /\ UNCHANGED <<now, tenants, inserted, writing, session, login, walk>>

-----------------------------------------------------------------------------
(* The session. *)

\* The tenant that the middleware lets in with the cookie; None if it raises.
Authenticated ==
    IF session.exp > now /\ session.tenant \in tenants THEN session.tenant ELSE None

\* exp is int(time.time()) + SESSION_MAX_AGE, so it counts from the whole second.
Expiry == 2 * Second(now) + SESSION_MAX_AGE

\* A key that is no tenant's gets the form again.
LogIn ==
    /\ \E t \in tenants :
         /\ session' = [tenant |-> t, exp |-> Expiry]
         /\ login' = [tenant |-> t, at |-> now]
    /\ walk' = NoWalk
    /\ UNCHANGED <<now, tenants, log>>

\* Logging out takes a session; without one it is answered by the redirect.
LogOut ==
    /\ Authenticated # None
    /\ session' = NoSession
    /\ walk' = NoWalk
    /\ UNCHANGED <<now, tenants, log, login>>

\* NotAuthorizedException: whatever page was asked for, the login form comes.
SentToLogin ==
    /\ Authenticated = None
    /\ walk' = NoWalk
    /\ UNCHANGED <<now, tenants, log, session, login>>

-----------------------------------------------------------------------------
(* The listing. *)

\* ORDER BY ts DESC, id DESC
Newer(a, b) == Before(b.ts, a.ts) \/ (~Before(a.ts, b.ts) /\ a.id > b.id)
Rank(row, rows) == Cardinality({other \in rows : Newer(other, row)})

Selected(t, before, after) ==
    {row \in table : /\ row.tenant = t
                     /\ before # None => Before(row.ts, before)
                     /\ after # None => ~Before(row.ts, after)}

\* Mutant: the first row that is not shown is the cursor.
CursorPast(rows) ==
    IF Cardinality(rows) <= PAGE_SIZE THEN None
    ELSE (CHOOSE row \in rows : Rank(row, rows) = PAGE_SIZE).ts
\* next_before: items[PAGE_SIZE - 1].ts, if there was one more row than a page has
Cursor(rows) ==
    IF Cardinality(rows) <= PAGE_SIZE THEN None
    ELSE (CHOOSE row \in rows : Rank(row, rows) = PAGE_SIZE - 1).ts

\* Mutant: the row that was fetched to see if there are more is shown.
PageUnsliced(w, before) ==
    LET rows == Selected(Authenticated, IF before = None THEN midnight(w.to, 1) ELSE before,
                         midnight(w.from, 0)) IN
    [w EXCEPT !.page = {row \in rows : Rank(row, rows) <= PAGE_SIZE}, !.next = Cursor(rows)]
\* Mutant: a cursor takes the place of the whole range.
PageRangeless(w, before) ==
    LET rows == IF before = None
                THEN Selected(Authenticated, midnight(w.to, 1), midnight(w.from, 0))
                ELSE Selected(Authenticated, before, None) IN
    [w EXCEPT !.page = {row \in rows : Rank(row, rows) < PAGE_SIZE}, !.next = Cursor(rows)]
\* The page of the rows before a cursor, on a walk that was at w.
Page(w, before) ==
    LET rows == Selected(Authenticated, IF before = None THEN midnight(w.to, 1) ELSE before,
                         midnight(w.from, 0)) IN
    [w EXCEPT !.page = {row \in rows : Rank(row, rows) < PAGE_SIZE}, !.next = Cursor(rows)]

Open(from, to) ==
    /\ Authenticated # None
    /\ walk' = Page([NoWalk EXCEPT !.from = from, !.to = to, !.start = table], None)
    /\ UNCHANGED <<now, tenants, log, session, login>>

\* Mutant: activity renews the session.
NextPageRenewing ==
    /\ Authenticated # None
    /\ walk.next # None
    /\ walk' = Page([walk EXCEPT !.passed = @ \cup walk.page], walk.next)
    /\ session' = [session EXCEPT !.exp = Expiry]
    /\ UNCHANGED <<now, tenants, log, login>>
\* The "Next" link keeps the range and carries the cursor.
NextPage ==
    /\ Authenticated # None
    /\ walk.next # None
    /\ walk' = Page([walk EXCEPT !.passed = @ \cup walk.page], walk.next)
    /\ UNCHANGED <<now, tenants, log, session, login>>

-----------------------------------------------------------------------------

\* A new process, perhaps of another configuration; what was being recorded is
\* lost, the cookie is the browser's.
Restart ==
    /\ tenants' \in SUBSET Tenants
    /\ writing' = [w \in Writers |-> None]
    /\ UNCHANGED <<now, table, inserted, session, login, walk>>

Tick ==
    /\ now < Horizon
    /\ \A w \in Writers : writing[w] # None => now - writing[w].ts < Slow
    /\ now' = now + 1
    /\ UNCHANGED <<tenants, log, session, login, walk>>

Next ==
    \/ Tick \/ Restart \/ Prune
    \/ \E w \in Writers : BeginRecord(w) \/ Insert(w)
    \/ LogIn \/ LogOut \/ SentToLogin
    \/ \E from, to \in Days \cup {None} : Open(from, to)
    \/ NextPage

Spec == Init /\ [][Next]_vars

-----------------------------------------------------------------------------
(* Properties. *)

Row == [id : Nat, tenant : Tenants, ts : Nat]

TypeOK ==
    /\ now \in Nat
    /\ tenants \subseteq Tenants
    /\ table \subseteq Row
    /\ inserted \in 0..MaxRows
    /\ writing \in [Writers -> [tenant : Tenants, ts : Nat] \cup {None}]
    /\ session \in [tenant : Tenants \cup {None}, exp : Nat]
    /\ login \in [tenant : Tenants \cup {None}, at : Nat]
    /\ walk \in [from : Days \cup {None}, to : Days \cup {None}, page : SUBSET Row,
                 next : Nat \cup {None}, passed : SUBSET Row,
                 start : SUBSET Row]
    /\ Cardinality(walk.page) <= PAGE_SIZE

\* Along the Next links every row is older than all rows of the pages before: none
\* comes twice and none out of order, though rows are inserted late, with the time
\* at which their lookup ended, and pruned between the pages.  It needs the texts to
\* order as the times do, and the cursor to be the last row shown.
PagesDescend ==
    \A row \in walk.page, earlier \in walk.passed : row.ts < earlier.ts

Wanted(row) ==
    /\ walk.from # None => Day(row.ts) >= walk.from
    /\ walk.to # None => Day(row.ts) <= walk.to

Shown == walk.page \cup walk.passed

\* A walk may miss a row only if it shares its timestamp with one that was shown,
\* the last of its page: any other row of the tenant and the days asked for that was
\* there when the walk began, and is there still, was shown by the time the pages
\* passed it.
OnlyTiesSkipped ==
    Authenticated # None /\ walk # NoWalk =>
    \A row \in walk.start \cap table :
        /\ row.tenant = login.tenant
        /\ Wanted(row)
        /\ walk.next = None \/ row.ts > walk.next
        => \E shown \in Shown : shown.ts = row.ts /\ shown.id >= row.id

\* Every row shown is of the tenant that logged in and of a day of the range, its
\* last day included, on the first page as on those a cursor leads to.
ShownInRange ==
    \A row \in Shown : row.tenant = login.tenant /\ Wanted(row)

\* SESSION_MAX_AGE (auth.py:19) counts from the login: no activity prolongs a
\* session, no restart revives one, and it ends with its tenant's configuration.
SessionBounded ==
    Authenticated # None =>
        /\ Authenticated = login.tenant /\ login.tenant \in tenants
        /\ now < login.at + SESSION_MAX_AGE
=============================================================================
