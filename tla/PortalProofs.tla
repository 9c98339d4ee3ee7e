---------------------------- MODULE PortalProofs ----------------------------
(***************************************************************************)
(* Proofs about Portal, for any tenants, page size, session age, range of   *)
(* days and history of the log.  First that the texts order as the times    *)
(* do, then what a page has of the rows selected, then the invariant: what  *)
(* the pages passed have shown, while rows come late and go.                *)
(***************************************************************************)
EXTENDS Portal, FiniteSetTheorems, FunctionTheorems, NaturalsInduction, TLAPS

-----------------------------------------------------------------------------
(* The inductive invariant. *)

\* Ids tell rows apart, and are no greater than the number of rows ever inserted.
DistinctIds(rows) == \A a, b \in rows : a.id = b.id => a = b
LogKept ==
    /\ IsFiniteSet(table)
    /\ DistinctIds(table)
    /\ \A row \in table : row.id \in 1..inserted

\* A record is inserted before it is slow.
RecordsRecent == \A w \in Writers : writing[w] # None => now <= writing[w].ts + Slow

\* A session is of the last login, and ends with it.
SessionOfLogin ==
    session # NoSession =>
        session.tenant = login.tenant /\ session.exp <= login.at + SESSION_MAX_AGE

\* The cursor is the timestamp of the last row shown.
CursorShown ==
    walk.next # None =>
        /\ \E row \in walk.page : row.ts = walk.next
        /\ \A row \in Shown : row.ts >= walk.next

\* A row that the walk found and that is gone was too old to be kept.
Pruned == \A row \in walk.start \ table : row.ts + Retention < now

\* Down to the cursor, and at it, no row that is still there was passed over but for
\* one of its timestamp with a greater id.
Covered ==
    \A row \in walk.start \cap table :
        /\ row.tenant = login.tenant
        /\ Wanted(row)
        /\ walk.next = None \/ row.ts >= walk.next
        => \E shown \in Shown : shown.ts = row.ts /\ shown.id >= row.id

IInv ==
    /\ TypeOK
    /\ LogKept
    /\ RecordsRecent
    /\ SessionOfLogin
    /\ PagesDescend
    /\ CursorShown
    /\ ShownInRange
    /\ Pruned
    /\ Covered

-----------------------------------------------------------------------------
(* Texts and times. *)

\* The texts order as the times: half a second has a ".", a whole one a "+".
LEMMA BeforeIsLess == ASSUME NEW a \in Nat, NEW b \in Int PROVE Before(a, b) <=> a < b
BY DEF Before, Second, Mark

\* The day of a timestamp against the midnights of the range.
LEMMA DayBounds ==
    ASSUME NEW ts \in Nat, NEW day \in Nat
    PROVE  /\ ts >= midnight(day, 0) <=> Day(ts) >= day
           /\ ts < midnight(day, 1) <=> Day(ts) <= day
           /\ midnight(day, 0) \in Nat /\ midnight(day, 1) \in Nat
<1> DEFINE q == ts \div DayLength
<1>1. DayLength \in Nat /\ DayLength > 0 BY SizesAssumption
<1>2. /\ q \in Nat
      /\ DayLength * q <= ts /\ ts < DayLength * q + DayLength
  BY <1>1
<1>3. day # None BY NoneAssumption
<1>4. midnight(day, 0) = DayLength * day /\ midnight(day, 1) = DayLength * day + DayLength
  BY <1>1, <1>3 DEF midnight
<1> HIDE DEF q
<1>5. ASSUME NEW m \in Nat, NEW n \in Nat, m <= n PROVE DayLength * m <= DayLength * n
  BY <1>1, <1>5
<1>6. ASSUME NEW m \in Nat, NEW n \in Nat, m < n
      PROVE  DayLength * m + DayLength <= DayLength * n
  <2>1. DayLength * (m + 1) <= DayLength * n BY <1>5, <1>6
  <2> QED BY <1>1, <2>1
<1>7. DayLength * day \in Nat /\ DayLength * q \in Nat BY <1>1, <1>2
<1>8. ts >= DayLength * day <=> q >= day
  <2>1. ASSUME q >= day PROVE ts >= DayLength * day
    BY <1>1, <1>2, <1>5, <1>7, <2>1
  <2>2. ASSUME q < day PROVE ts < DayLength * day
    BY <1>1, <1>2, <1>6, <1>7, <2>2
  <2> QED BY <1>2, <1>7, <2>1, <2>2
<1>9. ts < DayLength * day + DayLength <=> q <= day
  <2>1. ASSUME q <= day PROVE ts < DayLength * day + DayLength
    BY <1>1, <1>2, <1>5, <1>7, <2>1
  <2>2. ASSUME q > day PROVE ts >= DayLength * day + DayLength
    BY <1>1, <1>2, <1>6, <1>7, <2>2
  <2> QED BY <1>1, <1>2, <1>7, <2>1, <2>2
<1> QED BY <1>1, <1>4, <1>7, <1>8, <1>9 DEF Day, q

-----------------------------------------------------------------------------
(* A page of rows. *)

\* The order of the listing, of rows that their ids tell apart.
LEMMA NewerOrder ==
    ASSUME NEW rows \in SUBSET Row, DistinctIds(rows)
    PROVE  /\ \A a, b \in rows :
                Newer(a, b) <=> a.ts > b.ts \/ (a.ts = b.ts /\ a.id > b.id)
           /\ \A a \in rows : ~Newer(a, a)
           /\ \A a, b \in rows : a # b => Newer(a, b) \/ Newer(b, a)
           /\ \A a, b, c \in rows : Newer(a, b) /\ Newer(b, c) => Newer(a, c)
<1>1. \A a \in rows : a.ts \in Nat /\ a.id \in Nat BY DEF Row
<1>2. \A a, b \in rows : Newer(a, b) <=> a.ts > b.ts \/ (a.ts = b.ts /\ a.id > b.id)
  BY <1>1, BeforeIsLess DEF Newer
<1>3. \A a, b \in rows : a # b => a.id # b.id BY DEF DistinctIds
<1> QED BY <1>1, <1>2, <1>3

\* The rank of a row counts the newer ones.
LEMMA RankCounts ==
    ASSUME NEW rows \in SUBSET Row, DistinctIds(rows), IsFiniteSet(rows)
    PROVE  /\ \A a \in rows : Rank(a, rows) \in 0..(Cardinality(rows) - 1)
           /\ \A a, b \in rows : Newer(a, b) => Rank(a, rows) < Rank(b, rows)
<1> DEFINE Above(a) == {other \in rows : Newer(other, a)}
<1>1. ASSUME NEW a \in rows
      PROVE  /\ IsFiniteSet(Above(a)) /\ Cardinality(Above(a)) \in Nat
             /\ Cardinality(Above(a)) < Cardinality(rows)
  <2>1. Above(a) \in SUBSET rows /\ Above(a) # rows BY NewerOrder
  <2>2. Cardinality(rows) \in Nat BY FS_CardinalityType
  <2>3. /\ IsFiniteSet(Above(a)) /\ Cardinality(Above(a)) <= Cardinality(rows)
        /\ Cardinality(rows) # Cardinality(Above(a))
    BY <2>1, FS_Subset
  <2> QED BY <2>2, <2>3, FS_CardinalityType
<1>2. ASSUME NEW a \in rows, NEW b \in rows, Newer(a, b)
      PROVE  Cardinality(Above(a)) < Cardinality(Above(b))
  <2>1. Above(a) \in SUBSET Above(b) BY <1>2, NewerOrder
  <2>2. Above(a) # Above(b) BY <1>2, NewerOrder
  <2>3. /\ Cardinality(Above(a)) <= Cardinality(Above(b))
        /\ Cardinality(Above(b)) # Cardinality(Above(a))
    BY <1>1, <2>1, <2>2, FS_Subset
  <2>4. Cardinality(Above(a)) \in Nat /\ Cardinality(Above(b)) \in Nat BY <1>1
  <2> HIDE DEF Above
  <2> QED BY <2>3, <2>4
<1>3. \A a \in rows : Rank(a, rows) = Cardinality(Above(a)) BY DEF Rank
<1>4. Cardinality(rows) \in Nat BY FS_CardinalityType
<1> QED
  <2> HIDE DEF Above
  <2> QED BY <1>1, <1>2, <1>3, <1>4

\* So there is exactly one row of every rank.
LEMMA RankOnto ==
    ASSUME NEW rows \in SUBSET Row, DistinctIds(rows), IsFiniteSet(rows)
    PROVE  /\ \A a, b \in rows : Rank(a, rows) = Rank(b, rows) => a = b
           /\ \A n \in 0..(Cardinality(rows) - 1) : \E row \in rows : Rank(row, rows) = n
<1> DEFINE ranks == 0..(Cardinality(rows) - 1)
           rank == [row \in rows |-> Rank(row, rows)]
<1>1. Cardinality(rows) \in Nat BY FS_CardinalityType
<1>2. \A a \in rows : Rank(a, rows) \in Int BY RankCounts
<1>3. \A a, b \in rows : Rank(a, rows) = Rank(b, rows) => a = b
  BY <1>2, RankCounts, NewerOrder
<1>4. rank \in [rows -> ranks] BY RankCounts
<1>5. rank \in Injection(rows, ranks) BY <1>3, <1>4 DEF Injection, IsInjective
<1>6. IsFiniteSet(ranks) /\ Cardinality(ranks) = Cardinality(rows)
  <2>1. CASE Cardinality(rows) = 0
    <3>1. ranks = {} BY <2>1
    <3> QED BY <2>1, <3>1, FS_EmptySet
  <2>2. CASE Cardinality(rows) > 0 BY <1>1, <2>2, FS_Interval
  <2> QED BY <1>1, <2>1, <2>2
<1>7. rank \in Surjection(rows, ranks)
  <2> HIDE DEF rank, ranks
  <2> QED BY <1>5, <1>6, FS_Injection
<1> QED BY <1>3, <1>7 DEF Surjection

\* What is shown of the rows selected.
Top(rows) == {row \in rows : Rank(row, rows) < PAGE_SIZE}

\* A page has at most PAGE_SIZE rows.
LEMMA TopFits ==
    ASSUME NEW rows \in SUBSET Row, DistinctIds(rows), IsFiniteSet(rows)
    PROVE  Cardinality(Top(rows)) <= PAGE_SIZE
<1> DEFINE ranks == 0..(PAGE_SIZE - 1)
           rank == [row \in Top(rows) |-> Rank(row, rows)]
<1>1. PAGE_SIZE \in Nat /\ PAGE_SIZE > 0 BY SizesAssumption
<1>2. \A row \in rows : Rank(row, rows) \in Nat BY RankCounts
<1>3. rank \in [Top(rows) -> ranks] BY <1>1, <1>2 DEF Top
<1>4. rank \in Injection(Top(rows), ranks)
  BY <1>3, RankOnto DEF Injection, IsInjective, Top
<1>5. IsFiniteSet(ranks) /\ Cardinality(ranks) = PAGE_SIZE BY <1>1, FS_Interval
<1> QED
  <2> HIDE DEF rank, ranks
  <2> QED BY <1>4, <1>5, FS_Injection

\* Without a cursor everything is shown.
LEMMA LastPage ==
    ASSUME NEW rows \in SUBSET Row, DistinctIds(rows), IsFiniteSet(rows), Cursor(rows) = None
    PROVE  Top(rows) = rows
<1>1. PAGE_SIZE \in Nat /\ PAGE_SIZE > 0 /\ Cardinality(rows) \in Nat
  BY SizesAssumption, FS_CardinalityType
<1>2. Cardinality(rows) <= PAGE_SIZE
  <2> SUFFICES ASSUME Cardinality(rows) > PAGE_SIZE PROVE FALSE BY <1>1
  <2>1. PICK row \in rows : Rank(row, rows) = PAGE_SIZE - 1 BY <1>1, RankOnto
  <2>2. (CHOOSE r \in rows : Rank(r, rows) = PAGE_SIZE - 1) \in rows BY <2>1
  <2>3. Cursor(rows) \in Nat BY <1>1, <2>2 DEF Cursor, Row
  <2> QED BY <2>3, NoneAssumption
<1>3. \A row \in rows : Rank(row, rows) \in 0..(Cardinality(rows) - 1) BY RankCounts
<1> QED BY <1>1, <1>2, <1>3 DEF Top

\* With one, the page ends at it: nothing shown is older, and a row that is not
\* shown but not older either has its timestamp, and a smaller id than the last.
LEMMA FullPage ==
    ASSUME NEW rows \in SUBSET Row, DistinctIds(rows), IsFiniteSet(rows), Cursor(rows) # None
    PROVE  /\ Cursor(rows) \in Nat
           /\ \E row \in Top(rows) : row.ts = Cursor(rows)
           /\ \A row \in Top(rows) : row.ts >= Cursor(rows)
           /\ \A row \in rows : row.ts >= Cursor(rows) =>
                \E shown \in Top(rows) : shown.ts = row.ts /\ shown.id >= row.id
<1> DEFINE last == CHOOSE r \in rows : Rank(r, rows) = PAGE_SIZE - 1
<1>1. PAGE_SIZE \in Nat /\ PAGE_SIZE > 0 /\ Cardinality(rows) \in Nat
  BY SizesAssumption, FS_CardinalityType
<1>2. Cardinality(rows) > PAGE_SIZE /\ Cursor(rows) = last.ts BY <1>1 DEF Cursor
<1>3. \E r \in rows : Rank(r, rows) = PAGE_SIZE - 1 BY <1>1, <1>2, RankOnto
<1>4. last \in rows /\ Rank(last, rows) = PAGE_SIZE - 1 BY <1>3
<1> HIDE DEF last
<1>5. last \in Top(rows) BY <1>1, <1>4 DEF Top
<1>6. \A row \in rows : row.ts \in Nat /\ row.id \in Nat BY DEF Row
<1>7. \A row \in rows : Rank(row, rows) \in Nat BY RankCounts
<1>8. ASSUME NEW row \in Top(rows) PROVE row.ts >= last.ts
  <2>1. row \in rows /\ Rank(row, rows) <= Rank(last, rows) BY <1>1, <1>4, <1>7, <1>8 DEF Top
  <2>2. ~Newer(last, row) BY <1>4, <1>7, <2>1, RankCounts
  <2> QED BY <1>4, <1>6, <2>1, <2>2, NewerOrder
<1>9. ASSUME NEW row \in rows, row.ts >= last.ts
      PROVE  \E shown \in Top(rows) : shown.ts = row.ts /\ shown.id >= row.id
  <2>1. CASE row \in Top(rows) BY <1>6, <2>1
  <2>2. CASE row \notin Top(rows)
    <3>1. Rank(row, rows) >= PAGE_SIZE BY <1>1, <1>7, <2>2 DEF Top
    <3>2. row # last /\ ~Newer(row, last) BY <1>1, <1>4, <1>5, <1>7, <2>2, <3>1, RankCounts
    <3>3. Newer(last, row) BY <1>4, <3>2, NewerOrder
    <3>4. last.ts = row.ts /\ last.id > row.id BY <1>4, <1>6, <1>9, <3>3, NewerOrder
    <3> QED BY <1>4, <1>5, <1>6, <3>4
  <2> QED BY <2>1, <2>2
<1> QED BY <1>2, <1>4, <1>5, <1>6, <1>8, <1>9

-----------------------------------------------------------------------------
(* The rows selected. *)

Walk == [from : Days \cup {None}, to : Days \cup {None}, page : SUBSET Row,
         next : Nat \cup {None}, passed : SUBSET Row, start : SUBSET Row]

\* The range that a walk asks for.
InRange(w, row) ==
    /\ w.from # None => Day(row.ts) >= w.from
    /\ w.to # None => Day(row.ts) <= w.to

\* What the query of a page finds.
Found(w, before) ==
    Selected(Authenticated, IF before = None THEN midnight(w.to, 1) ELSE before,
             midnight(w.from, 0))

\* The rows of the tenant from the first day of the range, and before the cursor or
\* to the end of its last day.
LEMMA FoundRows ==
    ASSUME TypeOK, LogKept, NEW w \in Walk, NEW before \in Nat \cup {None}
    PROVE  /\ Found(w, before) =
                {row \in table : /\ row.tenant = Authenticated
                                 /\ w.from # None => Day(row.ts) >= w.from
                                 /\ IF before = None
                                    THEN w.to # None => Day(row.ts) <= w.to
                                    ELSE row.ts < before}
           /\ Found(w, before) \in SUBSET Row
           /\ DistinctIds(Found(w, before)) /\ IsFiniteSet(Found(w, before))
<1>1. \A row \in table : row.ts \in Nat BY DEF TypeOK, Row
<1>2. /\ w.from = None \/ w.from \in Nat
      /\ w.to = None \/ w.to \in Nat
  BY SizesAssumption DEF Walk
<1>3. ASSUME NEW row \in table
      PROVE  (midnight(w.from, 0) # None => ~Before(row.ts, midnight(w.from, 0)))
                <=> (w.from # None => Day(row.ts) >= w.from)
  <2>1. CASE w.from = None BY <2>1 DEF midnight
  <2>2. CASE w.from \in Nat
    <3>1. w.from # None /\ midnight(w.from, 0) # None
      BY <1>1, <2>2, DayBounds, NoneAssumption
    <3>2. midnight(w.from, 0) \in Nat BY <1>1, <2>2, DayBounds
    <3>3. Before(row.ts, midnight(w.from, 0)) <=> row.ts < midnight(w.from, 0)
      BY <1>1, <3>2, BeforeIsLess
    <3> QED BY <1>1, <2>2, <3>1, <3>2, <3>3, DayBounds
  <2> QED BY <1>2, <2>1, <2>2
<1>4. ASSUME NEW row \in table
      PROVE  (midnight(w.to, 1) # None => Before(row.ts, midnight(w.to, 1)))
                <=> (w.to # None => Day(row.ts) <= w.to)
  <2>1. CASE w.to = None BY <2>1 DEF midnight
  <2>2. CASE w.to \in Nat
    <3>1. w.to # None /\ midnight(w.to, 1) # None
      BY <1>1, <2>2, DayBounds, NoneAssumption
    <3>2. midnight(w.to, 1) \in Nat BY <1>1, <2>2, DayBounds
    <3>3. Before(row.ts, midnight(w.to, 1)) <=> row.ts < midnight(w.to, 1)
      BY <1>1, <3>2, BeforeIsLess
    <3> QED BY <1>1, <2>2, <3>1, <3>2, <3>3, DayBounds
  <2> QED BY <1>2, <2>1, <2>2
<1>5. ASSUME NEW row \in table, before # None
      PROVE  Before(row.ts, before) <=> row.ts < before
  BY <1>1, <1>5, BeforeIsLess
<1>6. Found(w, before) =
        {row \in table : /\ row.tenant = Authenticated
                         /\ w.from # None => Day(row.ts) >= w.from
                         /\ IF before = None
                            THEN w.to # None => Day(row.ts) <= w.to
                            ELSE row.ts < before}
  <2>1. CASE before = None BY <1>3, <1>4, <2>1 DEF Found, Selected
  <2>2. CASE before # None BY <1>3, <1>5, <2>2 DEF Found, Selected
  <2> QED BY <2>1, <2>2
<1>7. Found(w, before) \in SUBSET table BY <1>6
<1>8. Found(w, before) \in SUBSET Row BY <1>7 DEF TypeOK
<1>9. DistinctIds(Found(w, before)) BY <1>7 DEF LogKept, DistinctIds
<1>10. IsFiniteSet(Found(w, before)) BY <1>7, FS_Subset DEF LogKept
<1> QED BY <1>6, <1>8, <1>9, <1>10

\* A page is the top of what was found, with the cursor; the rest of the walk stays.
LEMMA PageOfFound ==
    ASSUME NEW w \in Walk, NEW before
    PROVE  /\ Page(w, before).page = Top(Found(w, before))
           /\ Page(w, before).next = Cursor(Found(w, before))
           /\ Page(w, before).from = w.from /\ Page(w, before).to = w.to
           /\ Page(w, before).passed = w.passed /\ Page(w, before).start = w.start
           /\ (/\ Found(w, before) \in SUBSET Row
               /\ Cursor(Found(w, before)) \in Nat \cup {None}) => Page(w, before) \in Walk
<1> DEFINE rows == Found(w, before)
<1>1. Page(w, before) = [w EXCEPT !.page = Top(rows), !.next = Cursor(rows)]
  BY DEF Page, Found, Top
<1>2. Top(rows) \subseteq rows BY DEF Top
<1> HIDE DEF rows
<1> QED BY <1>1, <1>2 DEF Walk, rows

-----------------------------------------------------------------------------
(* The log. *)

\* A non-empty set of naturals that has a bound has a greatest element.
LEMMA GreatestNatural ==
    ASSUME NEW S \in SUBSET Nat, S # {}, NEW bound \in Nat, \A i \in S : i <= bound
    PROVE  \E i \in S : \A j \in S : j <= i
<1> DEFINE R == {ss \in Nat \X Nat : ss[1] < ss[2]}
           gaps == {bound - i : i \in S}
<1>1. gaps \subseteq Nat /\ gaps # {}
  <2>1. \A i \in S : i \in Nat /\ i <= bound OBVIOUS
  <2>2. \A i \in S : bound - i \in Nat BY <2>1
  <2> QED BY <2>2
<1>2. IsWellFoundedOn(R, Nat) BY NatLessThanWellFounded DEF OpToRel
<1>3. PICK gap \in gaps : \A other \in gaps : <<other, gap>> \notin R
  <2> HIDE DEF R, gaps
  <2> QED BY <1>1, <1>2, WFMin
<1>4. PICK i \in S : gap = bound - i BY <1>3
<1>5. ASSUME NEW j \in S PROVE j <= i
  <2>1. bound - j \in gaps OBVIOUS
  <2>2. ~(bound - j < gap) BY <1>1, <1>3, <2>1
  <2> QED BY <1>4, <2>2
<1> QED BY <1>5

\* The id of a new row is that of no row there is.
LEMMA NextIdFresh ==
    ASSUME TypeOK, LogKept
    PROVE  NextId \in 1..(inserted + 1) /\ \A row \in table : row.id # NextId
<1> DEFINE ids == {row.id : row \in table}
<1>1. inserted \in Nat BY SizesAssumption DEF TypeOK
<1>2. CASE table = {} BY <1>1, <1>2 DEF NextId
<1>3. CASE table # {}
  <2>1. ids \in SUBSET Nat /\ ids # {} /\ \A i \in ids : i \in 1..inserted
    BY <1>1, <1>3 DEF LogKept
  <2>2. \E i \in ids : \A j \in ids : j <= i
    <3> HIDE DEF ids
    <3>1. \A i \in ids : i <= inserted BY <1>1, <2>1
    <3> QED BY <1>1, <2>1, <3>1, GreatestNatural
  <2>3. \E i \in ids : \A row \in table : row.id <= i BY <2>2
  <2> DEFINE last == CHOOSE i \in ids : \A row \in table : row.id <= i
  <2>4. last \in ids /\ \A row \in table : row.id <= last BY <2>3
  <2>5. NextId = 1 + last BY <1>3 DEF NextId
  <2> HIDE DEF last
  <2>6. last \in 1..inserted BY <2>1, <2>4
  <2> QED BY <1>1, <2>4, <2>5, <2>6 DEF LogKept
<1> QED BY <1>2, <1>3

-----------------------------------------------------------------------------
(* The invariant holds at first, and every step keeps it. *)

\* The parts of the invariant that are about the walk.
WalkInv == PagesDescend /\ CursorShown /\ ShownInRange /\ Pruned /\ Covered

\* The part of the type invariant that is not about it.
StateTyped ==
    /\ now \in Nat
    /\ tenants \subseteq Tenants
    /\ table \subseteq Row
    /\ inserted \in 0..MaxRows
    /\ writing \in [Writers -> [tenant : Tenants, ts : Nat] \cup {None}]
    /\ session \in [tenant : Tenants \cup {None}, exp : Nat]
    /\ login \in [tenant : Tenants \cup {None}, at : Nat]
WalkTyped == walk \in Walk /\ Cardinality(walk.page) <= PAGE_SIZE

LEMMA TypeParts == TypeOK <=> StateTyped /\ WalkTyped
BY DEF TypeOK, StateTyped, WalkTyped, Walk

\* The parts of the invariant that a step can disturb together.
LEMMA InvNext ==
    /\ StateTyped' /\ WalkTyped'
    /\ LogKept' /\ RecordsRecent' /\ SessionOfLogin'
    /\ WalkInv'
    => IInv'
BY DEF TypeOK, StateTyped, WalkTyped, Walk, WalkInv, IInv

\* Nothing is shown of a listing that is not open.
LEMMA NoWalkInv == walk = NoWalk => WalkTyped /\ WalkInv
<1> SUFFICES ASSUME walk = NoWalk PROVE WalkTyped /\ WalkInv OBVIOUS
<1>1. /\ walk.page = {} /\ walk.passed = {} /\ walk.start = {}
      /\ walk.next = None /\ walk.from = None /\ walk.to = None
  BY DEF NoWalk
<1>2. WalkTyped
  <2>1. walk \in Walk BY DEF NoWalk, Walk
  <2>2. Cardinality(walk.page) = 0 /\ PAGE_SIZE \in Nat BY <1>1, FS_EmptySet, SizesAssumption
  <2> QED BY <2>1, <2>2 DEF WalkTyped
<1>3. WalkInv
  BY <1>1 DEF WalkInv, PagesDescend, CursorShown, ShownInRange, Shown, Pruned, Covered
<1> QED BY <1>2, <1>3

LEMMA InitInv == Init => IInv
<1> SUFFICES ASSUME Init PROVE IInv OBVIOUS
<1>1. WalkTyped /\ WalkInv BY NoWalkInv DEF Init
<1>2. StateTyped
  <2>1. 0 \in 0..MaxRows BY SizesAssumption
  <2>2. NoSession \in [tenant : Tenants \cup {None}, exp : Nat] BY DEF NoSession
  <2> QED BY <2>1, <2>2 DEF Init, StateTyped
<1>3. LogKept BY FS_EmptySet DEF Init, LogKept, DistinctIds
<1>4. RecordsRecent /\ SessionOfLogin BY DEF Init, RecordsRecent, SessionOfLogin
<1> QED BY <1>1, <1>2, <1>3, <1>4, TypeParts DEF IInv, WalkInv

\* A page of a walk w: what w has passed was above the cursor and in the range, and
\* nothing at the cursor or above it was missed.
LEMMA ListStep ==
    ASSUME IInv, Authenticated # None, NEW w \in Walk, NEW before \in Nat \cup {None},
           walk' = Page(w, before),
           UNCHANGED <<now, tenants, log, session, login>>,
           \A row \in w.start \ table : row.ts + Retention < now,
           before = None => w.passed = {},
           before # None => /\ \A row \in w.passed : row.ts >= before
                            /\ \E row \in w.passed : row.ts = before,
           \A row \in w.passed : row.tenant = login.tenant /\ InRange(w, row),
           \A row \in w.start \cap table :
               /\ row.tenant = login.tenant /\ InRange(w, row)
               /\ before # None /\ row.ts >= before
               => \E shown \in w.passed : shown.ts = row.ts /\ shown.id >= row.id
    PROVE  WalkTyped' /\ WalkInv'
<1> DEFINE rows == Found(w, before)
<1>1. /\ rows \in SUBSET Row /\ DistinctIds(rows) /\ IsFiniteSet(rows)
      /\ rows = {row \in table : /\ row.tenant = Authenticated
                                 /\ w.from # None => Day(row.ts) >= w.from
                                 /\ IF before = None
                                    THEN w.to # None => Day(row.ts) <= w.to
                                    ELSE row.ts < before}
  BY FoundRows DEF IInv
<1>2. Authenticated = login.tenant
  <2>1. session.tenant = Authenticated /\ session # NoSession
    BY DEF Authenticated, NoSession
  <2> QED BY <2>1 DEF IInv, SessionOfLogin
<1>3. /\ walk'.page = Top(rows) /\ walk'.next = Cursor(rows)
      /\ walk'.from = w.from /\ walk'.to = w.to
      /\ walk'.passed = w.passed /\ walk'.start = w.start
      /\ Cursor(rows) \in Nat \cup {None} => walk' \in Walk
  BY <1>1, PageOfFound
<1>4. UNCHANGED <<now, table, login>> BY DEF log
<1> HIDE DEF rows
<1>5. Top(rows) \subseteq rows BY DEF Top
<1>6. /\ \A row \in rows : row.ts \in Nat /\ row.id \in Nat
      /\ \A row \in table : row.ts \in Nat /\ row.id \in Nat
      /\ \A row \in w.passed : row.ts \in Nat /\ row.id \in Nat
  BY <1>1 DEF IInv, TypeOK, Walk, Row
<1>7. \/ Cursor(rows) = None /\ Top(rows) = rows
      \/ /\ Cursor(rows) # None /\ Cursor(rows) \in Nat
         /\ \E row \in Top(rows) : row.ts = Cursor(rows)
         /\ \A row \in Top(rows) : row.ts >= Cursor(rows)
         /\ \A row \in rows : row.ts >= Cursor(rows) =>
              \E shown \in Top(rows) : shown.ts = row.ts /\ shown.id >= row.id
  BY <1>1, LastPage, FullPage
<1>8. WalkTyped'
  <2>1. walk' \in Walk BY <1>3, <1>7
  <2>2. Cardinality(Top(rows)) <= PAGE_SIZE BY <1>1, TopFits
  <2> QED BY <1>3, <2>1, <2>2 DEF WalkTyped
<1>9. \A row \in Top(rows), earlier \in w.passed : row.ts < earlier.ts
  <2> SUFFICES ASSUME NEW row \in Top(rows), NEW earlier \in w.passed
               PROVE  row.ts < earlier.ts
    OBVIOUS
  <2>1. before # None /\ before \in Nat /\ earlier.ts >= before OBVIOUS
  <2>2. row.ts < before BY <1>1, <1>5, <2>1
  <2> QED BY <1>5, <1>6, <2>1, <2>2
<1>10. PagesDescend' BY <1>3, <1>9 DEF PagesDescend
<1>11. CursorShown'
  <2> SUFFICES ASSUME Cursor(rows) # None
               PROVE  /\ \E row \in Top(rows) : row.ts = Cursor(rows)
                      /\ \A row \in Top(rows) \cup w.passed : row.ts >= Cursor(rows)
    BY <1>3 DEF CursorShown, Shown
  <2>1. PICK row \in Top(rows) : row.ts = Cursor(rows) BY <1>7
  <2>2. \A earlier \in w.passed : earlier.ts >= Cursor(rows)
    BY <1>5, <1>6, <1>9, <2>1
  <2> QED BY <1>7, <2>1, <2>2
<1>12. \A row \in rows : row.tenant = login.tenant /\ InRange(w, row)
  <2> SUFFICES ASSUME NEW row \in rows PROVE row.tenant = login.tenant /\ InRange(w, row)
    OBVIOUS
  <2>1. row.tenant = login.tenant /\ (w.from # None => Day(row.ts) >= w.from) BY <1>1, <1>2
  <2>2. CASE before = None BY <1>1, <2>1, <2>2 DEF InRange
  <2>3. CASE before # None
    <3>1. PICK earlier \in w.passed : earlier.ts = before BY <2>3
    <3>2. row.ts < before /\ before \in Nat BY <1>1, <2>3
    <3>3. ASSUME w.to # None PROVE Day(row.ts) <= w.to
      <4>1. w.to \in Nat BY <3>3, SizesAssumption DEF Walk
      <4>2. Day(earlier.ts) <= w.to BY <3>1, <3>3 DEF InRange
      <4>3. before < midnight(w.to, 1) /\ midnight(w.to, 1) \in Nat
        BY <3>1, <3>2, <4>1, <4>2, DayBounds
      <4>4. row.ts < midnight(w.to, 1) BY <1>6, <3>2, <4>3
      <4> QED BY <1>6, <4>1, <4>4, DayBounds
    <3> QED BY <2>1, <3>3 DEF InRange
  <2> QED BY <2>2, <2>3
<1>13. ShownInRange'
  <2>1. \A row : InRange(w, row) <=> Wanted(row)' BY <1>3 DEF InRange, Wanted
  <2> QED BY <1>3, <1>4, <1>5, <1>12, <2>1 DEF ShownInRange, Shown
<1>14. Pruned' BY <1>3, <1>4 DEF Pruned
<1>15. Covered'
  <2> SUFFICES ASSUME NEW row \in w.start \cap table, row.tenant = login.tenant,
                      InRange(w, row), Cursor(rows) = None \/ row.ts >= Cursor(rows)
               PROVE  \E shown \in Top(rows) \cup w.passed :
                          shown.ts = row.ts /\ shown.id >= row.id
    BY <1>3, <1>4 DEF Covered, Shown, Wanted, InRange
  <2>1. CASE before # None /\ row.ts >= before BY <2>1
  <2>2. CASE before = None \/ row.ts < before
    <3>1. row \in rows BY <1>1, <1>2, <2>2 DEF InRange
    <3> QED BY <1>6, <1>7, <3>1
  <2> QED BY <1>6, <2>1, <2>2
<1> QED BY <1>8, <1>10, <1>11, <1>13, <1>14, <1>15 DEF WalkInv

\* Opening the listing starts a walk; the Next link passes its page.
LEMMA OpenStep ==
    ASSUME IInv, NEW from \in Days \cup {None}, NEW to \in Days \cup {None}, Open(from, to)
    PROVE  WalkTyped' /\ WalkInv'
<1> DEFINE w == [NoWalk EXCEPT !.from = from, !.to = to, !.start = table]
<1>1. /\ Authenticated # None /\ walk' = Page(w, None)
      /\ UNCHANGED <<now, tenants, log, session, login>>
  BY DEF Open
<1>2. w \in Walk /\ w.start = table /\ w.passed = {}
  BY DEF NoWalk, Walk, IInv, TypeOK
<1> HIDE DEF w
<1> QED BY <1>1, <1>2, ListStep

LEMMA NextPageStep == ASSUME IInv, NextPage PROVE WalkTyped' /\ WalkInv'
<1> DEFINE w == [walk EXCEPT !.passed = @ \cup walk.page]
<1>1. /\ Authenticated # None /\ walk.next # None /\ walk' = Page(w, walk.next)
      /\ UNCHANGED <<now, tenants, log, session, login>>
  BY DEF NextPage
<1>2. walk \in Walk /\ walk.next \in Nat \cup {None} BY TypeParts DEF IInv, WalkTyped, Walk
<1>3. /\ w \in Walk /\ w.start = walk.start /\ w.from = walk.from /\ w.to = walk.to
      /\ w.passed = Shown
  BY <1>2 DEF Walk, Shown
<1> HIDE DEF w
<1>4. /\ \A row \in w.passed : row.ts >= walk.next
      /\ \E row \in w.passed : row.ts = walk.next
  BY <1>1, <1>3 DEF IInv, CursorShown, Shown
<1>5. \A row \in w.passed : row.tenant = login.tenant /\ InRange(w, row)
  BY <1>3 DEF IInv, ShownInRange, Wanted, InRange
<1>6. \A row \in w.start \ table : row.ts + Retention < now BY <1>3 DEF IInv, Pruned
<1>7. \A row \in w.start \cap table :
          /\ row.tenant = login.tenant /\ InRange(w, row)
          /\ walk.next # None /\ row.ts >= walk.next
          => \E shown \in w.passed : shown.ts = row.ts /\ shown.id >= row.id
  BY <1>3 DEF IInv, Covered, Wanted, InRange
<1> QED BY <1>1, <1>2, <1>3, <1>4, <1>5, <1>6, <1>7, ListStep

\* The walk stays as it is while the log changes: a row that is inserted is not one
\* that it found and that is gone, and a row that is pruned is too old to be kept.
LEMMA WalkStays ==
    ASSUME IInv, UNCHANGED <<walk, login>>, now' \in Nat, now' >= now,
           \A row \in walk.start \ table' : row \in table => row.ts + Retention < now',
           \A row \in walk.start \cap table' : row \in table
    PROVE  WalkTyped' /\ WalkInv'
<1>1. WalkTyped' /\ PagesDescend' /\ CursorShown' /\ ShownInRange'
  <2>1. WalkTyped BY TypeParts DEF IInv
  <2> QED BY <2>1 DEF IInv, WalkTyped, PagesDescend, CursorShown, ShownInRange, Shown, Wanted
<1>2. Pruned'
  <2> SUFFICES ASSUME NEW row \in walk.start \ table' PROVE row.ts + Retention < now'
    BY DEF Pruned
  <2>1. row.ts \in Nat /\ Retention \in Nat /\ now \in Nat
    BY SizesAssumption DEF IInv, TypeOK, Row
  <2>2. CASE row \in table BY <2>2
  <2>3. CASE row \notin table
    <3>1. row.ts + Retention < now BY <2>3 DEF IInv, Pruned
    <3> QED BY <2>1, <3>1
  <2> QED BY <2>2, <2>3
<1>3. Covered'
  <2>1. \A row : Wanted(row)' <=> Wanted(row) BY DEF Wanted
  <2>2. Shown' = Shown BY DEF Shown
  <2> QED BY <2>1, <2>2 DEF IInv, Covered
<1> QED BY <1>1, <1>2, <1>3 DEF WalkInv

\* The clock, records and the restart leave the table alone.
LEMMA WorldStep ==
    ASSUME IInv, \/ Tick \/ Restart \/ \E w \in Writers : BeginRecord(w)
    PROVE  IInv'
<1> USE DEF IInv
<1>1. /\ UNCHANGED <<table, inserted, session, login, walk>>
      /\ now' \in Nat /\ now' >= now
  BY DEF Tick, Restart, BeginRecord, TypeOK, log
<1>2. WalkTyped' /\ WalkInv' BY <1>1, WalkStays
<1>3. StateTyped' /\ RecordsRecent'
  <2>1. CASE Tick
    <3>1. now' = now + 1 /\ UNCHANGED <<tenants, writing>> BY <2>1 DEF Tick, log
    <3>2. \A w \in Writers : writing[w] # None => writing[w].ts \in Nat
      BY DEF TypeOK
    <3>3. \A w \in Writers : writing[w] # None => now - writing[w].ts < Slow BY <2>1 DEF Tick
    <3>4. now \in Nat /\ Slow \in Nat BY SizesAssumption DEF TypeOK
    <3>5. RecordsRecent' BY <3>1, <3>2, <3>3, <3>4 DEF RecordsRecent
    <3> QED BY <1>1, <3>1, <3>5 DEF TypeOK, StateTyped
  <2>2. CASE Restart
    BY <1>1, <2>2 DEF Restart, TypeOK, StateTyped, RecordsRecent
  <2>3. ASSUME NEW w \in Writers, BeginRecord(w) PROVE StateTyped' /\ RecordsRecent'
    <3>1. PICK t \in tenants : writing' = [writing EXCEPT ![w] = [tenant |-> t, ts |-> now]]
      BY <2>3 DEF BeginRecord
    <3>2. UNCHANGED <<now, tenants>> BY <2>3 DEF BeginRecord
    <3>3. [tenant |-> t, ts |-> now] \in [tenant : Tenants, ts : Nat] BY DEF TypeOK
    <3>4. now <= now + Slow BY SizesAssumption DEF TypeOK
    <3>5. writing' \in [Writers -> [tenant : Tenants, ts : Nat] \cup {None}]
      BY <3>1, <3>3 DEF TypeOK
    <3>6. RecordsRecent' BY <3>1, <3>2, <3>4 DEF RecordsRecent, TypeOK
    <3> QED BY <1>1, <3>2, <3>5, <3>6 DEF TypeOK, StateTyped
  <2> QED BY <2>1, <2>2, <2>3
<1>4. LogKept' /\ SessionOfLogin' BY <1>1 DEF LogKept, SessionOfLogin
<1> QED BY <1>2, <1>3, <1>4, InvNext

\* An INSERT gives an id of its own, to a row that is younger than any pruned one.
LEMMA InsertStep == ASSUME IInv, NEW w \in Writers, Insert(w) PROVE IInv'
<1> USE DEF IInv
<1> DEFINE new == [id |-> NextId, tenant |-> writing[w].tenant, ts |-> writing[w].ts]
<1>1. /\ writing[w] # None /\ inserted < MaxRows
      /\ table' = table \cup {new} /\ inserted' = inserted + 1
      /\ writing' = [writing EXCEPT ![w] = None]
      /\ UNCHANGED <<now, tenants, session, login, walk>>
  BY DEF Insert
<1>2. writing[w] \in [tenant : Tenants, ts : Nat] /\ now <= writing[w].ts + Slow
  BY <1>1 DEF TypeOK, RecordsRecent
<1>3. NextId \in 1..(inserted + 1) /\ \A row \in table : row.id # NextId BY NextIdFresh
<1>4. inserted \in Nat /\ inserted + 1 \in 0..MaxRows
  BY <1>1, SizesAssumption DEF TypeOK
<1>5. new \in Row /\ new.id = NextId /\ new.ts = writing[w].ts
  BY <1>2, <1>3, <1>4 DEF Row
<1> HIDE DEF new
<1>6. StateTyped' BY <1>1, <1>4, <1>5 DEF TypeOK, StateTyped
<1>7. LogKept'
  <2>1. IsFiniteSet(table') BY <1>1, FS_AddElement DEF LogKept
  <2>2. DistinctIds(table') BY <1>1, <1>3, <1>5 DEF LogKept, DistinctIds
  <2>3. \A row \in table' : row.id \in 1..inserted' BY <1>1, <1>3, <1>4, <1>5 DEF LogKept
  <2> QED BY <2>1, <2>2, <2>3 DEF LogKept
<1>8. RecordsRecent' /\ SessionOfLogin' BY <1>1 DEF RecordsRecent, SessionOfLogin, TypeOK
<1>9. WalkTyped' /\ WalkInv'
  <2>1. new \notin walk.start \ table
    <3> SUFFICES ASSUME new \in walk.start \ table PROVE FALSE OBVIOUS
    <3>1. new.ts + Retention < now BY DEF Pruned
    <3>2. new.ts \in Nat /\ now <= new.ts + Slow BY <1>2, <1>5
    <3> QED BY <3>1, <3>2, SizesAssumption, SlowAssumption DEF TypeOK
  <2>2. now' \in Nat /\ now' >= now BY <1>1 DEF TypeOK
  <2> QED BY <1>1, <2>1, <2>2, WalkStays
<1> QED BY <1>6, <1>7, <1>8, <1>9, InvNext

\* The prune takes what is older than the retention.
LEMMA PruneStep == ASSUME IInv, Prune PROVE IInv'
<1> USE DEF IInv
<1>1. /\ table' = {row \in table : ~Before(row.ts, now - Retention)}
      /\ UNCHANGED <<now, tenants, inserted, writing, session, login, walk>>
  BY DEF Prune
<1>2. now \in Nat /\ Retention \in Nat /\ now - Retention \in Int
  BY SizesAssumption DEF TypeOK
<1>3. \A row \in table : row.ts \in Nat /\ (row \notin table' => row.ts + Retention < now)
  BY <1>1, <1>2, BeforeIsLess DEF TypeOK, Row
<1>4. table' \in SUBSET table BY <1>1
<1>5. StateTyped' BY <1>1, <1>4 DEF TypeOK, StateTyped
<1>6. LogKept'
  <2>1. IsFiniteSet(table') BY <1>4, FS_Subset DEF LogKept
  <2> QED BY <1>1, <1>4, <2>1 DEF LogKept, DistinctIds
<1>7. RecordsRecent' /\ SessionOfLogin' BY <1>1 DEF RecordsRecent, SessionOfLogin
<1>8. WalkTyped' /\ WalkInv' BY <1>1, <1>2, <1>3, <1>4, WalkStays
<1> QED BY <1>5, <1>6, <1>7, <1>8, InvNext

\* Logging in, logging out and the login form close the listing.
LEMMA SessionStep == ASSUME IInv, LogIn \/ LogOut \/ SentToLogin PROVE IInv'
<1> USE DEF IInv
<1>1. walk' = NoWalk /\ UNCHANGED <<now, tenants, table, inserted, writing>>
  BY DEF LogIn, LogOut, SentToLogin, log
<1>2. WalkTyped' /\ WalkInv'
  <2>1. (walk = NoWalk => WalkTyped /\ WalkInv)' BY NoWalkInv, PTL
  <2> QED BY <1>1, <2>1
<1>3. LogKept' /\ RecordsRecent' BY <1>1 DEF LogKept, RecordsRecent
<1>4. /\ session' \in [tenant : Tenants \cup {None}, exp : Nat]
      /\ login' \in [tenant : Tenants \cup {None}, at : Nat]
      /\ SessionOfLogin'
  <2>1. CASE LogIn
    <3>1. PICK t \in tenants : /\ session' = [tenant |-> t, exp |-> Expiry]
                               /\ login' = [tenant |-> t, at |-> now]
      BY <2>1 DEF LogIn
    <3>2. Expiry \in Nat /\ Expiry <= now + SESSION_MAX_AGE /\ now \in Nat /\ t \in Tenants
      BY SizesAssumption DEF Expiry, Second, TypeOK
    <3> QED BY <3>1, <3>2 DEF SessionOfLogin
  <2>2. CASE LogOut
    BY <2>2 DEF LogOut, NoSession, SessionOfLogin, TypeOK
  <2>3. CASE SentToLogin
    BY <2>3 DEF SentToLogin, SessionOfLogin, TypeOK
  <2> QED BY <2>1, <2>2, <2>3
<1>5. StateTyped' BY <1>1, <1>4 DEF StateTyped, TypeOK
<1> QED BY <1>2, <1>3, <1>4, <1>5, InvNext

\* A step of the listing, which leaves all else as it is.
LEMMA ListingStep ==
    ASSUME IInv, NextPage \/ \E from, to \in Days \cup {None} : Open(from, to)
    PROVE  IInv'
<1> USE DEF IInv
<1>1. WalkTyped' /\ WalkInv' BY OpenStep, NextPageStep
<1>2. UNCHANGED <<now, tenants, table, inserted, writing, session, login>>
  BY DEF Open, NextPage, log
<1>3. StateTyped' /\ LogKept' /\ RecordsRecent' /\ SessionOfLogin'
  BY <1>2 DEF TypeOK, StateTyped, LogKept, RecordsRecent, SessionOfLogin
<1> QED BY <1>1, <1>3, InvNext

LEMMA StepInv == IInv /\ [Next]_vars => IInv'
<1> SUFFICES ASSUME IInv, [Next]_vars PROVE IInv' OBVIOUS
<1>1. CASE Tick \/ Restart \/ \E w \in Writers : BeginRecord(w) BY <1>1, WorldStep
<1>2. ASSUME NEW w \in Writers, Insert(w) PROVE IInv' BY <1>2, InsertStep
<1>3. CASE Prune BY <1>3, PruneStep
<1>4. CASE LogIn \/ LogOut \/ SentToLogin BY <1>4, SessionStep
<1>5. CASE NextPage \/ \E from, to \in Days \cup {None} : Open(from, to)
  BY <1>5, ListingStep
<1>6. CASE UNCHANGED vars
  <2>1. UNCHANGED <<now, tenants, table, inserted, writing, session, login, walk>>
    BY <1>6 DEF vars, log
  <2>2. WalkTyped' /\ WalkInv' BY <2>1, WalkStays DEF IInv, TypeOK
  <2>3. StateTyped' /\ LogKept' /\ RecordsRecent' /\ SessionOfLogin'
    BY <2>1 DEF IInv, TypeOK, StateTyped, LogKept, RecordsRecent, SessionOfLogin
  <2> QED BY <2>2, <2>3, InvNext
<1> QED BY <1>1, <1>2, <1>3, <1>4, <1>5, <1>6 DEF Next

-----------------------------------------------------------------------------
(* The theorems. *)

\* The invariant in every state of the portal.
THEOREM PortalInvariant == Spec => []IInv
<1>1. Init => IInv BY InitInv
<1>2. IInv /\ [Next]_vars => IInv' BY StepInv
<1> QED BY <1>1, <1>2, PTL DEF Spec

\* The type invariant; a page never has more than PAGE_SIZE rows.
THEOREM TypesHold == Spec => []TypeOK
<1>1. IInv => TypeOK BY DEF IInv
<1> QED BY <1>1, PortalInvariant, PTL

\* Along the Next links no row comes twice or out of order.
THEOREM PagesInOrder == Spec => []PagesDescend
<1>1. IInv => PagesDescend BY DEF IInv
<1> QED BY <1>1, PortalInvariant, PTL

\* Every row shown is of the tenant that logged in, and of the days asked for.
THEOREM OnlyRangeShown == Spec => []ShownInRange
<1>1. IInv => ShownInRange BY DEF IInv
<1> QED BY <1>1, PortalInvariant, PTL

\* A row that the walk found and that is still there is passed over only for one of
\* its timestamp: while rows are inserted late and pruned, and their ids used again.
THEOREM NoRowButTiesSkipped == Spec => []OnlyTiesSkipped
<1>1. IInv => OnlyTiesSkipped
  <2> SUFFICES ASSUME IInv, NEW row \in walk.start \cap table, row.tenant = login.tenant,
                      Wanted(row), walk.next = None \/ row.ts > walk.next
               PROVE  \E shown \in Shown : shown.ts = row.ts /\ shown.id >= row.id
    BY DEF OnlyTiesSkipped
  <2>1. row.ts \in Nat /\ walk.next \in Nat \cup {None} BY DEF IInv, TypeOK, Row
  <2>2. walk.next = None \/ row.ts >= walk.next BY <2>1
  <2> QED BY <2>2 DEF IInv, Covered
<1> QED BY <1>1, PortalInvariant, PTL

\* No session outlives SESSION_MAX_AGE or its tenant's configuration.
THEOREM SessionsEnd == Spec => []SessionBounded
<1>1. IInv => SessionBounded
  <2> SUFFICES ASSUME IInv, Authenticated # None
               PROVE  /\ Authenticated = login.tenant /\ login.tenant \in tenants
                      /\ now < login.at + SESSION_MAX_AGE
    BY DEF SessionBounded
  <2>1. /\ session.exp > now /\ session.tenant \in tenants
        /\ Authenticated = session.tenant /\ session # NoSession
    BY DEF Authenticated, NoSession
  <2>2. session.tenant = login.tenant /\ session.exp <= login.at + SESSION_MAX_AGE
    BY <2>1 DEF IInv, SessionOfLogin
  <2>3. now \in Nat /\ session.exp \in Nat /\ login.at \in Nat /\ SESSION_MAX_AGE \in Nat
    BY SizesAssumption DEF IInv, TypeOK
  <2> QED BY <2>1, <2>2, <2>3
<1> QED BY <1>1, PortalInvariant, PTL
=============================================================================
