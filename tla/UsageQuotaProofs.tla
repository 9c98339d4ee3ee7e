-------------------------- MODULE UsageQuotaProofs --------------------------
(***************************************************************************)
(* Theorems about UsageQuota, for every set of callers, tenants, limits    *)
(* and places in the table, and every window and retention.                *)
(***************************************************************************)
EXTENDS UsageQuota, FiniteSetTheorems, WellFoundedInduction, TLAPS

USE RequestsAssumption, LimitAssumption, SentinelAssumption, RowsAssumption,
    WindowAssumption, NoRowAssumption

-----------------------------------------------------------------------------
(* Counting rows. *)

\* The counted rows are finitely many, so Used is a natural number.
LEMMA CountedFinite ==
    ASSUME NEW t
    PROVE  /\ IsFiniteSet(CountedRows(t)) /\ CountedRows(t) \in SUBSET Rows
           /\ Used(t) \in Nat
BY FS_Subset, FS_CardinalityType DEF CountedRows, Used

\* A non-empty set of naturals has a least element.
LEMMA LeastNatural ==
    ASSUME NEW T, T \subseteq Nat, T # {}
    PROVE  \E x \in T : \A y \in T : x <= y
<1> DEFINE R == {ss \in Nat \X Nat : ss[1] < ss[2]}
<1>1. IsWellFoundedOn(R, Nat) BY NatLessThanWellFounded DEF OpToRel
<1>2. PICK x \in T : \A y \in T : <<y, x>> \notin R
  <2> HIDE DEF R
  <2> QED BY <1>1, WFMin
<1>3. \A y \in T : ~(y < x) BY <1>2
<1> QED BY <1>3

\* reset_at is when the oldest counted row leaves the window.
LEMMA ResetInOldest ==
    ASSUME TypeOK, NEW t, CountedRows(t) # {}
    PROVE  /\ ResetIn(t) \in 1..Window
           /\ \E i \in CountedRows(t) : table[i].age + ResetIn(t) = Window
<1> DEFINE left == {Window - table[i].age : i \in CountedRows(t)}
<1>1. \A i \in CountedRows(t) : /\ table[i] \in Row /\ table[i].age \in Nat
                                /\ table[i].age < Window
  <2> SUFFICES ASSUME NEW i \in CountedRows(t)
               PROVE  table[i] \in Row /\ table[i].age \in Nat /\ table[i].age < Window
    OBVIOUS
  <2>1. i \in Rows /\ table[i] # NoRow /\ table[i].age < Window BY DEF CountedRows
  <2>2. table[i] \in Row BY <2>1 DEF TypeOK
  <2> QED BY <2>1, <2>2 DEF Row
<1>2. left \subseteq Nat /\ left # {} BY <1>1
<1>3. PICK x \in left : \A y \in left : x <= y
  <2> HIDE DEF left
  <2> QED BY <1>2, LeastNatural
<1>4. PICK i \in CountedRows(t) : x = Window - table[i].age BY <1>3
<1>5. \A j \in CountedRows(t) : table[j].age <= table[i].age
  <2> SUFFICES ASSUME NEW j \in CountedRows(t)
               PROVE  table[j].age <= table[i].age
    OBVIOUS
  <2>1. Window - table[j].age \in left OBVIOUS
  <2>2. x <= Window - table[j].age BY <1>3, <2>1
  <2> QED BY <1>1, <1>4, <2>2
<1> DEFINE oldest == CHOOSE k \in CountedRows(t) :
                         \A j \in CountedRows(t) : table[j].age <= table[k].age
<1>6. oldest \in CountedRows(t) BY <1>5
<1>7. ResetIn(t) = Window - table[oldest].age BY DEF ResetIn
<1> HIDE DEF oldest
<1> QED BY <1>1, <1>6, <1>7

\* A lookup recorded as counted is one more use of its tenant.
LEMMA InsertCounts ==
    ASSUME TypeOK, NEW t \in Tenants, Insert(t, "ok", FALSE)
    PROVE  /\ Used(t)' = Used(t) + 1
           /\ \A u \in Tenants \ {t} : Used(u)' = Used(u)
<1> PICK i \in Rows :
       /\ table[i] = NoRow
       /\ table' = [table EXCEPT ![i] = [tenant |-> t, age |-> 0,
                                         outcome |-> "ok", cached |-> FALSE]]
  BY DEF Insert
<1>1. /\ table'[i] = [tenant |-> t, age |-> 0, outcome |-> "ok", cached |-> FALSE]
      /\ \A j \in Rows \ {i} : table'[j] = table[j]
  BY DEF TypeOK
<1>2. table'[i] # NoRow
  <2>1. [tenant |-> t, age |-> 0, outcome |-> "ok", cached |-> FALSE] \in Row
    BY DEF Row, Outcomes
  <2> QED BY <1>1, <2>1
<1>3. i \notin CountedRows(t) BY DEF CountedRows
<1>4. CountedRows(t)' = CountedRows(t) \cup {i}
  <2>1. \A j \in Rows \ {i} : j \in CountedRows(t)' <=> j \in CountedRows(t)
    BY <1>1 DEF CountedRows
  <2>2. /\ table'[i].tenant = t /\ table'[i].age = 0
        /\ table'[i].outcome = "ok" /\ table'[i].cached = FALSE
    BY <1>1
  <2>3. i \in CountedRows(t)' BY <1>2, <2>2 DEF CountedRows, Uncounted
  <2> QED BY <2>1, <2>3 DEF CountedRows
<1>5. \A u \in Tenants \ {t} : CountedRows(u)' = CountedRows(u)
  BY <1>1 DEF CountedRows
<1> QED BY <1>3, <1>4, <1>5, CountedFinite, FS_AddElement DEF Used

\* A cache hit or a captcha failure is none.
LEMMA InsertUncounted ==
    ASSUME TypeOK, NEW t, NEW outcome, NEW cached, Insert(t, outcome, cached),
           cached = TRUE \/ outcome \in Uncounted
    PROVE  \A u : CountedRows(u)' = CountedRows(u)
<1> PICK i \in Rows :
       /\ table[i] = NoRow
       /\ table' = [table EXCEPT ![i] = [tenant |-> t, age |-> 0,
                                         outcome |-> outcome, cached |-> cached]]
  BY DEF Insert
<1>1. /\ table'[i] = [tenant |-> t, age |-> 0, outcome |-> outcome, cached |-> cached]
      /\ \A j \in Rows \ {i} : table'[j] = table[j]
  BY DEF TypeOK
<1>2. table'[i].cached = cached /\ table'[i].outcome = outcome BY <1>1
<1> QED BY <1>1, <1>2 DEF CountedRows

\* The prune deletes nothing that counts.
LEMMA PruneCounts ==
    ASSUME TypeOK, Prune
    PROVE  \A u : CountedRows(u)' = CountedRows(u)
<1>1. \A i \in Rows : table'[i] = table[i] \/ (/\ table'[i] = NoRow
                                               /\ table[i] # NoRow
                                               /\ table[i].age > Retention)
  BY DEF Prune, PastRetention
<1>2. \A i \in Rows : table[i] # NoRow => table[i].age \in Nat
  BY DEF TypeOK, Row
<1>3. \A i \in Rows : \A u : i \in CountedRows(u)' <=> i \in CountedRows(u)
  BY <1>1, <1>2 DEF CountedRows
<1> QED BY <1>3 DEF CountedRows

\* Time only takes rows out of the window.
LEMMA TickCounts ==
    ASSUME TypeOK, Tick
    PROVE  /\ \A i \in Rows : table[i] # NoRow =>
                 /\ table'[i] # NoRow
                 /\ table'[i].tenant = table[i].tenant
                 /\ table'[i].outcome = table[i].outcome
                 /\ table'[i].cached = table[i].cached
                 /\ table[i].age \in Nat
                 /\ table[i].age < Oldest => table'[i].age = table[i].age + 1
                 /\ table[i].age >= Oldest => table'[i].age = table[i].age
           /\ \A u : CountedRows(u)' \subseteq CountedRows(u)
<1>1. ASSUME NEW i \in Rows, table[i] # NoRow
      PROVE  /\ table'[i] # NoRow
             /\ table'[i].tenant = table[i].tenant
             /\ table'[i].outcome = table[i].outcome
             /\ table'[i].cached = table[i].cached
             /\ table[i].age \in Nat
             /\ table[i].age < Oldest => table'[i].age = table[i].age + 1
             /\ table[i].age >= Oldest => table'[i].age = table[i].age
  <2>1. table[i] \in Row BY <1>1 DEF TypeOK
  <2>2. table[i].age \in 0..Oldest BY <2>1 DEF Row
  <2>3. CASE table[i].age < Oldest
    <3>1. table'[i] = [table[i] EXCEPT !.age = @ + 1] BY <1>1, <2>3 DEF Tick
    <3>2. table'[i] \in Row BY <2>1, <2>2, <2>3, <3>1 DEF Row
    <3> QED BY <2>1, <2>2, <2>3, <3>1, <3>2 DEF Row
  <2>4. CASE ~(table[i].age < Oldest)
    <3>1. table'[i] = table[i] BY <1>1, <2>4 DEF Tick
    <3> QED BY <1>1, <2>2, <2>4, <3>1
  <2> QED BY <2>3, <2>4
<1>2. \A i \in Rows : table[i] = NoRow => table'[i] = NoRow BY DEF Tick
<1>3. ASSUME NEW u, NEW i \in CountedRows(u)' PROVE i \in CountedRows(u)
  <2>1. i \in Rows /\ table[i] # NoRow BY <1>2 DEF CountedRows
  <2> QED BY <1>1, <2>1 DEF CountedRows
<1> QED BY <1>1, <1>3
-----------------------------------------------------------------------------
(* Types. *)

\* An inserted row is well formed and the table stays well typed.
LEMMA InsertType ==
    ASSUME TypeOK, NEW t \in Tenants, NEW outcome \in Outcomes, NEW cached \in BOOLEAN,
           Insert(t, outcome, cached)
    PROVE  table' \in [Rows -> Row \cup {NoRow}]
<1>1. [tenant |-> t, age |-> 0, outcome |-> outcome, cached |-> cached] \in Row
  BY DEF Row
<1> QED BY <1>1 DEF Insert, TypeOK

\* What summary() computes is a Quota: a natural remainder and a reset within the
\* window.
LEMMA AskedType ==
    ASSUME TypeOK, NEW t \in Tenants, Limited(t)
    PROVE  [remaining |-> Remaining(t), resetIn |-> ResetIn(t)] \in Quota
<1>1. LimitOf[t] \in Nat BY DEF Limited
<1>2. Remaining(t) \in Nat BY <1>1, CountedFinite DEF Remaining
<1>3. ResetIn(t) \in 0..Window
  <2>1. CASE CountedRows(t) = {} BY <2>1 DEF ResetIn
  <2>2. CASE CountedRows(t) # {} BY <2>2, ResetInOldest
  <2> QED BY <2>1, <2>2
<1> QED BY <1>2, <1>3 DEF Quota

\* Every step keeps the types.
LEMMA TypeStep == TypeOK /\ [Next]_vars => TypeOK'
<1> SUFFICES ASSUME TypeOK, [Next]_vars PROVE TypeOK'
  OBVIOUS
<1>1. CASE UNCHANGED vars
  BY <1>1 DEF TypeOK, vars
<1>2. CASE Tick
  <2>1. table' \in [Rows -> Row \cup {NoRow}]
    <3> SUFFICES ASSUME NEW i \in Rows, table[i] # NoRow, table[i].age < Oldest
                 PROVE  [table[i] EXCEPT !.age = @ + 1] \in Row
      BY <1>2 DEF Tick, TypeOK
    <3>1. table[i] \in Row BY DEF TypeOK
    <3> QED BY <3>1 DEF Row
  <2>2. seen' \in [Requests -> Quota]
    <3> SUFFICES ASSUME NEW r \in Requests
                 PROVE  [seen[r] EXCEPT !.resetIn = Less(@)] \in Quota
      BY <1>2 DEF Tick
    <3>1. seen[r] \in Quota BY DEF TypeOK
    <3> QED BY <3>1 DEF Quota, Less
  <2>3. promise' \in [Tenants -> 0..Window \cup {NoPromise}]
    BY <1>2 DEF Tick, Less, TypeOK
  <2> QED BY <1>2, <2>1, <2>2, <2>3 DEF Tick, TypeOK
<1>3. CASE Prune
  BY <1>3 DEF Prune, TypeOK
<1>4. ASSUME NEW r \in Requests, RecordHit(r) PROVE TypeOK'
  <2>1. table' \in [Rows -> Row \cup {NoRow}]
    BY <1>4, InsertType DEF RecordHit, Outcomes
  <2> QED BY <1>4, <2>1 DEF RecordHit, TypeOK
<1>5. ASSUME NEW r \in Requests, BeginUnlimited(r) \/ RecordFails(r) PROVE TypeOK'
  BY <1>5 DEF BeginUnlimited, RecordFails, TypeOK
<1>6. ASSUME NEW r \in Requests, Ask(r) PROVE TypeOK'
  <2>1. seen' \in [Requests -> Quota] BY <1>6, AskedType DEF Ask, TypeOK
  <2> QED BY <1>6, <2>1 DEF Ask, TypeOK
<1>7. NothingSeen \in Quota BY DEF NothingSeen, Quota
<1>8. ASSUME NEW r \in Requests, Refuse(r) PROVE TypeOK'
  <2>1. seen[r] \in Quota BY DEF TypeOK
  <2>2. (IF seen[r].resetIn > 1 THEN seen[r].resetIn ELSE 1) \in 0..Window
    BY <2>1 DEF Quota
  <2>3. promise' \in [Tenants -> 0..Window \cup {NoPromise}]
    BY <1>8, <2>2 DEF Refuse, TypeOK
  <2> QED BY <1>7, <1>8, <2>3 DEF Refuse, Forget, TypeOK
<1>9. ASSUME NEW r \in Requests, TurnAway(r) \/ Begin(r) PROVE TypeOK'
  BY <1>7, <1>9 DEF TurnAway, Begin, Forget, TypeOK
<1>10. ASSUME NEW r \in Requests, NEW outcome \in Outcomes, Record(r, outcome)
       PROVE  TypeOK'
  <2>1. table' \in [Rows -> Row \cup {NoRow}] BY <1>10, InsertType DEF Record
  <2>2. promise' \in [Tenants -> 0..Window \cup {NoPromise}]
    BY <1>10 DEF Record, TypeOK
  <2> QED BY <1>10, <2>1, <2>2 DEF Record, TypeOK
<1> QED
  BY <1>1, <1>2, <1>3, <1>4, <1>5, <1>6, <1>8, <1>9, <1>10 DEF Next

\* The log, the requests and what the tenants were told keep their types; a
\* Retry-After is never longer than the window.
THEOREM TypeCorrect == Spec => []TypeOK
<1>1. Init => TypeOK BY DEF Init, TypeOK, NothingSeen, Quota
<1> QED BY <1>1, TypeStep, PTL DEF Spec

-----------------------------------------------------------------------------
(* The quota. *)

\* The requests that have passed are some of the tenant's callers.
LEMMA PassedFinite ==
    ASSUME NEW t
    PROVE  /\ IsFiniteSet(CallersOf(t)) /\ Cardinality(CallersOf(t)) \in Nat
           /\ IsFiniteSet(Passed(t)) /\ Cardinality(Passed(t)) \in Nat
           /\ Passed(t) \subseteq CallersOf(t)
           /\ Cardinality(Passed(t)) <= Cardinality(CallersOf(t))
<1>1. IsFiniteSet(CallersOf(t)) BY FS_Subset DEF CallersOf
<1>2. Passed(t) \in SUBSET CallersOf(t) BY DEF Passed
<1> QED BY <1>1, <1>2, FS_Subset, FS_CardinalityType

\* What a step can do to the quota of tenant t: nothing but give use back or let
\* requests go, turn one that has passed into a use, or let one more pass.
Eases(t) ==
    /\ Used(t)' <= Used(t)
    /\ Passed(t)' \subseteq Passed(t)
Charges(t) ==
    /\ Used(t)' = Used(t) + 1
    /\ \E r \in Passed(t) : Passed(t)' = Passed(t) \ {r}
Passes(t) ==
    /\ Used(t)' = Used(t)
    /\ Used(t) < LimitOf[t]
    /\ \E r \in CallersOf(t) \ Passed(t) : Passed(t)' = Passed(t) \cup {r}

\* A step that leaves the counted rows alone and lets nobody pass eases.
LEMMA EasesWhen ==
    ASSUME NEW t, CountedRows(t)' \subseteq CountedRows(t),
           Passed(t)' \subseteq Passed(t)
    PROVE  Eases(t)
BY CountedFinite, FS_Subset DEF Eases, Used

\* Every step eases the quota of t, or charges it one row for a request that was
\* past the check, or lets one more request past it, which takes quota left over.
LEMMA QuotaStep ==
    ASSUME TypeOK, [Next]_vars, NEW t \in Tenants, Limited(t)
    PROVE  \/ Eases(t)
           \/ Charges(t) /\ promise'[t] = NoPromise
           \/ Passes(t) /\ UNCHANGED <<table, promise>>
<1>1. CASE UNCHANGED vars
  BY <1>1, EasesWhen DEF vars, CountedRows, Passed
<1>2. CASE Tick
  <2>1. CountedRows(t)' \subseteq CountedRows(t) BY <1>2, TickCounts
  <2>2. \A r \in Requests : seen'[r].remaining = seen[r].remaining
    BY <1>2 DEF Tick, TypeOK, Quota
  <2>3. Passed(t)' \subseteq Passed(t) BY <1>2, <2>2 DEF Tick, Passed, CallersOf
  <2> QED BY <2>1, <2>3, EasesWhen
<1>3. CASE Prune
  <2>1. Passed(t)' = Passed(t) BY <1>3 DEF Prune, Passed
  <2> QED BY <1>3, <2>1, PruneCounts, EasesWhen
<1>4. ASSUME NEW r \in Requests, RecordHit(r) PROVE Eases(t)
  <2>1. CountedRows(t)' = CountedRows(t)
    BY <1>4, InsertUncounted DEF RecordHit
  <2>2. Passed(t)' = Passed(t) BY <1>4 DEF RecordHit, Passed
  <2> QED BY <2>1, <2>2, EasesWhen
<1>5. ASSUME NEW r \in Requests, BeginUnlimited(r) PROVE Eases(t)
  <2>1. CountedRows(t)' = CountedRows(t) BY <1>5 DEF BeginUnlimited, CountedRows
  <2>2. TenantOf[r] # t BY <1>5 DEF BeginUnlimited
  <2>3. Passed(t)' \subseteq Passed(t)
    BY <1>5, <2>2 DEF BeginUnlimited, Passed, CallersOf, TypeOK
  <2> QED BY <2>1, <2>3, EasesWhen
<1>6. ASSUME NEW r \in Requests, Ask(r)
      PROVE  Eases(t) \/ (Passes(t) /\ UNCHANGED <<table, promise>>)
  <2>1. /\ CountedRows(t)' = CountedRows(t) /\ Used(t)' = Used(t)
        /\ UNCHANGED <<table, promise>>
    BY <1>6 DEF Ask, CountedRows, Used
  <2>2. /\ phase[r] = "idle" /\ phase'[r] = "asked"
        /\ seen'[r] = [remaining |-> Remaining(TenantOf[r]),
                        resetIn |-> ResetIn(TenantOf[r])]
        /\ \A p \in Requests \ {r} : phase'[p] = phase[p] /\ seen'[p] = seen[p]
    BY <1>6 DEF Ask, TypeOK
  <2>3. seen'[r].remaining = Remaining(TenantOf[r]) BY <2>2
  <2>4. CASE TenantOf[r] = t /\ Remaining(t) > 0
    <3>1. Used(t) < LimitOf[t] BY <2>4, CountedFinite DEF Remaining
    <3>2. r \in CallersOf(t) \ Passed(t) BY <2>2, <2>4 DEF CallersOf, Passed
    <3>3. Passed(t)' = Passed(t) \cup {r}
      BY <2>2, <2>3, <2>4 DEF Passed, CallersOf
    <3> QED BY <2>1, <3>1, <3>2, <3>3 DEF Passes
  <2>5. CASE ~(TenantOf[r] = t /\ Remaining(t) > 0)
    <3>1. Passed(t)' \subseteq Passed(t) BY <2>2, <2>3, <2>5 DEF Passed, CallersOf
    <3> QED BY <2>1, <3>1, EasesWhen
  <2> QED BY <2>4, <2>5
<1>7. ASSUME NEW r \in Requests, Refuse(r) \/ TurnAway(r) \/ Begin(r) \/ RecordFails(r)
      PROVE  Eases(t)
  <2>1. CountedRows(t)' = CountedRows(t)
    BY <1>7 DEF Refuse, TurnAway, Begin, RecordFails, CountedRows
  <2>2. /\ \A p \in Requests \ {r} : phase'[p] = phase[p] /\ seen'[p] = seen[p]
        /\ \/ phase'[r] = "idle"
           \/ phase'[r] = "looking" /\ phase[r] = "asked" /\ seen[r].remaining > 0
    BY <1>7 DEF Refuse, TurnAway, Begin, RecordFails, Forget, Allows, TypeOK
  <2>3. Passed(t)' \subseteq Passed(t) BY <2>2 DEF Passed, CallersOf
  <2> QED BY <2>1, <2>3, EasesWhen
<1>8. ASSUME NEW r \in Requests, NEW outcome \in Outcomes, Record(r, outcome)
      PROVE  Eases(t) \/ (Charges(t) /\ promise'[t] = NoPromise)
  <2>1. /\ phase[r] = "looking" /\ phase'[r] = "idle" /\ UNCHANGED seen
        /\ \A p \in Requests \ {r} : phase'[p] = phase[p]
    BY <1>8 DEF Record, TypeOK
  <2>2. Passed(t)' = Passed(t) \ {r} BY <2>1 DEF Passed, CallersOf
  <2>3. CASE outcome \in Uncounted
    <3>1. CountedRows(t)' = CountedRows(t)
      BY <1>8, <2>3, InsertUncounted DEF Record
    <3> QED BY <2>2, <3>1, EasesWhen
  <2>4. CASE outcome \notin Uncounted
    <3>1. Insert(TenantOf[r], "ok", FALSE) /\ TenantOf[r] \in Tenants
      BY <1>8, <2>4 DEF Record, Outcomes, Uncounted
    <3>2. CASE TenantOf[r] = t
      <4>1. Used(t)' = Used(t) + 1 BY <3>1, <3>2, InsertCounts
      <4>2. r \in Passed(t) BY <2>1, <3>2 DEF Passed, CallersOf
      <4>3. promise'[t] = NoPromise BY <1>8, <2>4, <3>2 DEF Record, TypeOK
      <4> QED BY <2>2, <4>1, <4>2, <4>3 DEF Charges
    <3>3. CASE TenantOf[r] # t
      <4>1. Used(t)' = Used(t) BY <3>1, <3>3, InsertCounts
      <4> QED BY <2>2, <4>1, CountedFinite DEF Eases
    <3> QED BY <3>2, <3>3
  <2> QED BY <2>3, <2>4
<1> QED
  BY <1>1, <1>2, <1>3, <1>4, <1>5, <1>6, <1>7, <1>8 DEF Next
\* The use of a tenant with the requests that have passed is at most `bound`.
Within(t, bound) == Used(t) + Cardinality(Passed(t)) <= bound

\* Easing and charging keep it within any bound; letting one pass keeps it within
\* what the callers can add to one free lookup.
LEMMA WithinKept ==
    ASSUME NEW t, NEW bound \in Int, Within(t, bound), Eases(t) \/ Charges(t)
    PROVE  Within(t, bound)'
<1>1. Used(t) \in Nat /\ Used(t)' \in Nat
  <2>1. Used(t) \in Nat BY CountedFinite
  <2>2. IsFiniteSet(CountedRows(t)') BY FS_Subset DEF CountedRows
  <2> QED BY <2>1, <2>2, FS_CardinalityType DEF Used
<1>2. IsFiniteSet(Passed(t)) /\ Cardinality(Passed(t)) \in Nat BY PassedFinite
<1>3. CASE Eases(t)
  <2>1. Passed(t)' \in SUBSET Passed(t) BY <1>3 DEF Eases
  <2>2. /\ IsFiniteSet(Passed(t)')
        /\ Cardinality(Passed(t)') <= Cardinality(Passed(t))
    BY <1>2, <2>1, FS_Subset
  <2>3. Cardinality(Passed(t)') \in Nat BY <2>2, FS_CardinalityType
  <2>4. Used(t)' <= Used(t) BY <1>3 DEF Eases
  <2> QED BY <1>1, <1>2, <2>2, <2>3, <2>4 DEF Within
<1>4. CASE Charges(t)
  <2>1. PICK r \in Passed(t) : Passed(t)' = Passed(t) \ {r} BY <1>4 DEF Charges
  <2>2. Cardinality(Passed(t) \ {r}) = Cardinality(Passed(t)) - 1
    BY <1>2, FS_RemoveElement
  <2>3. Cardinality(Passed(t)') = Cardinality(Passed(t)) - 1 BY <2>1, <2>2
  <2>4. Used(t)' = Used(t) + 1 BY <1>4 DEF Charges
  <2> QED BY <1>1, <1>2, <2>3, <2>4 DEF Within
<1> QED BY <1>3, <1>4

\* A request passes the check only with quota left, and then the bound holds even if
\* every caller has passed it.
LEMMA WithinPassed ==
    ASSUME NEW t, LimitOf[t] \in Nat, Passes(t)
    PROVE  Within(t, LimitOf[t] - 1 + Cardinality(CallersOf(t)))'
<1>1. PICK r \in CallersOf(t) \ Passed(t) : Passed(t)' = Passed(t) \cup {r}
  BY DEF Passes
<1>2. IsFiniteSet(CallersOf(t)) /\ Passed(t)' \in SUBSET CallersOf(t)
  BY <1>1, PassedFinite
<1>3. /\ Cardinality(Passed(t)') <= Cardinality(CallersOf(t))
      /\ Cardinality(Passed(t)') \in Nat /\ Cardinality(CallersOf(t)) \in Nat
  BY <1>2, FS_Subset, FS_CardinalityType
<1>4. Used(t) \in Nat BY CountedFinite
<1>5. CallersOf(t)' = CallersOf(t) BY DEF CallersOf
<1> QED BY <1>3, <1>4, <1>5 DEF Within, Passes

\* Every step keeps the overshoot bounded, tenant by tenant.
LEMMA OvershootStep ==
    ASSUME TypeOK, OvershootBounded, [Next]_vars
    PROVE  OvershootBounded'
<1> SUFFICES ASSUME NEW t \in Tenants, Limited(t), CallersOf(t) # {}
             PROVE  Within(t, LimitOf[t] - 1 + Cardinality(CallersOf(t)))'
  BY DEF OvershootBounded, Within, Limited, CallersOf
<1> DEFINE bound == LimitOf[t] - 1 + Cardinality(CallersOf(t))
<1>1. LimitOf[t] \in Nat BY DEF Limited
<1>2. bound \in Int BY <1>1, PassedFinite
<1>3. Within(t, bound) BY DEF OvershootBounded, Within
<1>4. CASE Eases(t) \/ Charges(t)
  <2>1. Within(t, bound)'
    <3>1. bound' = bound BY DEF CallersOf
    <3> HIDE DEF bound
    <3> QED BY <1>2, <1>3, <1>4, <3>1, WithinKept DEF Within
  <2> QED BY <2>1
<1>5. CASE Passes(t)
  BY <1>1, <1>5, WithinPassed
<1> QED BY <1>4, <1>5, QuotaStep

\* The check before a lookup and the record after it let a tenant over its quota by
\* at most the requests it runs beside one another, whatever their order.
THEOREM QuotaOvershoot == Spec => []OvershootBounded
<1>1. Init => OvershootBounded
  <2> SUFFICES ASSUME Init, NEW t \in Tenants, Limited(t), CallersOf(t) # {}
               PROVE  Used(t) + Cardinality(Passed(t))
                        <= LimitOf[t] - 1 + Cardinality(CallersOf(t))
    BY DEF OvershootBounded
  <2>1. CountedRows(t) = {} /\ Passed(t) = {}
    BY DEF Init, CountedRows, Passed, CallersOf
  <2>2. LimitOf[t] \in Nat \ {0} BY DEF Limited
  <2>3. Cardinality(CallersOf(t)) \in Nat BY PassedFinite
  <2> QED BY <2>1, <2>2, <2>3, FS_EmptySet DEF Used
<1> QED BY <1>1, OvershootStep, TypeCorrect, PTL DEF Spec

\* No other step touches a row that the window may still cover.
LEMMA RowsKept ==
    ASSUME TypeOK, Next, ~Tick
    PROVE  /\ \A i \in Rows : table[i] # NoRow /\ table[i].age <= Retention
                               => table'[i] = table[i]
           /\ \A u : CountedRows(u) \subseteq CountedRows(u)'
<1>1. \A i \in Rows : table[i] # NoRow => table[i].age \in Nat
  BY DEF TypeOK, Row
<1>2. \A i \in Rows : table[i] # NoRow /\ table[i].age <= Retention
                         => table'[i] = table[i]
  <2>1. ASSUME NEW u, NEW outcome, NEW cached, Insert(u, outcome, cached)
        PROVE  \A i \in Rows : table[i] # NoRow => table'[i] = table[i]
    BY <2>1 DEF Insert, TypeOK
  <2>2. CASE Prune BY <1>1, <2>2 DEF Prune, PastRetention
  <2>3. ASSUME NEW r \in Requests, RecordHit(r)
        PROVE  \A i \in Rows : table[i] # NoRow => table'[i] = table[i]
    BY <2>1, <2>3 DEF RecordHit
  <2>4. ASSUME NEW r \in Requests, NEW outcome \in Outcomes, Record(r, outcome)
        PROVE  \A i \in Rows : table[i] # NoRow => table'[i] = table[i]
    BY <2>1, <2>4 DEF Record
  <2>5. ASSUME NEW r \in Requests,
               BeginUnlimited(r) \/ Ask(r) \/ Refuse(r) \/ TurnAway(r) \/ Begin(r)
                 \/ RecordFails(r)
        PROVE  UNCHANGED table
    BY <2>5 DEF BeginUnlimited, Ask, Refuse, TurnAway, Begin, RecordFails
  <2> QED BY <2>2, <2>3, <2>4, <2>5 DEF Next
<1> QED BY <1>1, <1>2 DEF CountedRows

\* Nothing but the passing of time lowers what a tenant has used: not the prune,
\* whose retention of whole days never cuts into the window.
THEOREM TimeRefunds == Spec => OnlyTimeRefunds
<1>1. TypeOK /\ [Next]_vars => [\A t \in Tenants : Used(t)' < Used(t) => Tick]_vars
  <2> SUFFICES ASSUME TypeOK, Next, NEW t \in Tenants, ~Tick
               PROVE  ~(Used(t)' < Used(t))
    OBVIOUS
  <2>1. CountedRows(t) \in SUBSET CountedRows(t)' BY RowsKept
  <2>2. IsFiniteSet(CountedRows(t)') BY FS_Subset DEF CountedRows
  <2>3. Used(t) <= Used(t)' /\ Used(t) \in Nat /\ Used(t)' \in Nat
    BY <2>1, <2>2, FS_Subset, FS_CardinalityType DEF Used
  <2> QED BY <2>3
<1> QED BY <1>1, TypeCorrect, PTL DEF Spec, OnlyTimeRefunds

-----------------------------------------------------------------------------
(* The Retry-After of a refusal. *)

\* The overshoot of t has shrunk below its worst.
Slack(t) == LimitOf[t] - 2 + Cardinality(CallersOf(t))

\* Some counted row leaves the window within k ticks.
LeavesWithin(t, k) == \E i \in CountedRows(t) : table[i].age + k >= Window

\* ResetFreesQuota says what is so when the wait is over; this is what is so during
\* it.  A request that has read an exhausted quota, but not raised yet, may see
\* others pass meanwhile: their uses are bounded together with it, which itself
\* has not passed.
ResetInv ==
    /\ \A r \in Requests :
        phase[r] = "asked" =>
            /\ Limited(TenantOf[r])
            /\ seen[r].remaining = 0 =>
                 \/ Within(TenantOf[r], Slack(TenantOf[r]))
                 \/ LeavesWithin(TenantOf[r], seen[r].resetIn)
    /\ \A t \in Tenants :
        promise[t] # NoPromise =>
            /\ Limited(t) /\ CallersOf(t) # {}
            /\ Used(t) <= Slack(t) \/ LeavesWithin(t, promise[t])

\* A tick brings the row closer to the window's edge, or over it.
LEMMA LeavesTick ==
    ASSUME TypeOK, OvershootBounded, Tick, NEW t \in Tenants, Limited(t),
           CallersOf(t) # {}, NEW k \in 0..Window, LeavesWithin(t, k), Eases(t)
    PROVE  \/ \E i \in CountedRows(t)' : table'[i].age + Less(k) >= Window
           \/ Within(t, Slack(t))'
<1>1. PICK i \in CountedRows(t) : table[i].age + k >= Window BY DEF LeavesWithin
<1>2. /\ i \in Rows /\ table[i] # NoRow /\ table[i].age < Window
      /\ table[i].age \in Nat
  BY TickCounts DEF CountedRows
<1>3. table'[i].age = table[i].age + 1 /\ Less(k) = k - 1
  BY <1>1, <1>2, TickCounts DEF Less
<1>4. CASE table[i].age + 1 < Window
  <2>1. i \in CountedRows(t)' BY <1>2, <1>3, <1>4, TickCounts DEF CountedRows
  <2> QED BY <1>1, <1>2, <1>3, <2>1
<1>5. CASE ~(table[i].age + 1 < Window)
  <2>1. i \notin CountedRows(t)' BY <1>2, <1>3, <1>5 DEF CountedRows
  <2>2. CountedRows(t)' \in SUBSET (CountedRows(t) \ {i}) BY <2>1, TickCounts
  <2>3. Used(t)' <= Used(t) - 1 /\ Used(t)' \in Nat /\ Used(t) \in Nat
    <3>1. /\ IsFiniteSet(CountedRows(t) \ {i})
          /\ Cardinality(CountedRows(t) \ {i}) = Used(t) - 1
      BY <1>1, CountedFinite, FS_RemoveElement DEF Used
    <3> QED BY <2>2, <3>1, CountedFinite, FS_Subset, FS_CardinalityType DEF Used
  <2>4. /\ Cardinality(Passed(t)') <= Cardinality(Passed(t))
        /\ Cardinality(Passed(t)') \in Nat /\ Cardinality(Passed(t)) \in Nat
    BY PassedFinite, FS_Subset, FS_CardinalityType DEF Eases
  <2>5. Used(t) + Cardinality(Passed(t)) <= LimitOf[t] - 1 + Cardinality(CallersOf(t))
    BY DEF OvershootBounded
  <2>6. LimitOf[t] \in Nat /\ Cardinality(CallersOf(t)) \in Nat
    BY PassedFinite DEF Limited
  <2>7. Slack(t)' = Slack(t) BY DEF Slack, CallersOf
  <2> QED BY <2>3, <2>4, <2>5, <2>6, <2>7 DEF Within, Slack
<1> QED BY <1>4, <1>5

\* Any other step leaves the row where it is.
LEMMA LeavesKept ==
    ASSUME TypeOK, Next, ~Tick, NEW t, NEW k, LeavesWithin(t, k)
    PROVE  \E i \in CountedRows(t)' : table'[i].age + k >= Window
<1>1. PICK i \in CountedRows(t) : table[i].age + k >= Window BY DEF LeavesWithin
<1>2. i \in Rows /\ table[i] # NoRow /\ table[i].age < Window BY DEF CountedRows
<1>3. table[i].age \in Nat BY <1>2 DEF TypeOK, Row
<1>4. table[i].age <= Retention BY <1>2, <1>3
<1>5. table'[i] = table[i] /\ i \in CountedRows(t)' BY <1>2, <1>4, RowsKept
<1> QED BY <1>1, <1>5

\* Requests that pass while r is refused leave room for r.
LEMMA SlackPassed ==
    ASSUME NEW r \in Requests, LimitOf[TenantOf[r]] \in Nat, Passes(TenantOf[r]),
           r \notin Passed(TenantOf[r])'
    PROVE  Within(TenantOf[r], Slack(TenantOf[r]))'
<1> DEFINE t == TenantOf[r]
<1>1. Passed(t)' \in SUBSET (CallersOf(t) \ {r})
  BY PassedFinite DEF Passes
<1>2. /\ IsFiniteSet(CallersOf(t) \ {r}) /\ Cardinality(CallersOf(t)) \in Nat
      /\ Cardinality(CallersOf(t) \ {r}) = Cardinality(CallersOf(t)) - 1
  BY PassedFinite, FS_RemoveElement DEF CallersOf
<1>3. /\ Cardinality(Passed(t)') <= Cardinality(CallersOf(t)) - 1
      /\ Cardinality(Passed(t)') \in Nat
  BY <1>1, <1>2, FS_Subset, FS_CardinalityType
<1>4. Used(t)' < LimitOf[t] /\ Used(t)' \in Nat
  BY CountedFinite DEF Passes
<1>5. Slack(t)' = Slack(t) BY DEF Slack, CallersOf
<1> QED BY <1>2, <1>3, <1>4, <1>5 DEF Within, Slack
\* The two parts of ResetInv, for one request and for one tenant.
AskedOK(r) ==
    phase[r] = "asked" =>
        /\ Limited(TenantOf[r])
        /\ seen[r].remaining = 0 =>
             \/ Within(TenantOf[r], Slack(TenantOf[r]))
             \/ LeavesWithin(TenantOf[r], seen[r].resetIn)
PromiseOK(t) ==
    promise[t] # NoPromise =>
        /\ Limited(t) /\ CallersOf(t) # {}
        /\ Used(t) <= Slack(t) \/ LeavesWithin(t, promise[t])

\* The room left under the overshoot bound is an integer.
LEMMA SlackType ==
    ASSUME NEW t \in Tenants, Limited(t)
    PROVE  /\ LimitOf[t] \in Nat /\ LimitOf[t] # 0
           /\ Slack(t) \in Int /\ Slack(t)' = Slack(t)
<1>1. LimitOf[t] \in Nat /\ LimitOf[t] # 0 BY DEF Limited
<1>2. Slack(t) \in Int BY <1>1, PassedFinite DEF Slack
<1>3. Slack(t)' = Slack(t) BY DEF Slack, CallersOf
<1> QED BY <1>1, <1>2, <1>3

\* A request that was refused and goes on to wait for its task.
LEMMA AskedKept ==
    ASSUME TypeOK, OvershootBounded, Next, NEW r \in Requests, AskedOK(r),
           phase[r] = "asked", phase'[r] = "asked",
           seen'[r].remaining = seen[r].remaining,
           Tick => seen'[r].resetIn = Less(seen[r].resetIn),
           ~Tick => seen'[r] = seen[r]
    PROVE  AskedOK(r)'
<1> DEFINE t == TenantOf[r]
<1>1. Limited(t) /\ t \in Tenants /\ CallersOf(t) # {} /\ Limited(t)'
  BY DEF AskedOK, CallersOf, Limited
<1> SUFFICES ASSUME seen[r].remaining = 0
             PROVE  Within(t, Slack(t))' \/ LeavesWithin(t, seen[r].resetIn)'
  BY <1>1 DEF AskedOK
<1>2. PICK k \in 0..Window : k = seen[r].resetIn BY DEF TypeOK, Quota
<1>3. CASE Within(t, Slack(t)) /\ (Eases(t) \/ Charges(t))
  <2>1. Within(t, Slack(t)) => Within(t, Slack(t))'
    <3>1. Slack(t) \in Int /\ Slack(t)' = Slack(t) BY <1>1, SlackType
    <3> QED BY <1>3, <3>1, WithinKept DEF Within
  <2> QED BY <1>3, <2>1
<1>4. CASE Passes(t)
  <2>1. r \notin Passed(t)' BY DEF Passed
  <2> QED BY <1>1, <1>4, <2>1, SlackType, SlackPassed
<1>5. CASE LeavesWithin(t, k) /\ ~Tick
  <2>1. seen'[r].resetIn = k BY <1>2, <1>5
  <2> QED BY <1>5, <2>1, LeavesKept DEF LeavesWithin
<1>6. CASE LeavesWithin(t, k) /\ Tick /\ Eases(t)
  <2>1. \/ \E i \in CountedRows(t)' : table'[i].age + Less(k) >= Window
        \/ Within(t, Slack(t))'
    BY <1>1, <1>6, LeavesTick
  <2>2. seen'[r].resetIn = Less(k) BY <1>2, <1>6
  <2> QED BY <2>1, <2>2 DEF LeavesWithin
<1>7. Tick => Eases(t)
  <2> SUFFICES ASSUME Tick PROVE Eases(t)
    OBVIOUS
  <2>1. \A p \in Requests : seen'[p].remaining = seen[p].remaining
    BY DEF Tick, TypeOK, Quota
  <2>2. Passed(t)' \subseteq Passed(t) BY <2>1 DEF Tick, Passed, CallersOf
  <2> QED BY <2>2, TickCounts, EasesWhen
<1>8. Eases(t) \/ Charges(t) \/ Passes(t) BY <1>1, QuotaStep
<1>9. Within(t, Slack(t)) \/ LeavesWithin(t, k) BY <1>2 DEF AskedOK
<1> QED BY <1>3, <1>4, <1>5, <1>6, <1>7, <1>8, <1>9
\* A request that reads an exhausted quota sees when the oldest row leaves.
LEMMA AskedNew ==
    ASSUME TypeOK, NEW r \in Requests, Ask(r)
    PROVE  AskedOK(r)'
<1> DEFINE t == TenantOf[r]
<1>1. t \in Tenants /\ Limited(t) /\ LimitOf[t] \in Nat /\ LimitOf[t] # 0
  BY SlackType DEF Ask
<1>2. seen'[r] = [remaining |-> Remaining(t), resetIn |-> ResetIn(t)]
  BY DEF Ask, TypeOK
<1>3. seen'[r].remaining = Remaining(t) /\ seen'[r].resetIn = ResetIn(t) BY <1>2
<1> SUFFICES ASSUME Remaining(t) = 0
             PROVE  LeavesWithin(t, seen[r].resetIn)'
  BY <1>1, <1>3 DEF AskedOK, Limited
<1>4. Used(t) # 0
  <2>1. ~(Used(t) < LimitOf[t]) BY <1>1, CountedFinite DEF Remaining
  <2> QED BY <1>1, <2>1, CountedFinite
<1>5. CountedRows(t) # {} BY <1>4, FS_EmptySet DEF Used
<1>6. PICK i \in CountedRows(t) : table[i].age + ResetIn(t) = Window
  BY <1>5, ResetInOldest
<1>7. UNCHANGED table /\ i \in CountedRows(t)' BY DEF Ask, CountedRows
<1>8. table'[i].age + seen'[r].resetIn >= Window
  BY <1>3, <1>6, <1>7, WindowAssumption
<1> QED BY <1>7, <1>8 DEF LeavesWithin

\* What a step does to a request: it asks, goes on being asked, or is not asked.
LEMMA RequestMoves ==
    ASSUME TypeOK, Next, NEW r \in Requests
    PROVE  \/ Ask(r)
           \/ phase'[r] # "asked"
           \/ /\ phase[r] = "asked" /\ phase'[r] = "asked"
              /\ seen'[r].remaining = seen[r].remaining
              /\ Tick => seen'[r].resetIn = Less(seen[r].resetIn)
              /\ ~Tick => seen'[r] = seen[r]
<1>1. CASE Tick
  <2>1. /\ seen[r] \in Quota /\ seen'[r] = [seen[r] EXCEPT !.resetIn = Less(@)]
        /\ phase'[r] = phase[r]
    BY <1>1 DEF TypeOK, Tick
  <2>2. /\ seen'[r].remaining = seen[r].remaining
        /\ seen'[r].resetIn = Less(seen[r].resetIn)
    BY <2>1 DEF Quota
  <2> QED BY <1>1, <2>1, <2>2
<1>2. CASE ~Tick
  <2>1. ASSUME NEW p \in Requests, Ask(p)
        PROVE  Ask(r) \/ (phase'[r] = phase[r] /\ seen'[r] = seen[r])
    BY <2>1 DEF Ask, TypeOK
  <2>2. ASSUME NEW p \in Requests, Refuse(p) \/ TurnAway(p) \/ Begin(p)
        PROVE  phase'[r] # "asked" \/ (phase'[r] = phase[r] /\ seen'[r] = seen[r])
    BY <2>2 DEF Refuse, TurnAway, Begin, Forget, TypeOK
  <2>3. ASSUME NEW p \in Requests, NEW outcome \in Outcomes,
               RecordHit(p) \/ BeginUnlimited(p) \/ Record(p, outcome) \/ RecordFails(p)
        PROVE  phase'[r] # "asked" \/ (phase'[r] = phase[r] /\ seen'[r] = seen[r])
    BY <2>3 DEF RecordHit, BeginUnlimited, Record, RecordFails, TypeOK
  <2>4. CASE Prune BY <1>2, <2>4 DEF Prune
  <2>5. "ok" \in Outcomes BY DEF Outcomes
  <2> QED BY <1>2, <2>1, <2>2, <2>3, <2>4, <2>5 DEF Next
<1> QED BY <1>1, <1>2

\* A refusal passes on what its request has seen.
LEMMA PromiseMade ==
    ASSUME TypeOK, NEW r \in Requests, AskedOK(r), Refuse(r)
    PROVE  PromiseOK(TenantOf[r])'
<1> DEFINE t == TenantOf[r]
<1>1. /\ t \in Tenants /\ Limited(t) /\ r \in CallersOf(t)
      /\ seen[r] \in Quota /\ seen[r].remaining = 0
      /\ UNCHANGED table
  BY DEF AskedOK, Refuse, Allows, CallersOf, TypeOK, Quota
<1>2. PICK k \in 0..Window : k = seen[r].resetIn BY <1>1 DEF Quota
<1>3. promise'[t] = IF k > 1 THEN k ELSE 1
  BY <1>1, <1>2 DEF Refuse, TypeOK
<1>4. /\ Used(t)' = Used(t) /\ CountedRows(t)' = CountedRows(t)
      /\ Slack(t)' = Slack(t) /\ CallersOf(t)' = CallersOf(t)
  BY <1>1, SlackType DEF Used, CountedRows, CallersOf
<1>5. CASE Within(t, Slack(t))
  <2>1. Used(t) <= Slack(t)
    BY <1>1, <1>5, SlackType, PassedFinite, CountedFinite DEF Within
  <2> QED BY <1>1, <1>4, <2>1 DEF PromiseOK, Limited
<1>6. CASE LeavesWithin(t, k)
  <2>1. PICK i \in CountedRows(t) : table[i].age + k >= Window
    BY <1>6 DEF LeavesWithin
  <2>2. table[i].age < Window /\ table[i] # NoRow /\ i \in Rows
    BY <2>1 DEF CountedRows
  <2>3. table[i].age \in Nat BY <2>2 DEF TypeOK, Row
  <2>4. promise'[t] = k BY <1>3, <2>1, <2>2, <2>3
  <2>5. LeavesWithin(t, promise[t])' BY <1>1, <1>4, <2>1, <2>4 DEF LeavesWithin
  <2> QED BY <1>1, <1>4, <2>5 DEF PromiseOK, Limited
<1>7. Within(t, Slack(t)) \/ LeavesWithin(t, k)
  BY <1>1, <1>2 DEF AskedOK, Refuse
<1> QED BY <1>5, <1>6, <1>7
\* What a tenant was told keeps its ground until it is told anew, or charged.
LEMMA PromiseKept ==
    ASSUME TypeOK, OvershootBounded, Next, NEW t \in Tenants, PromiseOK(t),
           promise[t] # NoPromise,
           Tick => promise'[t] = Less(promise[t]),
           ~Tick => promise'[t] = promise[t]
    PROVE  PromiseOK(t)'
<1>1. /\ Limited(t) /\ CallersOf(t) # {} /\ Limited(t)' /\ CallersOf(t)' = CallersOf(t)
      /\ Slack(t) \in Int /\ Slack(t)' = Slack(t)
  BY SlackType DEF PromiseOK, Limited, CallersOf
<1>2. PICK k \in 0..Window : k = promise[t] BY DEF TypeOK
<1>3. k # NoPromise /\ Less(k) # NoPromise /\ Less(k) \in Nat
  BY DEF Less
<1>4. /\ Used(t) \in Nat /\ Used(t)' \in Nat
      /\ Cardinality(Passed(t)') \in Nat
  <2>1. Used(t) \in Nat BY CountedFinite
  <2>2. IsFiniteSet(CountedRows(t)') BY FS_Subset DEF CountedRows
  <2>3. IsFiniteSet(Passed(t)')
    <3>1. Passed(t)' \in SUBSET Requests BY DEF Passed, CallersOf
    <3> QED BY <3>1, FS_Subset
  <2> QED BY <2>1, <2>2, <2>3, FS_CardinalityType DEF Used
<1>5. \/ Eases(t)
      \/ promise'[t] = NoPromise
      \/ Passes(t)
  BY <1>1, QuotaStep
<1>6. CASE promise'[t] = NoPromise
  BY <1>6 DEF PromiseOK
<1>7. CASE Used(t) <= Slack(t) /\ (Eases(t) \/ Passes(t))
  <2>1. Used(t)' <= Slack(t) BY <1>1, <1>4, <1>7 DEF Eases, Passes
  <2> QED BY <1>1, <2>1 DEF PromiseOK
<1>8. CASE LeavesWithin(t, k) /\ ~Tick
  <2>1. promise'[t] = k BY <1>2, <1>8
  <2>2. LeavesWithin(t, promise[t])'
    BY <1>8, <2>1, LeavesKept DEF LeavesWithin
  <2> QED BY <1>1, <2>2 DEF PromiseOK
<1>9. CASE LeavesWithin(t, k) /\ Tick /\ Eases(t)
  <2>1. promise'[t] = Less(k) BY <1>2, <1>9
  <2>2. \/ \E i \in CountedRows(t)' : table'[i].age + Less(k) >= Window
        \/ Within(t, Slack(t))'
    BY <1>1, <1>9, LeavesTick
  <2>3. Within(t, Slack(t))' => Used(t)' <= Slack(t)
    BY <1>1, <1>4 DEF Within
  <2>4. Used(t)' <= Slack(t) \/ LeavesWithin(t, promise[t])'
    BY <2>1, <2>2, <2>3 DEF LeavesWithin
  <2> QED BY <1>1, <2>4 DEF PromiseOK
<1>10. Tick => Eases(t)
  <2> SUFFICES ASSUME Tick PROVE Eases(t)
    OBVIOUS
  <2>1. \A p \in Requests : seen'[p].remaining = seen[p].remaining
    BY DEF Tick, TypeOK, Quota
  <2>2. Passed(t)' \subseteq Passed(t) BY <2>1 DEF Tick, Passed, CallersOf
  <2> QED BY <2>2, TickCounts, EasesWhen
<1>11. Used(t) <= Slack(t) \/ LeavesWithin(t, k) BY <1>2 DEF PromiseOK
<1> QED BY <1>5, <1>6, <1>7, <1>8, <1>9, <1>10, <1>11

\* What a step does to a tenant's promise.
LEMMA PromiseMoves ==
    ASSUME TypeOK, Next, NEW t \in Tenants
    PROVE  \/ \E r \in Requests : Refuse(r) /\ TenantOf[r] = t
           \/ promise'[t] = NoPromise
           \/ /\ promise[t] # NoPromise
              /\ Tick => promise'[t] = Less(promise[t])
              /\ ~Tick => promise'[t] = promise[t]
<1>1. CASE Tick BY <1>1 DEF Tick
<1>2. CASE ~Tick
  <2>1. ASSUME NEW r \in Requests, Refuse(r)
        PROVE  TenantOf[r] = t \/ promise'[t] = promise[t]
    BY <2>1 DEF Refuse, TypeOK
  <2>2. ASSUME NEW r \in Requests, NEW outcome \in Outcomes, Record(r, outcome)
        PROVE  promise'[t] = NoPromise \/ promise'[t] = promise[t]
    BY <2>2 DEF Record, TypeOK
  <2>3. ASSUME NEW r \in Requests,
               RecordHit(r) \/ BeginUnlimited(r) \/ Ask(r) \/ TurnAway(r) \/ Begin(r)
                 \/ RecordFails(r)
        PROVE  promise'[t] = promise[t]
    BY <2>3 DEF RecordHit, BeginUnlimited, Ask, TurnAway, Begin, RecordFails
  <2>4. CASE Prune BY <1>2, <2>4 DEF Prune
  <2> QED BY <1>2, <2>1, <2>2, <2>3, <2>4 DEF Next
<1> QED BY <1>1, <1>2

\* The invariant as its two halves: what askers hold and what tenants were told.
LEMMA ResetInvParts ==
    ResetInv <=> /\ \A r \in Requests : AskedOK(r)
                 /\ \A t \in Tenants : PromiseOK(t)
BY DEF ResetInv, AskedOK, PromiseOK

\* Every step keeps the reset invariant: the promises count down with the rows'
\* ages.
LEMMA ResetStep == TypeOK /\ OvershootBounded /\ ResetInv /\ [Next]_vars => ResetInv'
<1> SUFFICES ASSUME TypeOK, OvershootBounded, ResetInv, [Next]_vars
             PROVE  /\ \A r \in Requests : AskedOK(r)'
                    /\ \A t \in Tenants : PromiseOK(t)'
  BY DEF ResetInv, AskedOK, PromiseOK
<1>1. CASE UNCHANGED vars
  BY <1>1, ResetInvParts, ZenonT(60)
  DEF vars, AskedOK, PromiseOK, Within, LeavesWithin, Used, CountedRows, Passed,
      Slack, CallersOf, Limited
<1>2. CASE Next
  <2>1. ASSUME NEW r \in Requests PROVE AskedOK(r)'
    <3>1. AskedOK(r) BY ResetInvParts
    <3>2. CASE phase'[r] # "asked" BY <3>2 DEF AskedOK
    <3> QED BY <1>2, <3>1, <3>2, RequestMoves, AskedNew, AskedKept
  <2>2. ASSUME NEW t \in Tenants PROVE PromiseOK(t)'
    <3>1. PromiseOK(t) /\ \A r \in Requests : AskedOK(r) BY ResetInvParts
    <3>2. CASE promise'[t] = NoPromise BY <3>2 DEF PromiseOK
    <3> QED BY <1>2, <3>1, <3>2, PromiseMoves, PromiseMade, PromiseKept
  <2> QED BY <2>1, <2>2
<1> QED BY <1>1, <1>2

\* A refused tenant that waits its Retry-After, and is not charged meanwhile, has
\* one lookup less against it than the overshoot allows; with one caller it has
\* quota again.
THEOREM RefusalResets == Spec => []ResetFreesQuota
<1>1. Init => ResetInv BY DEF Init, ResetInv
<1>2. TypeOK /\ ResetInv => ResetFreesQuota
  <2> SUFFICES ASSUME TypeOK, ResetInv, NEW t \in Tenants, promise[t] = 0
               PROVE  Used(t) <= Slack(t)
    BY DEF ResetFreesQuota, Slack
  <2>1. promise[t] # NoPromise OBVIOUS
  <2>2. ~LeavesWithin(t, 0)
    <3> SUFFICES ASSUME NEW i \in CountedRows(t), table[i].age + 0 >= Window
                 PROVE  FALSE
      BY DEF LeavesWithin
    <3>1. i \in Rows /\ table[i] # NoRow /\ table[i].age < Window
      BY DEF CountedRows
    <3>2. table[i].age \in Nat BY <3>1 DEF TypeOK, Row
    <3> QED BY <3>1, <3>2
  <2> QED BY <2>1, <2>2 DEF ResetInv
<1> QED BY <1>1, <1>2, ResetStep, TypeCorrect, QuotaOvershoot, PTL DEF Spec
=============================================================================
