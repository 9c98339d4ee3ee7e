------------------------ MODULE LookupDispatchProofs ------------------------
(***************************************************************************)
(* Theorems about LookupDispatch, for every set of requests and browsers   *)
(* and every setting.                                                      *)
(*                                                                         *)
(* TypeOK is not inductive: a step that lets go of a browser takes the     *)
(* tail of its queue, which is a sequence only if the queue is not empty.  *)
(* It is proved together with OwnerHolds, the part of LockDiscipline that  *)
(* says so.  The other invariants build on the two.                        *)
(***************************************************************************)
EXTENDS LookupDispatch, FiniteSetTheorems, SequenceTheorems, WellFoundedInduction, TLAPS

OwnerHolds == \A r \in Requests : pc[r] \in {"pacing", "driving"} => Owns(r, at[r])

TypeInv == TypeOK /\ OwnerHolds

USE RequestsAssumption, SlotsAssumption, SettingsAssumption, FarAssumption

-----------------------------------------------------------------------------
(* The steps that let go of a browser, in one form. *)

\* r owns the lock of at[r] and gives it up: for a place in another queue, at a
\* browser it has not tried, or to leave.
MovesOn(r) ==
    \E u \in Slots \ tried[r] :
        /\ pc' = [pc EXCEPT ![r] = "waiting"]
        /\ at' = [at EXCEPT ![r] = u]
        /\ queue' = Enqueued(Released(queue, at[r]), u, r)
        /\ UNCHANGED <<tried, answer, pending>>

Quits(r) ==
    /\ \E a \in Answers : Leave(r, a)
    /\ queue' = Released(queue, at[r])

LetsGo(r) ==
    /\ pc[r] \in {"waiting", "driving"}
    /\ Owns(r, at[r])
    /\ at[r] \in Slots
    /\ avg' \in 0..Far
    /\ coolLeft' \in [Slots -> 0..Cooldown]
    /\ UNCHANGED sinceStart
    /\ MovesOn(r) \/ Quits(r)

\* What the moving average can become stays in its range.
LEMMA AveragesInRange ==
    ASSUME avg \in 0..Far, NEW d \in 0..Far
    PROVE  Averages(d) \subseteq 0..Far
BY DEF Averages

\* A browser that is picked is one the request has not tried, out of cooldown.
LEMMA PicksAreUsable ==
    ASSUME NEW exclude, NEW cool, NEW q, NEW s \in Picks(exclude, cool, q)
    PROVE  s \in Slots /\ s \notin exclude /\ ~InCooldown(cool, s)
BY DEF Picks, Candidates

\* Picking again after a lock was given up is moving on or leaving.
LEMMA PickAgainLetsGo ==
    ASSUME NEW r \in Requests, NEW cool,
           PickAgain(r, cool, Released(queue, at[r]))
    PROVE  MovesOn(r) \/ Quits(r)
<1>1. CASE \E s \in Picks(tried[r], cool, Released(queue, at[r])) :
               /\ WaitFor(r, s, Released(queue, at[r]))
               /\ UNCHANGED <<tried, answer, pending>>
  BY <1>1, PicksAreUsable DEF WaitFor, MovesOn
<1>2. CASE /\ queue' = Released(queue, at[r])
           /\ Leave(r, "browser_unavailable")
  BY <1>2 DEF Quits, Answers
<1> QED BY <1>1, <1>2 DEF PickAgain

\* Finding the browser cooled down lets go of it.
LEMMA FindCooledLetsGo ==
    ASSUME TypeInv, NEW r \in Requests, FindCooled(r)
    PROVE  LetsGo(r)
<1>1. at[r] \in Slots BY DEF TypeInv, TypeOK, FindCooled
<1>2. MovesOn(r) \/ Quits(r) BY PickAgainLetsGo DEF FindCooled
<1> QED BY <1>1, <1>2 DEF LetsGo, FindCooled, TypeInv, TypeOK

\* So does the end of a lookup, whatever it is.
LEMMA EndLookupLetsGo ==
    ASSUME TypeInv, NEW r \in Requests, EndLookup(r)
    PROVE  /\ LetsGo(r)
           /\ pc[r] = "driving"
           /\ MovesOn(r) => ~Spent(r)
<1>1. pc[r] = "driving" BY DEF EndLookup, FinishLookup, FailCaptcha
<1>2. at[r] \in Slots /\ Owns(r, at[r])
  BY <1>1 DEF TypeInv, TypeOK, OwnerHolds
<1>3. Averages(sinceStart[at[r]]) \subseteq 0..Far
  BY <1>2, AveragesInRange DEF TypeInv, TypeOK
<1>4. ASSUME NEW a \in {"returned", "failed"}, FinishLookup(r, a)
      PROVE  LetsGo(r)
  <2>1. Quits(r) BY <1>4 DEF FinishLookup, Quits, Answers
  <2> QED
    BY <1>1, <1>2, <1>3, <1>4, <2>1 DEF FinishLookup, LetsGo, TypeInv, TypeOK
<1>5. ASSUME NEW cooling \in BOOLEAN, FailCaptcha(r, cooling)
      PROVE  LetsGo(r)
  <2>1. MovesOn(r) \/ Quits(r)
    <3>1. CASE /\ queue' = Released(queue, at[r])
               /\ Leave(r, "captcha")
      BY <3>1 DEF Quits, Answers
    <3>2. CASE PickAgain(r, coolLeft', Released(queue, at[r]))
      BY <3>2, PickAgainLetsGo
    <3> QED BY <1>5, <3>1, <3>2 DEF FailCaptcha
  <2>2. coolLeft' \in [Slots -> 0..Cooldown]
    BY <1>5 DEF FailCaptcha, CoolDown, TypeInv, TypeOK
  <2> QED BY <1>1, <1>2, <1>3, <1>5, <2>1, <2>2 DEF FailCaptcha, LetsGo
<1>6. ASSUME MovesOn(r) PROVE ~Spent(r)
  <2>1. pc'[r] = "waiting" BY <1>6 DEF MovesOn, TypeInv, TypeOK
  <2>2. \A a : ~Leave(r, a) BY <2>1 DEF Leave, TypeInv, TypeOK
  <2> QED BY <2>2 DEF EndLookup, FinishLookup, FailCaptcha
<1> QED BY <1>1, <1>4, <1>5, <1>6 DEF EndLookup

-----------------------------------------------------------------------------
(* Types, and the owner of a lock. *)

\* The queues stay sequences of requests when one is let go of.
LEMMA ReleasedType ==
    ASSUME queue \in [Slots -> Seq(Requests)], NEW s \in Slots, Locked(queue, s)
    PROVE  Released(queue, s) \in [Slots -> Seq(Requests)]
<1>1. Tail(queue[s]) \in Seq(Requests) BY DEF Locked
<1> QED BY <1>1 DEF Released

\* A request joins the end of one lock's queue and the queues stay sequences of
\* requests.
LEMMA EnqueuedType ==
    ASSUME NEW q \in [Slots -> Seq(Requests)], NEW s \in Slots, NEW r \in Requests
    PROVE  Enqueued(q, s, r) \in [Slots -> Seq(Requests)]
<1>1. Append(q[s], r) \in Seq(Requests) OBVIOUS
<1> QED BY <1>1 DEF Enqueued

\* Every step keeps the variables in their types.
LEMMA TypeStep == TypeInv /\ [Next]_vars => TypeOK'
<1> SUFFICES ASSUME TypeInv, [Next]_vars PROVE TypeOK'
  OBVIOUS
<1> USE DEF TypeInv
<1>1. CASE UNCHANGED vars
  BY <1>1 DEF TypeOK, vars
<1>2. CASE Tick
  BY <1>2 DEF TypeOK, Tick
<1>3. ASSUME NEW r \in Requests, RejectCooling(r) \/ RejectQueue(r) PROVE TypeOK'
  BY <1>3 DEF TypeOK, RejectCooling, RejectQueue, Reject, Answers
<1>4. ASSUME NEW r \in Requests, Admit(r) PROVE TypeOK'
  <2> PICK s \in Picks({}, coolLeft, queue) : WaitFor(r, s, queue)
    BY <1>4 DEF Admit
  <2>1. s \in Slots BY PicksAreUsable
  <2>2. queue' \in [Slots -> Seq(Requests)]
    BY <2>1, EnqueuedType DEF WaitFor, TypeOK
  <2> QED BY <1>4, <2>1, <2>2 DEF Admit, WaitFor, TypeOK, Answers
<1>5. ASSUME NEW r \in Requests, LetsGo(r) PROVE TypeOK'
  <2>1. Released(queue, at[r]) \in [Slots -> Seq(Requests)]
    BY <1>5, ReleasedType DEF LetsGo, Owns, TypeOK
  <2>2. CASE MovesOn(r)
    <3> PICK u \in Slots \ tried[r] :
             /\ pc' = [pc EXCEPT ![r] = "waiting"]
             /\ at' = [at EXCEPT ![r] = u]
             /\ queue' = Enqueued(Released(queue, at[r]), u, r)
             /\ UNCHANGED <<tried, answer, pending>>
      BY <2>2 DEF MovesOn
    <3>1. queue' \in [Slots -> Seq(Requests)] BY <2>1, EnqueuedType
    <3> QED BY <1>5, <3>1 DEF LetsGo, TypeOK
  <2>3. CASE Quits(r)
    <3>1. PICK a \in Answers : Leave(r, a) BY <2>3 DEF Quits
    <3>2. /\ pc' = [pc EXCEPT ![r] = "idle"] /\ at' = [at EXCEPT ![r] = NoSlot]
          /\ tried' = [tried EXCEPT ![r] = {}] /\ answer' = [answer EXCEPT ![r] = a]
          /\ pending' = pending - 1 /\ queue' \in [Slots -> Seq(Requests)]
      BY <2>1, <2>3, <3>1 DEF Quits, Leave
    <3>3. /\ pc' \in [Requests -> {"idle", "waiting", "pacing", "driving"}]
          /\ at' \in [Requests -> Slots \cup {NoSlot}]
          /\ \A p \in Requests : at'[p] = NoSlot <=> pc'[p] = "idle"
      BY <3>2 DEF TypeOK
    <3>4. /\ tried' \in [Requests -> SUBSET Slots] /\ answer' \in [Requests -> Answers]
          /\ pending' \in Int
      BY <3>2 DEF TypeOK
    <3> QED BY <1>5, <3>2, <3>3, <3>4 DEF LetsGo, TypeOK
  <2> QED BY <1>5, <2>2, <2>3 DEF LetsGo
<1>6. ASSUME NEW r \in Requests, TakeBrowser(r) PROVE TypeOK'
  <2>1. at[r] \in Slots BY <1>6 DEF TakeBrowser, TypeOK
  <2>2. tried' \in [Requests -> SUBSET Slots]
    BY <1>6, <2>1 DEF TakeBrowser, Tried, TypeOK
  <2>3. /\ UNCHANGED <<at, answer, queue, coolLeft, pending, avg>>
        /\ pc[r] = "waiting"
        /\ \/ /\ pc' = [pc EXCEPT ![r] = "driving"]
              /\ sinceStart' = [sinceStart EXCEPT ![at[r]] = 0]
           \/ pc' = [pc EXCEPT ![r] = "pacing"] /\ UNCHANGED sinceStart
    BY <1>6 DEF TakeBrowser, StartLookup
  <2>4. sinceStart' \in [Slots -> 0..Far]
    <3>1. sinceStart \in [Slots -> 0..Far] BY DEF TypeOK
    <3>2. 0 \in 0..Far BY FarAssumption
    <3> QED BY <2>1, <2>3, <3>1, <3>2
  <2>5. pc' \in [Requests -> {"idle", "waiting", "pacing", "driving"}]
    BY <2>3 DEF TypeOK
  <2>6. \A p \in Requests : pc'[p] = "idle" <=> pc[p] = "idle"
    BY <2>3 DEF TypeOK
  <2> QED BY <2>2, <2>3, <2>4, <2>5, <2>6 DEF TypeOK
<1>7. ASSUME NEW r \in Requests, Wake(r) PROVE TypeOK'
  <2>1. at[r] \in Slots BY <1>7 DEF Wake, TypeOK
  <2> QED BY <1>7, <2>1 DEF Wake, StartLookup, TypeOK
<1> QED
  BY <1>1, <1>2, <1>3, <1>4, <1>5, <1>6, <1>7, FindCooledLetsGo, EndLookupLetsGo
  DEF Next, Run

\* Letting go of a browser disturbs no other owner.
LEMMA LetsGoKeepsOwners ==
    ASSUME TypeInv, NEW r \in Requests, LetsGo(r)
    PROVE  OwnerHolds'
<1> SUFFICES ASSUME NEW p \in Requests, pc'[p] \in {"pacing", "driving"}
             PROVE  Owns(p, at[p])'
  BY DEF OwnerHolds
<1> USE DEF TypeInv
<1>1. p # r /\ pc'[p] = pc[p] /\ at'[p] = at[p]
  BY DEF LetsGo, MovesOn, Quits, Leave, TypeOK
<1>2. at[p] \in Slots /\ Owns(p, at[p]) BY <1>1 DEF TypeOK, OwnerHolds
<1>3. at[p] # at[r] BY <1>1, <1>2 DEF LetsGo, Owns
<1>4. Released(queue, at[r])[at[p]] = queue[at[p]]
  BY <1>2, <1>3 DEF Released, TypeOK
<1>5. CASE Quits(r) BY <1>1, <1>2, <1>4, <1>5 DEF Quits, Owns, Locked
<1>6. CASE MovesOn(r)
  <2> PICK u \in Slots : queue' = Enqueued(Released(queue, at[r]), u, r)
    BY <1>6 DEF MovesOn
  <2>1. \/ queue'[at[p]] = queue[at[p]]
        \/ queue'[at[p]] = Append(queue[at[p]], r)
    BY <1>2, <1>4 DEF Enqueued, Released, TypeOK
  <2>2. queue[at[p]] \in Seq(Requests) BY <1>2 DEF TypeOK
  <2> QED BY <1>1, <1>2, <2>1, <2>2 DEF Owns, Locked
<1> QED BY <1>5, <1>6 DEF LetsGo

\* Every step keeps a pacing or driving request the owner of its browser's lock.
LEMMA OwnerStep == TypeInv /\ [Next]_vars => OwnerHolds'
<1> SUFFICES ASSUME TypeInv, [Next]_vars PROVE OwnerHolds'
  OBVIOUS
<1> USE DEF TypeInv
<1>1. CASE UNCHANGED vars \/ Tick
  BY <1>1 DEF OwnerHolds, Owns, Locked, vars, Tick
<1>2. ASSUME NEW r \in Requests, RejectCooling(r) \/ RejectQueue(r) PROVE OwnerHolds'
  BY <1>2 DEF OwnerHolds, Owns, Locked, RejectCooling, RejectQueue, Reject
<1>3. ASSUME NEW r \in Requests, Admit(r) PROVE OwnerHolds'
  <2> PICK s \in Picks({}, coolLeft, queue) : WaitFor(r, s, queue)
    BY <1>3 DEF Admit
  <2> SUFFICES ASSUME NEW p \in Requests, pc'[p] \in {"pacing", "driving"}
               PROVE  Owns(p, at[p])'
    BY DEF OwnerHolds
  <2>1. p # r /\ pc'[p] = pc[p] /\ at'[p] = at[p] BY DEF WaitFor, TypeOK
  <2>2. at[p] \in Slots /\ Owns(p, at[p]) BY <2>1 DEF TypeOK, OwnerHolds
  <2>3. \/ queue'[at[p]] = queue[at[p]]
        \/ queue'[at[p]] = Append(queue[at[p]], r)
    BY <2>2 DEF WaitFor, Enqueued, TypeOK
  <2>4. queue[at[p]] \in Seq(Requests) BY <2>2 DEF TypeOK
  <2> QED BY <2>1, <2>2, <2>3, <2>4 DEF Owns, Locked
<1>4. ASSUME NEW r \in Requests, TakeBrowser(r) \/ Wake(r) PROVE OwnerHolds'
  <2>1. UNCHANGED <<at, queue>> /\ Owns(r, at[r])
    BY <1>4 DEF TakeBrowser, Wake, OwnerHolds
  <2>2. \A p \in Requests \ {r} : pc'[p] = pc[p]
    BY <1>4 DEF TakeBrowser, Wake, StartLookup, TypeOK
  <2> QED BY <2>1, <2>2 DEF OwnerHolds, Owns, Locked
<1> QED
  BY <1>1, <1>2, <1>3, <1>4, FindCooledLetsGo, EndLookupLetsGo, LetsGoKeepsOwners
  DEF Next, Run

\* The variables keep their types, and a request that paces or drives owns the lock
\* of its browser: in CaseService._lookup the interval is slept, and the browser
\* driven, inside `async with slot.lock`.
THEOREM TypeCorrect == Spec => []TypeInv
<1>1. Init => TypeInv
  BY EmptySeq DEF Init, TypeInv, TypeOK, OwnerHolds, Answers
<1>2. TypeInv /\ [Next]_vars => TypeInv'
  BY TypeStep, OwnerStep DEF TypeInv
<1> QED BY <1>1, <1>2, PTL DEF Spec

\* The type invariant alone: the locks' queues, the browsers each request has tried
\* and the clocks stay what they are.
THEOREM TypesHold == Spec => []TypeOK
<1>1. TypeInv => TypeOK BY DEF TypeInv
<1> QED BY <1>1, TypeCorrect, PTL

\* One browser is never driven for two requests at a time.
THEOREM OneLookupPerBrowser ==
    Spec => [](\A r, p \in Requests :
                  /\ pc[r] \in {"pacing", "driving"}
                  /\ pc[p] \in {"pacing", "driving"}
                  /\ at[r] = at[p]
                  => r = p)
<1>1. TypeInv => \A r, p \in Requests :
                  /\ pc[r] \in {"pacing", "driving"}
                  /\ pc[p] \in {"pacing", "driving"}
                  /\ at[r] = at[p]
                  => r = p
  BY DEF TypeInv, OwnerHolds, Owns
<1> QED BY <1>1, TypeCorrect, PTL
-----------------------------------------------------------------------------
(* What _pending counts. *)

\* The requests in flight are finitely many, so they can be counted.
LEMMA InFlightFinite == IsFiniteSet(InFlight) /\ Cardinality(InFlight) \in Nat
BY FS_Subset, FS_CardinalityType DEF InFlight

\* The steps that start and end no call leave the requests in flight alone.
LEMMA PendingStep ==
    ASSUME TypeInv, PendingCountsInFlight, [Next]_vars
    PROVE  PendingCountsInFlight'
<1> USE DEF TypeInv, PendingCountsInFlight
<1>1. CASE \/ UNCHANGED <<pc, pending>>
           \/ \E r \in Requests :
                 /\ pc[r] # "idle"
                 /\ \E l \in {"waiting", "pacing", "driving"} :
                       pc' = [pc EXCEPT ![r] = l]
                 /\ UNCHANGED pending
  <2>1. InFlight' = InFlight BY <1>1 DEF InFlight, TypeOK
  <2> QED BY <1>1, <2>1
<1>2. ASSUME NEW r \in Requests, Admit(r) PROVE PendingCountsInFlight'
  <2>1. r \notin InFlight /\ InFlight' = InFlight \cup {r}
    BY <1>2 DEF Admit, WaitFor, InFlight, TypeOK
  <2>2. Cardinality(InFlight') = Cardinality(InFlight) + 1
    BY <2>1, InFlightFinite, FS_AddElement
  <2> QED BY <1>2, <2>2 DEF Admit
<1>3. ASSUME NEW r \in Requests, LetsGo(r), Quits(r) PROVE PendingCountsInFlight'
  <2>1. r \in InFlight /\ InFlight' = InFlight \ {r}
    BY <1>3 DEF LetsGo, Quits, Leave, InFlight, TypeOK
  <2>2. Cardinality(InFlight') = Cardinality(InFlight) - 1
    BY <2>1, InFlightFinite, FS_RemoveElement
  <2> QED BY <1>3, <2>2 DEF Quits, Leave
<1>4. ASSUME NEW r \in Requests, LetsGo(r), MovesOn(r) PROVE PendingCountsInFlight'
  BY <1>1, <1>4 DEF LetsGo, MovesOn
<1>5. ASSUME NEW r \in Requests, TakeBrowser(r) \/ Wake(r)
      PROVE  PendingCountsInFlight'
  BY <1>1, <1>5 DEF TakeBrowser, Wake, StartLookup
<1>6. CASE UNCHANGED vars \/ Tick
  BY <1>1, <1>6 DEF vars, Tick
<1>7. ASSUME NEW r \in Requests, RejectCooling(r) \/ RejectQueue(r)
      PROVE  PendingCountsInFlight'
  BY <1>1, <1>7 DEF RejectCooling, RejectQueue, Reject
<1> QED
  BY <1>2, <1>3, <1>4, <1>5, <1>6, <1>7, FindCooledLetsGo, EndLookupLetsGo
  DEF Next, Run, LetsGo

\* get_case's counter is exact: whichever of the exits of _lookup a request takes,
\* it is counted once while it is in there and not before or after.
THEOREM PendingExact == Spec => []PendingCountsInFlight
<1>1. Init => PendingCountsInFlight
  <2> SUFFICES ASSUME Init PROVE PendingCountsInFlight
    OBVIOUS
  <2>1. InFlight = {} BY DEF Init, InFlight
  <2> QED BY <2>1, FS_EmptySet DEF Init, PendingCountsInFlight
<1> QED BY <1>1, PendingStep, TypeCorrect, PTL DEF Spec

-----------------------------------------------------------------------------
(* The queue guard. *)

\* Multiplication by a natural number preserves <=.
LEMMA TimesMonotone ==
    ASSUME NEW a \in Nat, NEW b \in Nat, NEW k \in Nat, a <= b
    PROVE  a * k <= b * k /\ k * a <= k * b
OBVIOUS

\* The browsers out of a cooldown are finitely many; there is one that is not cooling.
LEMMA AvailableCounts ==
    /\ Available \in Nat /\ Available <= Cardinality(Slots) /\ Cardinality(Slots) \in Nat
    /\ ~AllCooling => Available > 0
<1> DEFINE A == {s \in Slots : ~InCooldown(coolLeft, s)}
<1>1. A \in SUBSET Slots /\ (~AllCooling => A # {})
  BY DEF AllCooling
<1>2. IsFiniteSet(A) /\ Cardinality(A) <= Cardinality(Slots)
  BY <1>1, FS_Subset
<1>3. Cardinality(A) \in Nat /\ Cardinality(Slots) \in Nat /\ (A # {} => Cardinality(A) # 0)
  BY <1>2, FS_CardinalityType, FS_EmptySet
<1> QED BY <1>1, <1>2, <1>3 DEF Available

\* A request that passes the guards finds few enough in flight.
LEMMA GuardBound ==
    ASSUME TypeOK, pending \in Nat, ~WaitTooLong, ~AllCooling
    PROVE  pending * Interval <= MaxQueueWait * Available
<1>1. Available \in Nat /\ Available > 0 BY AvailableCounts
<1>2. (IF Available > 1 THEN Available ELSE 1) = Available BY <1>1
<1>3. PerLookup \in Nat /\ Interval <= PerLookup
  BY SettingsAssumption, FarAssumption DEF TypeOK, PerLookup
<1>4. pending * Interval <= pending * PerLookup
  BY <1>3, TimesMonotone, SettingsAssumption
<1>5. /\ pending * Interval \in Int /\ pending * PerLookup \in Int
      /\ MaxQueueWait * Available \in Int
  BY <1>1, <1>3, SettingsAssumption
<1>6. ~(pending * PerLookup > MaxQueueWait * Available) BY <1>2 DEF WaitTooLong
<1> QED BY <1>4, <1>5, <1>6

\* What max_queue_wait holds of all the browsers.
QueueBounded ==
    pending > 0 => (pending - 1) * Interval <= MaxQueueWait * Cardinality(Slots)

\* Every step keeps the bound on the queue: only Admit adds to pending, behind the
\* guard.
LEMMA QueueBoundStep ==
    ASSUME TypeInv, PendingCountsInFlight, QueueBounded, [Next]_vars
    PROVE  QueueBounded'
<1>1. pending \in Nat BY InFlightFinite DEF PendingCountsInFlight
<1>2. ASSUME NEW r \in Requests, Admit(r) PROVE QueueBounded'
  <2>1. pending * Interval <= MaxQueueWait * Cardinality(Slots)
    <3>1. pending * Interval <= MaxQueueWait * Available
      BY <1>1, <1>2, GuardBound DEF Admit, TypeInv
    <3>2. MaxQueueWait * Available <= MaxQueueWait * Cardinality(Slots)
      BY AvailableCounts, TimesMonotone, SettingsAssumption
    <3>3. /\ pending * Interval \in Int /\ MaxQueueWait * Available \in Int
          /\ MaxQueueWait * Cardinality(Slots) \in Int
      BY <1>1, AvailableCounts, SettingsAssumption
    <3> QED BY <3>1, <3>2, <3>3
  <2>2. pending' = pending + 1 BY <1>2 DEF Admit
  <2>3. pending' - 1 = pending BY <1>1, <2>2
  <2> QED BY <2>1, <2>3 DEF QueueBounded
<1>3. CASE pending' = pending BY <1>3 DEF QueueBounded
<1>4. CASE pending' = pending - 1
  <2> SUFFICES ASSUME pending' > 0
               PROVE  (pending' - 1) * Interval <= MaxQueueWait * Cardinality(Slots)
    BY DEF QueueBounded
  <2>1. pending > 0 /\ pending' - 1 \in Nat /\ pending - 1 \in Nat
    BY <1>1, <1>4
  <2>2. (pending' - 1) * Interval <= (pending - 1) * Interval
    BY <1>4, <2>1, TimesMonotone, SettingsAssumption
  <2>3. (pending - 1) * Interval <= MaxQueueWait * Cardinality(Slots)
    BY <2>1 DEF QueueBounded
  <2>4. /\ (pending' - 1) * Interval \in Int
        /\ (pending - 1) * Interval \in Int
        /\ MaxQueueWait * Cardinality(Slots) \in Int
    BY <2>1, SettingsAssumption, FS_CardinalityType
  <2> QED BY <2>2, <2>3, <2>4
<1>5. ASSUME NEW r \in Requests, LetsGo(r)
      PROVE  pending' = pending \/ pending' = pending - 1
  BY <1>5 DEF LetsGo, MovesOn, Quits, Leave
<1>6. \/ \E r \in Requests : Admit(r)
      \/ pending' = pending
      \/ pending' = pending - 1
  <2>1. CASE UNCHANGED vars \/ Tick BY <2>1 DEF vars, Tick
  <2>2. ASSUME NEW r \in Requests, RejectCooling(r) \/ RejectQueue(r)
        PROVE  pending' = pending
    BY <2>2 DEF RejectCooling, RejectQueue, Reject
  <2>3. ASSUME NEW r \in Requests, TakeBrowser(r) \/ Wake(r)
        PROVE  pending' = pending
    BY <2>3 DEF TakeBrowser, Wake
  <2> QED
    BY <2>1, <2>2, <2>3, <1>5, FindCooledLetsGo, EndLookupLetsGo DEF Next, Run
<1> QED BY <1>2, <1>3, <1>4, <1>6

\* The queue guard of get_case bounds the calls in flight for every history of
\* averages and cooldowns it may have read.
THEOREM QueueIsBounded == Spec => []QueueBounded
<1>1. Init => QueueBounded BY DEF Init, QueueBounded
<1> QED BY <1>1, QueueBoundStep, TypeCorrect, PendingExact, PTL DEF Spec

\* The guard, which reads a count and an average, is right about what is in flight:
\* those it lets in fit, and it turns nobody away from an empty service.
THEOREM GuardIsRight == Spec => QueueGuarded
<1> DEFINE Right ==
      \A r \in Requests :
        /\ pc[r] = "idle" /\ pc'[r] # "idle" =>
             Cardinality(InFlight) * Interval <= MaxQueueWait * Available
        /\ answer[r] # "queue_timeout" /\ answer'[r] = "queue_timeout" => InFlight # {}
<1>1. ASSUME TypeInv, PendingCountsInFlight, Next PROVE Right
  <2>1. pending \in Nat /\ pending = Cardinality(InFlight) /\ (InFlight = {} => pending = 0)
    BY <1>1, InFlightFinite, FS_EmptySet DEF PendingCountsInFlight
  <2>2. CASE Tick BY <2>2 DEF Tick
  <2>3. ASSUME NEW p \in Requests, RejectCooling(p) PROVE Right
    BY <1>1, <2>3 DEF RejectCooling, Reject, TypeInv, TypeOK
  <2>4. ASSUME NEW p \in Requests, RejectQueue(p) PROVE Right
    <3>1. pc' = pc /\ WaitTooLong BY <2>4 DEF RejectQueue, Reject
    <3>2. InFlight # {}
      <4>1. PerLookup \in Nat
        BY <1>1, SettingsAssumption, FarAssumption DEF TypeInv, TypeOK, PerLookup
      <4>2. MaxQueueWait * (IF Available > 1 THEN Available ELSE 1) \in Nat
        BY AvailableCounts, SettingsAssumption
      <4>3. pending # 0 BY <3>1, <4>1, <4>2 DEF WaitTooLong
      <4> QED BY <2>1, <4>3
    <3> QED BY <3>1, <3>2
  <2>5. ASSUME NEW p \in Requests, Admit(p) PROVE Right
    <3>1. Cardinality(InFlight) * Interval <= MaxQueueWait * Available
      BY <1>1, <2>1, <2>5, GuardBound DEF Admit, TypeInv
    <3>2. \A r \in Requests : answer'[r] = "queue_timeout" => answer[r] = "queue_timeout"
      BY <1>1, <2>5 DEF Admit, TypeInv, TypeOK
    <3> QED BY <3>1, <3>2
  <2>6. ASSUME NEW p \in Requests, Run(p) \/ EndLookup(p) PROVE Right
    <3>1. pc[p] # "idle"
      BY <2>6 DEF Run, FindCooled, TakeBrowser, Wake, EndLookup, FinishLookup, FailCaptcha
    <3>2. InFlight # {} BY <3>1 DEF InFlight
    <3>3. \A r \in Requests : r # p => pc'[r] = pc[r]
      <4>1. CASE TakeBrowser(p) \/ Wake(p)
        BY <1>1, <4>1 DEF TakeBrowser, Wake, StartLookup, TypeInv, TypeOK
      <4>2. CASE LetsGo(p)
        BY <1>1, <4>2 DEF LetsGo, MovesOn, Quits, Leave, TypeInv, TypeOK
      <4> QED BY <1>1, <2>6, <4>1, <4>2, FindCooledLetsGo, EndLookupLetsGo DEF Run
    <3> QED BY <3>1, <3>2, <3>3
  <2> QED BY <1>1, <2>2, <2>3, <2>4, <2>5, <2>6 DEF Next
<1>2. TypeInv /\ PendingCountsInFlight /\ [Next]_vars => [Right]_vars
  BY <1>1
<1> QED BY <1>2, TypeCorrect, PendingExact, PTL DEF Spec, QueueGuarded

-----------------------------------------------------------------------------
(* The browsers one request may use. *)

\* A new call starts with no browser tried.
BudgetInv ==
    /\ BrowserBudget
    /\ \A r \in Requests : pc[r] = "idle" => tried[r] = {}

\* A call may try one browser at least: there is one, and max_browsers is not 0.
LEMMA MaxTriesPositive == MaxTries \in Nat /\ MaxTries > 0
BY FS_CardinalityType, FS_EmptySet, SettingsAssumption DEF MaxTries

\* The browsers a request has tried are finitely many; counting one more adds one.
LEMMA TriedFinite ==
    ASSUME TypeOK, NEW r \in Requests
    PROVE  IsFiniteSet(tried[r]) /\ Cardinality(tried[r]) \in Nat
BY FS_Subset, FS_CardinalityType DEF TypeOK

\* What BudgetInv says of one request.
WithinBudget(r) ==
    /\ Cardinality(tried[r]) <= MaxTries
    /\ pc[r] = "waiting" => /\ at[r] \notin tried[r]
                            /\ Cardinality(tried[r]) < MaxTries
    /\ pc[r] \in {"pacing", "driving"} => at[r] \in tried[r]
    /\ pc[r] = "idle" => tried[r] = {}

\* A step of r leaves the budget of the others as it was.
LEMMA BudgetOfOthers ==
    ASSUME BudgetInv, NEW r \in Requests, WithinBudget(r)',
           \A p \in Requests \ {r} :
               pc'[p] = pc[p] /\ at'[p] = at[p] /\ tried'[p] = tried[p]
    PROVE  BudgetInv'
<1>1. \A p \in Requests \ {r} : WithinBudget(p)'
  BY DEF BudgetInv, BrowserBudget, WithinBudget
<1> QED BY <1>1 DEF BudgetInv, BrowserBudget, WithinBudget

\* Every step keeps the budget: a try is counted under the lock, and spent before
\* a repick.
LEMMA BudgetStep ==
    ASSUME TypeInv, BudgetInv, [Next]_vars
    PROVE  BudgetInv'
<1> USE DEF TypeInv
<1>1. CASE UNCHANGED <<pc, at, tried>>
  BY <1>1 DEF BudgetInv, BrowserBudget
<1>2. ASSUME NEW r \in Requests, Admit(r) PROVE BudgetInv'
  <2> PICK s \in Picks({}, coolLeft, queue) : WaitFor(r, s, queue)
    BY <1>2 DEF Admit
  <2>1. tried[r] = {} /\ UNCHANGED tried BY <1>2 DEF Admit, BudgetInv
  <2>2. pc'[r] = "waiting" BY DEF WaitFor, TypeOK
  <2>3. WithinBudget(r)'
    BY <2>1, <2>2, MaxTriesPositive, FS_EmptySet DEF WithinBudget
  <2>4. \A p \in Requests \ {r} : pc'[p] = pc[p] /\ at'[p] = at[p]
    BY DEF WaitFor, TypeOK
  <2> QED BY <2>1, <2>3, <2>4, BudgetOfOthers
<1>3. ASSUME NEW r \in Requests, LetsGo(r), Quits(r) PROVE BudgetInv'
  <2>1. pc'[r] = "idle" /\ tried'[r] = {}
    BY <1>3 DEF Quits, Leave, TypeOK
  <2>2. WithinBudget(r)'
    BY <2>1, MaxTriesPositive, FS_EmptySet DEF WithinBudget
  <2>3. \A p \in Requests \ {r} :
           pc'[p] = pc[p] /\ at'[p] = at[p] /\ tried'[p] = tried[p]
    BY <1>3 DEF Quits, Leave, TypeOK
  <2> QED BY <2>2, <2>3, BudgetOfOthers
<1>4. ASSUME NEW r \in Requests, MovesOn(r), Cardinality(tried[r]) < MaxTries
      PROVE  BudgetInv'
  <2>1. /\ pc'[r] = "waiting" /\ at'[r] \notin tried[r] /\ UNCHANGED tried
        /\ \A p \in Requests \ {r} : pc'[p] = pc[p] /\ at'[p] = at[p]
    BY <1>4 DEF MovesOn, TypeOK
  <2>2. WithinBudget(r)'
    BY <1>4, <2>1, TriedFinite, MaxTriesPositive DEF WithinBudget
  <2> QED BY <2>1, <2>2, BudgetOfOthers
<1>5. ASSUME NEW r \in Requests, FindCooled(r) PROVE BudgetInv'
  <2>1. Cardinality(tried[r]) < MaxTries
    BY <1>5 DEF FindCooled, BudgetInv, BrowserBudget
  <2> QED BY <1>3, <1>4, <1>5, <2>1, FindCooledLetsGo DEF LetsGo
<1>6. ASSUME NEW r \in Requests, EndLookup(r) PROVE BudgetInv'
  <2>1. MovesOn(r) => Cardinality(tried[r]) < MaxTries
    BY <1>6, EndLookupLetsGo, TriedFinite, MaxTriesPositive DEF Spent
  <2> QED BY <1>3, <1>4, <1>6, <2>1, EndLookupLetsGo DEF LetsGo
<1>7. ASSUME NEW r \in Requests, TakeBrowser(r) PROVE BudgetInv'
  <2>1. at[r] \notin tried[r] /\ Cardinality(tried[r]) < MaxTries
    BY <1>7 DEF TakeBrowser, BudgetInv, BrowserBudget
  <2>2. tried'[r] = tried[r] \cup {at[r]} /\ at' = at
    BY <1>7 DEF TakeBrowser, Tried, TypeOK
  <2>3. Cardinality(tried'[r]) = Cardinality(tried[r]) + 1
    BY <2>1, <2>2, TriedFinite, FS_AddElement
  <2>4. pc'[r] \in {"pacing", "driving"}
    BY <1>7 DEF TakeBrowser, StartLookup, TypeOK
  <2>5. WithinBudget(r)'
    BY <2>1, <2>2, <2>3, <2>4, TriedFinite, MaxTriesPositive DEF WithinBudget
  <2>6. \A p \in Requests \ {r} : pc'[p] = pc[p] /\ tried'[p] = tried[p]
    BY <1>7 DEF TakeBrowser, StartLookup, TypeOK
  <2> QED BY <2>2, <2>5, <2>6, BudgetOfOthers
<1>8. ASSUME NEW r \in Requests, Wake(r) PROVE BudgetInv'
  <2>1. UNCHANGED <<at, tried>> /\ pc'[r] = "driving" /\ pc[r] = "pacing"
    BY <1>8 DEF Wake, StartLookup, TypeOK
  <2>2. WithinBudget(r)'
    BY <2>1 DEF WithinBudget, BudgetInv, BrowserBudget
  <2>3. \A p \in Requests \ {r} : pc'[p] = pc[p]
    BY <1>8 DEF Wake, StartLookup, TypeOK
  <2> QED BY <2>1, <2>2, <2>3, BudgetOfOthers
<1>9. CASE UNCHANGED vars \/ Tick
  BY <1>1, <1>9 DEF vars, Tick
<1>10. ASSUME NEW r \in Requests, RejectCooling(r) \/ RejectQueue(r)
       PROVE  BudgetInv'
  BY <1>1, <1>10 DEF RejectCooling, RejectQueue, Reject
<1> QED
  BY <1>2, <1>5, <1>6, <1>7, <1>8, <1>9, <1>10 DEF Next, Run

\* A call uses at most max_browsers browsers and none twice, in whatever order
\* captcha failures, cooldowns found under the lock and repicks come.
THEOREM BudgetKept == Spec => []BrowserBudget
<1>1. Init => BudgetInv
  BY MaxTriesPositive, FS_EmptySet DEF Init, BudgetInv, BrowserBudget
<1>2. Spec => []BudgetInv
  BY <1>1, BudgetStep, TypeCorrect, PTL DEF Spec
<1>3. BudgetInv => BrowserBudget BY DEF BudgetInv
<1> QED BY <1>2, <1>3, PTL
-----------------------------------------------------------------------------
(* The queues of the locks. *)

\* The members of P, and no others, are in the queues q, each once and each where
\* loc has it.
Filed(q, loc, P) ==
    /\ \A s \in Slots : \A i \in DOMAIN q[s] :
        /\ q[s][i] \in P
        /\ loc[q[s][i]] = s
        /\ \A j \in DOMAIN q[s] : q[s][i] = q[s][j] => i = j
    /\ \A p \in P : \E i \in DOMAIN q[loc[p]] : q[loc[p]][i] = p

\* LockDiscipline is Filed for the requests in flight, with their owners.
LEMMA DisciplineIsFiled ==
    ASSUME TypeInv
    PROVE  LockDiscipline <=> Filed(queue, at, InFlight)
<1>1. \A s \in Slots : \A i \in DOMAIN queue[s] : queue[s][i] \in Requests
  BY LenProperties DEF TypeInv, TypeOK
<1>2. \A r \in Requests : r \in InFlight <=> at[r] \in Slots
  BY DEF TypeInv, TypeOK, InFlight
<1>3. ASSUME LockDiscipline PROVE Filed(queue, at, InFlight)
  BY <1>1, <1>2, <1>3 DEF LockDiscipline, Filed, InFlight
<1>4. ASSUME Filed(queue, at, InFlight) PROVE LockDiscipline
  BY <1>4 DEF LockDiscipline, Filed, InFlight, TypeInv, OwnerHolds
<1> QED BY <1>3, <1>4

\* Releasing a lock takes its owner, and nobody else, out of the queues.
LEMMA ReleaseFiles ==
    ASSUME NEW q \in [Slots -> Seq(Requests)], NEW loc, NEW P, Filed(q, loc, P),
           NEW s \in Slots, Locked(q, s)
    PROVE  Filed(Released(q, s), loc, P \ {Head(q[s])})
<1> DEFINE r == Head(q[s])
           m == Released(q, s)
<1>1. /\ q[s] \in Seq(Requests) /\ q[s] # <<>>
      /\ Len(q[s]) \in Nat \ {0} /\ DOMAIN q[s] = 1..Len(q[s])
  BY LenProperties, EmptySeq DEF Locked
<1>2. r = q[s][1] /\ 1 \in DOMAIN q[s] BY <1>1
<1>3. /\ m[s] = Tail(q[s]) /\ DOMAIN m[s] = 1..(Len(q[s]) - 1)
      /\ \A i \in DOMAIN m[s] : m[s][i] = q[s][i + 1] /\ i + 1 \in DOMAIN q[s]
  <2>1. m[s] = Tail(q[s]) BY DEF Released
  <2>2. /\ Tail(q[s]) \in Seq(Requests) /\ Len(Tail(q[s])) = Len(q[s]) - 1
        /\ \A i \in 1..Len(Tail(q[s])) : Tail(q[s])[i] = q[s][i + 1]
    BY <1>1, HeadTailProperties
  <2> QED BY <1>1, <2>1, <2>2, LenProperties
<1>4. \A t \in Slots \ {s} : m[t] = q[t] BY DEF Released
<1>5. ASSUME NEW t \in Slots, NEW i \in DOMAIN m[t]
      PROVE  /\ m[t][i] \in P \ {r}
             /\ loc[m[t][i]] = t
             /\ \A j \in DOMAIN m[t] : m[t][i] = m[t][j] => i = j
  <2>1. CASE t = s
    <3>1. i + 1 # 1 /\ i + 1 \in DOMAIN q[s] /\ m[s][i] = q[s][i + 1]
      BY <1>1, <1>3, <1>5, <2>1
    <3>2. m[s][i] \in P /\ m[s][i] # r /\ loc[m[s][i]] = s
      BY <1>2, <3>1 DEF Filed
    <3>3. ASSUME NEW j \in DOMAIN m[s], m[s][i] = m[s][j] PROVE i = j
      <4>1. \A a, b \in DOMAIN q[s] : q[s][a] = q[s][b] => a = b BY DEF Filed
      <4>2. j + 1 \in DOMAIN q[s] /\ q[s][i + 1] = q[s][j + 1]
        BY <1>3, <3>1, <3>3
      <4>3. i + 1 = j + 1 BY <3>1, <4>1, <4>2
      <4> QED BY <1>1, <1>3, <1>5, <2>1, <4>3
    <3> QED BY <2>1, <3>2, <3>3
  <2>2. CASE t # s
    <3>1. m[t] = q[t] BY <1>4, <2>2
    <3>2. loc[m[t][i]] = t /\ loc[r] = s BY <1>2, <1>5, <3>1 DEF Filed
    <3> QED BY <1>5, <2>2, <3>1, <3>2 DEF Filed
  <2> QED BY <2>1, <2>2
<1>6. ASSUME NEW p \in P \ {r}
      PROVE  \E i \in DOMAIN m[loc[p]] : m[loc[p]][i] = p
  <2> PICK i \in DOMAIN q[loc[p]] : q[loc[p]][i] = p BY DEF Filed
  <2>1. CASE loc[p] = s
    <3>1. i \in 1..Len(q[s]) /\ i # 1 BY <1>1, <1>2, <2>1
    <3>2. i - 1 \in DOMAIN m[s] /\ (i - 1) + 1 = i BY <1>1, <1>3, <3>1
    <3>3. m[s][i - 1] = p BY <1>3, <2>1, <3>2
    <3> QED BY <2>1, <3>2, <3>3
  <2>2. CASE loc[p] # s
    <3>1. m[loc[p]] = q[loc[p]] BY <2>2 DEF Released
    <3> QED BY <3>1
  <2> QED BY <2>1, <2>2
<1> QED BY <1>5, <1>6 DEF Filed

\* Entering a queue files one more request.
LEMMA EnqueueFiles ==
    ASSUME NEW q \in [Slots -> Seq(Requests)], NEW P \in SUBSET Requests,
           NEW loc \in [Requests -> Slots \cup {NoSlot}], Filed(q, loc, P),
           NEW r \in Requests \ P, NEW u \in Slots
    PROVE  Filed(Enqueued(q, u, r), [loc EXCEPT ![r] = u], P \cup {r})
<1> DEFINE m == Enqueued(q, u, r)
           to == [loc EXCEPT ![r] = u]
           last == Len(q[u]) + 1
<1>1. q[u] \in Seq(Requests) /\ DOMAIN q[u] = 1..Len(q[u]) /\ Len(q[u]) \in Nat
  BY LenProperties
<1>2. /\ DOMAIN m[u] = 1..last
      /\ \A i \in DOMAIN q[u] : m[u][i] = q[u][i] /\ i \in DOMAIN m[u]
      /\ m[u][last] = r
  <2>1. m[u] = Append(q[u], r) BY DEF Enqueued
  <2>2. Append(q[u], r) \in Seq(Requests) /\ Len(Append(q[u], r)) = last
    BY <1>1, AppendProperties
  <2>3. DOMAIN m[u] = 1..last BY <2>1, <2>2, LenProperties
  <2> QED BY <1>1, <2>1, <2>3, AppendProperties
<1>3. \A t \in Slots \ {u} : m[t] = q[t] BY DEF Enqueued
<1>4. \A i \in DOMAIN m[u] : i = last \/ i \in DOMAIN q[u] BY <1>1, <1>2
<1>5. to[r] = u /\ \A p \in Requests \ {r} : to[p] = loc[p] OBVIOUS
<1>6. \A t \in Slots : \A i \in DOMAIN q[t] : q[t][i] \in P /\ q[t][i] # r
  BY DEF Filed
<1>7. ASSUME NEW t \in Slots, NEW i \in DOMAIN m[t]
      PROVE  /\ m[t][i] \in P \cup {r}
             /\ to[m[t][i]] = t
             /\ \A j \in DOMAIN m[t] : m[t][i] = m[t][j] => i = j
  <2>1. CASE t = u
    <3> HIDE DEF m, to, last
    <3>1. m[u][i] \in P \cup {r} BY <1>2, <1>4, <1>6, <1>7, <2>1
    <3>2. to[m[u][i]] = u
      <4>1. CASE i = last BY <1>2, <1>5, <4>1
      <4>2. CASE i \in DOMAIN q[u]
        <5>1. loc[q[u][i]] = u BY <4>2 DEF Filed
        <5>2. q[u][i] \in Requests \ {r} BY <1>6, <4>2
        <5> QED BY <1>2, <1>5, <4>2, <5>1, <5>2
      <4> QED BY <1>4, <1>7, <2>1, <4>1, <4>2
    <3>3. ASSUME NEW j \in DOMAIN m[u], m[u][i] = m[u][j] PROVE i = j
      <4>1. \A a, b \in DOMAIN q[u] : q[u][a] = q[u][b] => a = b BY DEF Filed
      <4>2. i = last <=> m[u][i] = r BY <1>2, <1>4, <1>6, <1>7, <2>1
      <4>3. j = last <=> m[u][j] = r BY <1>2, <1>4, <1>6
      <4> QED BY <1>2, <1>4, <1>7, <2>1, <3>3, <4>1, <4>2, <4>3
    <3> QED BY <2>1, <3>1, <3>2, <3>3
  <2>2. CASE t # u
    <3>1. m[t] = q[t] BY <1>3, <2>2
    <3> HIDE DEF m, to
    <3> QED BY <1>5, <1>6, <1>7, <3>1 DEF Filed
  <2> QED BY <2>1, <2>2
<1>8. ASSUME NEW p \in P \cup {r}
      PROVE  \E i \in DOMAIN m[to[p]] : m[to[p]][i] = p
  <2>1. CASE p = r
    <3>1. last \in DOMAIN m[u] BY <1>1, <1>2
    <3> QED BY <1>2, <1>5, <2>1, <3>1
  <2>2. CASE p # r
    <3>1. p \in P /\ to[p] = loc[p] BY <1>5, <2>2
    <3> PICK i \in DOMAIN q[loc[p]] : q[loc[p]][i] = p BY <3>1 DEF Filed
    <3>2. loc[p] = u \/ m[loc[p]] = q[loc[p]] BY DEF Enqueued
    <3> HIDE DEF m, to
    <3> QED BY <1>2, <3>1, <3>2
  <2> QED BY <2>1, <2>2
<1> QED BY <1>7, <1>8 DEF Filed
\* Every step keeps the requests in flight filed in the lock queue of their
\* browser.
LEMMA FiledStep ==
    ASSUME TypeInv, TypeInv', Filed(queue, at, InFlight), [Next]_vars
    PROVE  Filed(queue, at, InFlight)'
<1> USE DEF TypeInv
<1>1. ASSUME UNCHANGED <<queue, at>>, InFlight' = InFlight
      PROVE  Filed(queue, at, InFlight)'
  BY <1>1 DEF Filed
<1>2. ASSUME NEW r \in Requests, Admit(r) PROVE Filed(queue, at, InFlight)'
  <2> PICK s \in Picks({}, coolLeft, queue) : WaitFor(r, s, queue)
    BY <1>2 DEF Admit
  <2>1. s \in Slots BY PicksAreUsable
  <2>2. /\ r \notin InFlight /\ InFlight \in SUBSET Requests
        /\ InFlight' = InFlight \cup {r}
    BY <1>2 DEF Admit, WaitFor, InFlight, TypeOK
  <2>3. queue \in [Slots -> Seq(Requests)] /\ at \in [Requests -> Slots \cup {NoSlot}]
    BY DEF TypeOK
  <2>4. Filed(Enqueued(queue, s, r), [at EXCEPT ![r] = s], InFlight \cup {r})
    BY <2>1, <2>2, <2>3, EnqueueFiles
  <2> QED BY <2>2, <2>4 DEF WaitFor, Filed
<1>3. ASSUME NEW r \in Requests, LetsGo(r) PROVE Filed(queue, at, InFlight)'
  <2> DEFINE m == Released(queue, at[r])
             P == InFlight \ {r}
  <2>1. /\ at[r] \in Slots /\ Locked(queue, at[r]) /\ Head(queue[at[r]]) = r
        /\ queue \in [Slots -> Seq(Requests)]
        /\ at \in [Requests -> Slots \cup {NoSlot}]
        /\ P \in SUBSET Requests /\ r \notin P
    BY <1>3 DEF LetsGo, Owns, TypeOK, InFlight
  <2>2. Filed(m, at, P) BY <2>1, ReleaseFiles
  <2>3. CASE MovesOn(r)
    <3> PICK u \in Slots \ tried[r] :
             /\ pc' = [pc EXCEPT ![r] = "waiting"]
             /\ at' = [at EXCEPT ![r] = u]
             /\ queue' = Enqueued(m, u, r)
      BY <2>3 DEF MovesOn
    <3>1. InFlight' = P \cup {r} BY SMTT(30) DEF InFlight, TypeOK
    <3>2. m \in [Slots -> Seq(Requests)] BY <2>1, ReleasedType
    <3> HIDE DEF m, P
    <3>3. Filed(Enqueued(m, u, r), [at EXCEPT ![r] = u], P \cup {r})
      BY <2>1, <2>2, <3>2, EnqueueFiles
    <3> QED BY <3>1, <3>3 DEF Filed
  <2>4. CASE Quits(r)
    <3>1. InFlight' = P BY <2>4 DEF Quits, Leave, InFlight, TypeOK
    <3>2. queue' = m BY <2>4 DEF Quits
    <3>3. \A p \in P : at'[p] = at[p] BY <2>1, <2>4 DEF Quits, Leave
    <3> HIDE DEF m, P
    <3> QED BY <2>2, <3>1, <3>2, <3>3 DEF Filed
  <2> QED BY <1>3, <2>3, <2>4 DEF LetsGo
<1>4. ASSUME NEW r \in Requests, TakeBrowser(r) \/ Wake(r)
      PROVE  Filed(queue, at, InFlight)'
  <2>1. UNCHANGED <<queue, at>> BY <1>4 DEF TakeBrowser, Wake
  <2>2. InFlight' = InFlight BY <2>1 DEF TypeOK, InFlight
  <2> QED BY <1>1, <2>1, <2>2
<1>5. CASE UNCHANGED <<pc, queue, at>>
  BY <1>1, <1>5 DEF InFlight
<1>6. CASE UNCHANGED vars \/ Tick
  BY <1>5, <1>6 DEF vars, Tick
<1>7. ASSUME NEW r \in Requests, RejectCooling(r) \/ RejectQueue(r)
      PROVE  Filed(queue, at, InFlight)'
  BY <1>5, <1>7 DEF RejectCooling, RejectQueue, Reject
<1> QED
  BY <1>2, <1>3, <1>4, <1>6, <1>7, FindCooledLetsGo, EndLookupLetsGo DEF Next, Run

\* No request is forgotten in front of a free lock, none keeps a lock it has left,
\* and the one that paces or drives is the owner.
THEOREM LocksDisciplined == Spec => []LockDiscipline
<1>1. Init => Filed(queue, at, InFlight) BY DEF Init, Filed, InFlight
<1>2. TypeInv /\ TypeInv' /\ Filed(queue, at, InFlight) /\ [Next]_vars
        => Filed(queue, at, InFlight)'
  BY FiledStep
<1>3. TypeInv /\ Filed(queue, at, InFlight) => LockDiscipline
  BY DisciplineIsFiled
<1> QED BY <1>1, <1>2, <1>3, TypeCorrect, PTL DEF Spec

-----------------------------------------------------------------------------
(* The paced pool. *)

\* Only the owner of a browser's lock drives it.
LEMMA DrivenIsOwner ==
    ASSUME TypeInv, NEW r \in Requests, Owns(r, at[r])
    PROVE  at[r] \in Driven <=> pc[r] = "driving"
BY DEF TypeInv, OwnerHolds, Owns, Driven

\* When only r moves, and leaves no lock but its own, the other browsers are driven
\* as before.
LEMMA DrivenElsewhere ==
    ASSUME TypeInv, NEW r \in Requests,
           at'[r] = at[r] \/ pc'[r] # "driving",
           \A p \in Requests \ {r} : pc'[p] = pc[p] /\ at'[p] = at[p]
    PROVE  Driven' \ {at[r]} = Driven \ {at[r]}
BY DEF Driven

\* Letting go of a browser is the end of a lookup, or nothing to the pool.
LEMMA LetsGoInPool ==
    ASSUME TypeInv, NEW r \in Requests, LetsGo(r),
           pc[r] = "driving" \/ UNCHANGED coolLeft,
           coolLeft' \in {coolLeft, [coolLeft EXCEPT ![at[r]] = Cooldown]}
    PROVE  [Pool!Next]_(Pool!vars)
<1>1. /\ at[r] \in Slots /\ pc'[r] # "driving" /\ UNCHANGED sinceStart
      /\ \A p \in Requests \ {r} : pc'[p] = pc[p] /\ at'[p] = at[p]
  BY DEF LetsGo, MovesOn, Quits, Leave, TypeInv, TypeOK
<1>2. Driven' \ {at[r]} = Driven \ {at[r]} BY <1>1, DrivenElsewhere
<1>3. at[r] \in Driven <=> pc[r] = "driving" BY DrivenIsOwner DEF LetsGo
<1>4. at[r] \notin Driven'
  <2> SUFFICES ASSUME NEW p \in Requests, pc'[p] = "driving", at'[p] = at[r]
               PROVE  FALSE
    BY DEF Driven
  <2>1. p # r /\ pc[p] = "driving" /\ at[p] = at[r] BY <1>1
  <2> QED BY <2>1 DEF TypeInv, OwnerHolds, Owns, LetsGo
<1>5. CASE pc[r] = "driving"
  <2>1. Driven' = Driven \ {at[r]} BY <1>2, <1>4
  <2>2. Pool!Finish(at[r]) BY <1>1, <1>3, <1>5, <2>1 DEF Pool!Finish
  <2> QED BY <1>1, <2>2 DEF Pool!Next
<1>6. CASE pc[r] # "driving"
  <2>1. Driven' = Driven BY <1>2, <1>3, <1>4, <1>6
  <2> QED BY <1>1, <1>6, <2>1 DEF Pool!vars
<1> QED BY <1>5, <1>6

\* Starting a lookup is starting one on an idle browser, past its interval and out
\* of its cooldown.
LEMMA StartInPool ==
    ASSUME TypeInv, NEW r \in Requests, StartLookup(r), UNCHANGED at,
           UNCHANGED coolLeft, at[r] \in Slots, Owns(r, at[r]), pc[r] # "driving",
           sinceStart[at[r]] >= Interval, coolLeft[at[r]] = 0
    PROVE  [Pool!Next]_(Pool!vars)
<1>1. pc'[r] = "driving" /\ \A p \in Requests \ {r} : pc'[p] = pc[p]
  BY DEF StartLookup, TypeInv, TypeOK
<1>2. Driven' \ {at[r]} = Driven \ {at[r]} BY <1>1, DrivenElsewhere
<1>3. at[r] \notin Driven /\ at[r] \in Driven'
  BY <1>1, DrivenIsOwner DEF Driven
<1>4. Driven' = Driven \cup {at[r]} BY <1>2, <1>3
<1>5. Pool!Start(at[r]) BY <1>3, <1>4 DEF Pool!Start, StartLookup
<1> QED BY <1>5 DEF Pool!Next

\* A browser that is paced or driven is not cooling down: only its own failure
\* could send it there, and that ends the lookup.
HeldIsUsable ==
    \A r \in Requests : pc[r] \in {"pacing", "driving"} => coolLeft[at[r]] = 0

\* A failing lookup cools down no browser but the one it was driving.
LEMMA FailCoolsOwn ==
    ASSUME NEW r, EndLookup(r)
    PROVE  coolLeft' \in {coolLeft, [coolLeft EXCEPT ![at[r]] = Cooldown]}
BY DEF EndLookup, FinishLookup, FailCaptcha, CoolDown

\* Every step keeps a held browser usable: only its own holder can send it into a
\* cooldown.
LEMMA HeldStep ==
    ASSUME TypeInv, HeldIsUsable, [Next]_vars
    PROVE  HeldIsUsable'
<1> USE DEF TypeInv
<1>1. ASSUME UNCHANGED coolLeft,
             \A p \in Requests : pc'[p] \in {"pacing", "driving"} =>
                 pc[p] \in {"pacing", "driving"} /\ at'[p] = at[p]
      PROVE  HeldIsUsable'
  BY <1>1 DEF HeldIsUsable
<1>2. CASE UNCHANGED vars
  BY <1>1, <1>2 DEF vars
<1>3. CASE Tick
  <2> SUFFICES ASSUME NEW p \in Requests, pc'[p] \in {"pacing", "driving"}
               PROVE  coolLeft'[at'[p]] = 0
    BY DEF HeldIsUsable
  <2>1. at'[p] = at[p] /\ at[p] \in Slots /\ coolLeft[at[p]] = 0
    BY <1>3 DEF Tick, HeldIsUsable, TypeOK
  <2> QED BY <1>3, <2>1 DEF Tick
<1>4. ASSUME NEW r \in Requests, RejectCooling(r) \/ RejectQueue(r) \/ Admit(r)
      PROVE  HeldIsUsable'
  BY <1>1, <1>4 DEF RejectCooling, RejectQueue, Reject, Admit, WaitFor, TypeOK
<1>5. ASSUME NEW r \in Requests, LetsGo(r),
             coolLeft' \in {coolLeft, [coolLeft EXCEPT ![at[r]] = Cooldown]}
      PROVE  HeldIsUsable'
  <2> SUFFICES ASSUME NEW p \in Requests, pc'[p] \in {"pacing", "driving"}
               PROVE  coolLeft'[at'[p]] = 0
    BY DEF HeldIsUsable
  <2>1. p # r /\ pc[p] = pc'[p] /\ at'[p] = at[p]
    BY <1>5 DEF LetsGo, MovesOn, Quits, Leave, TypeOK
  <2>2. at[p] # at[r] BY <1>5, <2>1 DEF OwnerHolds, Owns, LetsGo
  <2>3. at[p] \in Slots BY <2>1 DEF TypeOK
  <2>4. coolLeft'[at[p]] = coolLeft[at[p]] BY <1>5, <2>2, <2>3 DEF TypeOK
  <2> QED BY <2>1, <2>4 DEF HeldIsUsable
<1>6. ASSUME NEW r \in Requests, TakeBrowser(r) PROVE HeldIsUsable'
  <2>1. at[r] \in Slots /\ coolLeft[at[r]] = 0
    BY <1>6 DEF TakeBrowser, Usable, InCooldown, TypeOK
  <2>2. UNCHANGED <<at, coolLeft>> BY <1>6 DEF TakeBrowser
  <2>3. \A p \in Requests \ {r} : pc'[p] = pc[p]
    BY <1>6 DEF TakeBrowser, StartLookup, TypeOK
  <2> QED BY <2>1, <2>2, <2>3 DEF HeldIsUsable
<1>7. ASSUME NEW r \in Requests, Wake(r) PROVE HeldIsUsable'
  BY <1>1, <1>7 DEF Wake, StartLookup, TypeOK
<1>8. ASSUME NEW r \in Requests, FindCooled(r) PROVE HeldIsUsable'
  BY <1>5, <1>8, FindCooledLetsGo DEF FindCooled
<1>9. ASSUME NEW r \in Requests, EndLookup(r) PROVE HeldIsUsable'
  BY <1>5, <1>9, EndLookupLetsGo, FailCoolsOwn
<1> QED
  BY <1>2, <1>3, <1>4, <1>6, <1>7, <1>8, <1>9 DEF Next, Run

\* A browser that is being paced or driven is not in a cooldown, in every
\* reachable state.
LEMMA HeldUsable == Spec => []HeldIsUsable
<1>1. Init => HeldIsUsable BY DEF Init, HeldIsUsable
<1> QED BY <1>1, HeldStep, TypeCorrect, PTL DEF Spec

\* Every step of the dispatcher is a step of the paced pool or leaves it as it is.
LEMMA StepInPool ==
    ASSUME TypeInv, HeldIsUsable, [Next]_vars
    PROVE  [Pool!Next]_(Pool!vars)
<1>1. ASSUME UNCHANGED <<pc, at, sinceStart, coolLeft>>
      PROVE  [Pool!Next]_(Pool!vars)
  <2>1. Driven' = Driven BY <1>1 DEF Driven
  <2> QED BY <1>1, <2>1 DEF Pool!vars
<1>2. CASE UNCHANGED vars BY <1>1, <1>2 DEF vars
<1>3. CASE Tick
  <2>1. Driven' = Driven BY <1>3 DEF Tick, Driven
  <2> QED BY <1>3, <2>1 DEF Tick, Pool!Tick, Pool!Next
<1>4. ASSUME NEW r \in Requests, RejectCooling(r) \/ RejectQueue(r)
      PROVE  [Pool!Next]_(Pool!vars)
  BY <1>1, <1>4 DEF RejectCooling, RejectQueue, Reject
<1>5. ASSUME NEW r \in Requests, Admit(r) PROVE [Pool!Next]_(Pool!vars)
  <2>1. /\ UNCHANGED <<sinceStart, coolLeft>>
        /\ pc[r] = "idle" /\ pc'[r] = "waiting"
        /\ \A p \in Requests \ {r} : pc'[p] = pc[p] /\ at'[p] = at[p]
    BY <1>5 DEF Admit, WaitFor, TypeInv, TypeOK
  <2>2. Driven' = Driven BY <2>1 DEF Driven
  <2> QED BY <2>1, <2>2 DEF Pool!vars
<1>6. ASSUME NEW r \in Requests, FindCooled(r) PROVE [Pool!Next]_(Pool!vars)
  BY <1>6, FindCooledLetsGo, LetsGoInPool DEF FindCooled
<1>7. ASSUME NEW r \in Requests, EndLookup(r) PROVE [Pool!Next]_(Pool!vars)
  BY <1>7, EndLookupLetsGo, FailCoolsOwn, LetsGoInPool
<1>8. ASSUME NEW r \in Requests, Wake(r) PROVE [Pool!Next]_(Pool!vars)
  <2>1. at[r] \in Slots /\ Owns(r, at[r]) /\ coolLeft[at[r]] = 0
    BY <1>8 DEF Wake, TypeInv, TypeOK, OwnerHolds, HeldIsUsable
  <2> QED BY <1>8, <2>1, StartInPool DEF Wake
<1>9. ASSUME NEW r \in Requests, TakeBrowser(r) PROVE [Pool!Next]_(Pool!vars)
  <2>1. /\ at[r] \in Slots /\ Owns(r, at[r]) /\ coolLeft[at[r]] = 0
        /\ UNCHANGED <<at, coolLeft>> /\ pc[r] = "waiting"
    BY <1>9 DEF TakeBrowser, Usable, InCooldown, TypeInv, TypeOK
  <2>2. CASE sinceStart[at[r]] >= Interval /\ StartLookup(r)
    BY <2>1, <2>2, StartInPool
  <2>3. CASE pc' = [pc EXCEPT ![r] = "pacing"] /\ UNCHANGED sinceStart
    <3>1. Driven' = Driven BY <2>1, <2>3 DEF Driven, TypeInv, TypeOK
    <3> QED BY <2>1, <2>3, <3>1 DEF Pool!vars
  <2> QED BY <1>9, <2>2, <2>3 DEF TakeBrowser
<1> QED
  BY <1>2, <1>3, <1>4, <1>5, <1>6, <1>7, <1>8, <1>9 DEF Next, Run

\* Locks, pacing under the lock, the re-check of the cooldown and the captcha
\* cooldown together implement the paced pool, for every number of requests and
\* browsers and every setting.
THEOREM DispatchImplementsPool == Spec => ImplementsPacedPool
<1>1. Init => Pool!Init
  <2> SUFFICES ASSUME Init PROVE Pool!Init
    OBVIOUS
  <2>1. Driven = {} BY DEF Init, Driven
  <2> QED BY <2>1 DEF Init, Pool!Init
<1> QED
  BY <1>1, StepInPool, TypeCorrect, HeldUsable, PTL DEF Spec, ImplementsPacedPool, Pool!Spec
-----------------------------------------------------------------------------
(* The one clock that get_case sees. *)

\* Among finitely many cooldowns there is a shortest.
LEMMA LeastWait ==
    ASSUME NEW cool \in [Slots -> 0..Cooldown], NEW n,
           n = CHOOSE m \in {cool[s] : s \in Slots} : \A s \in Slots : m <= cool[s]
    PROVE  /\ n \in 0..Cooldown
           /\ \E s \in Slots : n = cool[s]
           /\ \A s \in Slots : n <= cool[s]
<1> DEFINE T == {cool[s] : s \in Slots}
           R == {ss \in Nat \X Nat : ss[1] < ss[2]}
<1>1. T \subseteq Nat /\ T # {} OBVIOUS
<1>2. IsWellFoundedOn(R, Nat) BY NatLessThanWellFounded DEF OpToRel
<1>3. PICK x \in T : \A y \in T : <<y, x>> \notin R
  <2> HIDE DEF R, T
  <2> QED BY <1>1, <1>2, WFMin
<1>4. \A s \in Slots : ~(cool[s] < x) BY <1>1, <1>3
<1>5. \A s \in Slots : x <= cool[s] BY <1>1, <1>4
<1>6. n \in T /\ \A s \in Slots : n <= cool[s] BY <1>5
<1> QED BY <1>6

\* retry_after is the shortest cooldown; it runs exactly while every browser cools.
LEMMA WaitIsLeast ==
    ASSUME TypeOK
    PROVE  /\ retry_after \in 0..Cooldown
           /\ \E s \in Slots : retry_after = coolLeft[s]
           /\ \A s \in Slots : retry_after <= coolLeft[s]
           /\ AllCooling <=> retry_after > 0
<1>1. /\ retry_after \in 0..Cooldown
      /\ \E s \in Slots : retry_after = coolLeft[s]
      /\ \A s \in Slots : retry_after <= coolLeft[s]
  BY LeastWait DEF retry_after, TypeOK
<1> QED BY <1>1 DEF AllCooling, InCooldown, TypeOK

LEMMA NextWaitIsLeast ==
    ASSUME TypeOK'
    PROVE  /\ retry_after' \in 0..Cooldown
           /\ \E s \in Slots : retry_after' = coolLeft'[s]
           /\ \A s \in Slots : retry_after' <= coolLeft'[s]
BY LeastWait DEF retry_after, TypeOK

\* A step that changes only where the requests in flight are is none of the gate.
LEMMA StillInGate ==
    ASSUME UNCHANGED <<coolLeft, answer>>, InFlight' = InFlight
    PROVE  UNCHANGED Gate!vars
BY DEF Gate!vars, retry_after

\* A request that moves on to another browser found one usable: then one was usable
\* before, and the wait is still zero.
LEMMA MoveInGate ==
    ASSUME TypeOK, TypeOK', NEW r \in Requests, pc[r] # "idle", NEW s \in Slots,
           coolLeft'[s] = 0, retry_after = 0 \/ UNCHANGED coolLeft,
           NEW q, WaitFor(r, s, q), UNCHANGED answer
    PROVE  UNCHANGED Gate!vars
<1>1. InFlight' = InFlight BY DEF InFlight, WaitFor, TypeOK
<1>2. retry_after' = 0 BY NextWaitIsLeast
<1>3. retry_after' = retry_after
  <2>1. CASE retry_after = 0 BY <1>2, <2>1
  <2>2. CASE UNCHANGED coolLeft BY <2>2 DEF retry_after
  <2> QED BY <2>1, <2>2
<1> QED BY <1>1, <1>3 DEF Gate!vars

\* A request that leaves ends its lookup.
LEMMA LeaveInGate ==
    ASSUME TypeOK, NEW r \in Requests, pc[r] # "idle",
           NEW outcomes, NEW a \in outcomes, Leave(r, a)
    PROVE  Gate!End(r, outcomes)
<1>1. InFlight' = InFlight \ {r} /\ r \in InFlight BY DEF InFlight, Leave, TypeOK
<1> QED BY <1>1 DEF Gate!End, Leave

\* What picking again can do: go on, or end for want of a browser.
LEMMA PickInGate ==
    ASSUME TypeOK, TypeOK', NEW r \in Requests, pc[r] # "idle",
           NEW q, PickAgain(r, coolLeft', q), retry_after = 0 \/ UNCHANGED coolLeft
    PROVE  [Gate!Next]_(Gate!vars)
<1>1. CASE UNCHANGED answer /\ \E s \in Picks(tried[r], coolLeft', q) : WaitFor(r, s, q)
  <2>1. PICK s \in Picks(tried[r], coolLeft', q) : WaitFor(r, s, q) BY <1>1
  <2>2. s \in Slots /\ ~(coolLeft'[s] > 0) BY PicksAreUsable DEF InCooldown
  <2>3. coolLeft' \in [Slots -> 0..Cooldown] BY DEF TypeOK
  <2>4. coolLeft'[s] = 0 BY <2>2, <2>3
  <2> QED BY <1>1, <2>1, <2>2, <2>4, MoveInGate
<1>2. CASE Leave(r, "browser_unavailable")
  <2>1. Gate!End(r, {"captcha", "browser_unavailable"}) BY <1>2, LeaveInGate
  <2>2. retry_after' \in IF retry_after = 0 THEN 0..Cooldown ELSE {retry_after}
    <3>1. CASE retry_after = 0 BY <3>1, NextWaitIsLeast
    <3>2. CASE UNCHANGED coolLeft
      <4>1. retry_after' = retry_after BY <3>2 DEF retry_after
      <4> QED BY <4>1, NextWaitIsLeast
    <3> QED BY <3>1, <3>2
  <2> QED BY <2>1, <2>2 DEF Gate!Fail, Gate!Next
<1> QED BY <1>1, <1>2 DEF PickAgain

\* Every step of the dispatcher is a step of the gate or leaves it as it is.
LEMMA StepInGate ==
    ASSUME TypeOK, TypeOK', HeldIsUsable, [Next]_vars
    PROVE  [Gate!Next]_(Gate!vars)
<1>1. CASE UNCHANGED vars
  <2>1. InFlight' = InFlight BY <1>1 DEF vars, InFlight
  <2> QED BY <1>1, <2>1, StillInGate DEF vars
<1>2. CASE Tick
  <2>1. InFlight' = InFlight /\ UNCHANGED answer BY <1>2 DEF Tick, InFlight
  <2>2. retry_after' = IF retry_after > 0 THEN retry_after - 1 ELSE 0
    <3>1. PICK s \in Slots : retry_after = coolLeft[s] BY WaitIsLeast
    <3>2. PICK t \in Slots : retry_after' = coolLeft'[t] BY NextWaitIsLeast
    <3>3. /\ coolLeft'[s] = IF coolLeft[s] > 0 THEN coolLeft[s] - 1 ELSE 0
          /\ coolLeft'[t] = IF coolLeft[t] > 0 THEN coolLeft[t] - 1 ELSE 0
          /\ coolLeft[s] \in Nat /\ coolLeft[t] \in Nat
      BY <1>2, <3>1, <3>2 DEF Tick, TypeOK
    <3>4. coolLeft[s] <= coolLeft[t] /\ coolLeft'[t] <= coolLeft'[s]
      BY <3>1, <3>2, WaitIsLeast, NextWaitIsLeast
    <3> QED BY <3>1, <3>2, <3>3, <3>4
  <2> QED BY <2>1, <2>2 DEF Gate!Tick, Gate!Next
<1>3. ASSUME NEW r \in Requests, RejectCooling(r) \/ RejectQueue(r)
      PROVE  [Gate!Next]_(Gate!vars)
  <2>1. /\ r \notin InFlight /\ InFlight' = InFlight
        /\ retry_after' = retry_after
    BY <1>3 DEF RejectCooling, RejectQueue, Reject, InFlight, retry_after
  <2>2. answer' = [answer EXCEPT ![r] = IF retry_after > 0 THEN "browser_unavailable"
                                        ELSE "queue_timeout"]
    BY <1>3, WaitIsLeast DEF RejectCooling, RejectQueue, Reject
  <2> QED BY <2>1, <2>2 DEF Gate!TurnAway, Gate!Next
<1>4. ASSUME NEW r \in Requests, Admit(r) PROVE [Gate!Next]_(Gate!vars)
  <2>1. /\ r \notin InFlight /\ InFlight' = InFlight \cup {r}
        /\ retry_after' = retry_after
    BY <1>4 DEF Admit, WaitFor, InFlight, TypeOK, retry_after
  <2>2. retry_after = 0 BY <1>4, WaitIsLeast DEF Admit
  <2> QED BY <1>4, <2>1, <2>2 DEF Admit, Gate!Begin, Gate!Next
<1>5. ASSUME NEW r \in Requests, TakeBrowser(r) \/ Wake(r)
      PROVE  [Gate!Next]_(Gate!vars)
  <2>1. InFlight' = InFlight
    BY <1>5 DEF TakeBrowser, Wake, StartLookup, InFlight, TypeOK
  <2> QED BY <1>5, <2>1, StillInGate DEF TakeBrowser, Wake
<1>6. ASSUME NEW r \in Requests, FindCooled(r) PROVE [Gate!Next]_(Gate!vars)
  <2>1. PickAgain(r, coolLeft', Released(queue, at[r])) /\ UNCHANGED coolLeft
    BY <1>6 DEF FindCooled
  <2> QED BY <1>6, <2>1, PickInGate DEF FindCooled
<1>7. ASSUME NEW r \in Requests, NEW a \in {"returned", "failed"}, FinishLookup(r, a)
      PROVE  [Gate!Next]_(Gate!vars)
  <2>1. Gate!End(r, {"returned", "failed"}) BY <1>7, LeaveInGate DEF FinishLookup
  <2>2. retry_after' = retry_after BY <1>7 DEF FinishLookup, retry_after
  <2> QED BY <2>1, <2>2 DEF Gate!Finish, Gate!Next
<1>8. ASSUME NEW r \in Requests, NEW cooling \in BOOLEAN, FailCaptcha(r, cooling)
      PROVE  [Gate!Next]_(Gate!vars)
  <2>1. retry_after = 0
    <3>1. at[r] \in Slots /\ coolLeft[at[r]] = 0
      BY <1>8 DEF FailCaptcha, HeldIsUsable, TypeOK
    <3> QED BY <3>1, WaitIsLeast
  <2>2. CASE Leave(r, "captcha")
    <3>1. Gate!End(r, {"captcha", "browser_unavailable"})
      BY <1>8, <2>2, LeaveInGate DEF FailCaptcha
    <3>2. retry_after' \in IF retry_after = 0 THEN 0..Cooldown ELSE {retry_after}
      BY <2>1, NextWaitIsLeast
    <3> QED BY <3>1, <3>2 DEF Gate!Fail, Gate!Next
  <2>3. CASE PickAgain(r, coolLeft', Released(queue, at[r]))
    BY <1>8, <2>1, <2>3, PickInGate DEF FailCaptcha
  <2> QED BY <1>8, <2>2, <2>3 DEF FailCaptcha
<1> QED
  BY <1>1, <1>2, <1>3, <1>4, <1>5, <1>6, <1>7, <1>8 DEF Next, Run, EndLookup

\* However many browsers there are, get_case sees one gate and one clock, which a
\* refusal's Retry-After can be read from: it only runs down.
THEOREM DispatchImplementsGate == Spec => ImplementsLookupGate
<1>1. Init => Gate!Init
  <2> SUFFICES ASSUME Init PROVE Gate!Init
    OBVIOUS
  <2>1. InFlight = {} BY DEF Init, InFlight
  <2>2. TypeOK BY EmptySeq DEF Init, TypeOK, Answers
  <2>3. retry_after = 0 BY <2>2, WaitIsLeast DEF Init
  <2> QED BY <2>1, <2>3 DEF Init, Gate!Init
<1>2. TypeInv => TypeOK BY DEF TypeInv
<1> QED
  BY <1>1, <1>2, StepInGate, TypeCorrect, HeldUsable, PTL
  DEF Spec, ImplementsLookupGate, Gate!Spec
=============================================================================
