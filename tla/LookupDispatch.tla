--------------------------- MODULE LookupDispatch ---------------------------
(***************************************************************************)
(* How CaseService (src/eoir_api/service.py) shares a pool of browsers     *)
(* among concurrent requests: the admission guards of get_case, the choice *)
(* of a browser, the wait for its lock, the pacing slept under the lock,   *)
(* the captcha cooldown and the retry on another browser.                  *)
(*                                                                         *)
(* The program is one asyncio event loop, so everything between two awaits *)
(* is one step here.  A request is                                         *)
(*   "idle"     not in _lookup,                                            *)
(*   "waiting"  in acquire() of the lock of browser at[r],                 *)
(*   "pacing"   in anyio.sleep(delay), holding that lock,                  *)
(*   "driving"  in browser.lookup, holding that lock.                      *)
(* anyio.Lock is external: a FIFO with direct hand-off.  queue[s] holds    *)
(* its owner first and then the tasks that wait for it.  The owner of a    *)
(* lock that was handed over is still "waiting" until it is scheduled.     *)
(***************************************************************************)
EXTENDS Integers, Sequences, FiniteSets

CONSTANTS
    Requests,      \* concurrent callers of get_case, each calling again and again
    Slots,         \* the configured browsers (CaseService._slots)
    GroupOf,       \* GroupOf[s]: the browser's group, or NoGroup
    NoGroup,
    NoSlot,        \* at[r] of a request that is at no browser
    Interval,      \* settings.lookup.interval, in ticks
    Cooldown,      \* settings.lookup.captcha_cooldown, in ticks
    MaxBrowsers,   \* settings.lookup.max_browsers
    MaxQueueWait,  \* settings.lookup.max_queue_wait, in ticks
    InitialAvg,    \* the initial avg_lookup_seconds, in ticks
    Far            \* BOUND: ages and durations stop counting here

ASSUME RequestsAssumption == IsFiniteSet(Requests)
ASSUME SlotsAssumption == IsFiniteSet(Slots) /\ Slots # {} /\ NoSlot \notin Slots
ASSUME SettingsAssumption ==
    /\ Interval \in Nat
    /\ Cooldown \in Nat
    /\ MaxBrowsers \in Nat \ {0}
    /\ MaxQueueWait \in Nat
ASSUME FarAssumption == Far \in Nat /\ Far >= Interval /\ InitialAvg \in 0..Far

VARIABLES
    pc,          \* where each request is
    at,          \* the browser it waits for or holds
    tried,       \* the browsers whose lock it got (_lookup's local)
    answer,      \* how its last call of get_case left _lookup
    queue,       \* BrowserSlot.lock: owner first, then the waiters
    sinceStart,  \* clock() - BrowserSlot.last_started, at most Far
    coolLeft,    \* BrowserSlot.cooldown_until - clock(), at least 0
    pending,     \* CaseService._pending
    avg          \* CaseService.avg_lookup_seconds, in whole ticks

requestVars == <<pc, at, tried, answer>>
vars == <<pc, at, tried, answer, queue, sinceStart, coolLeft, pending, avg>>

Answers == {"none", "returned", "failed", "captcha",
            "browser_unavailable", "queue_timeout"}

Init ==
    /\ pc = [r \in Requests |-> "idle"]
    /\ at = [r \in Requests |-> NoSlot]
    /\ tried = [r \in Requests |-> {}]
    /\ answer = [r \in Requests |-> "none"]
    /\ queue = [s \in Slots |-> <<>>]
    /\ sinceStart = [s \in Slots |-> Far]
    /\ coolLeft = [s \in Slots |-> 0]
    /\ pending = 0
    /\ avg = InitialAvg

-----------------------------------------------------------------------------
(* The lock of a browser. *)

Locked(q, s) == q[s] # <<>>
Owns(r, s) == Locked(queue, s) /\ Head(queue[s]) = r
Enqueued(q, s, r) == [q EXCEPT ![s] = Append(@, r)]
Released(q, s) == [q EXCEPT ![s] = Tail(@)]

(* The choice of a browser: _pick_browser. *)

InCooldown(cool, s) == cool[s] > 0
Candidates(exclude, cool) == {s \in Slots \ exclude : ~InCooldown(cool, s)}
InTriedGroup(s, exclude) == GroupOf[s] \in {GroupOf[t] : t \in exclude} \ {NoGroup}

\* s comes before t: an untried group first, then an unlocked browser, then the
\* least recently started.
Rank(s, exclude, q) ==
    (IF InTriedGroup(s, exclude) THEN 2 ELSE 0) + (IF Locked(q, s) THEN 1 ELSE 0)
Preferred(s, t, exclude, q) ==
    \/ Rank(s, exclude, q) < Rank(t, exclude, q)
    \/ /\ Rank(s, exclude, q) = Rank(t, exclude, q)
       /\ sinceStart[s] > sinceStart[t]

\* min() takes the first of equals in configuration order; here any of them,
\* since equal ages may hide different ones (see Far).
Picks(exclude, cool, q) ==
    {s \in Candidates(exclude, cool) :
        \A t \in Candidates(exclude, cool) : ~Preferred(t, s, exclude, q)}

(* The guards of get_case. *)

AllCooling == \A s \in Slots : InCooldown(coolLeft, s)
\* Mutant: until the last browser is usable again.
retry_afterOfLast ==
    CHOOSE n \in {coolLeft[s] : s \in Slots} : \A s \in Slots : n >= coolLeft[s]
\* Until the first browser is usable again.
retry_after ==
    CHOOSE n \in {coolLeft[s] : s \in Slots} : \A s \in Slots : n <= coolLeft[s]
Available == Cardinality({s \in Slots : ~InCooldown(coolLeft, s)})
\* Mutant: the pace of a browser left out of the estimate.
PerLookupUnpaced == avg
PerLookup == IF avg > Interval THEN avg ELSE Interval
\* estimated_wait > max_queue_wait, without the division
WaitTooLong ==
    pending * PerLookup > MaxQueueWait * (IF Available > 1 THEN Available ELSE 1)

MaxTries == IF MaxBrowsers < Cardinality(Slots) THEN MaxBrowsers
            ELSE Cardinality(Slots)

\* The moving average with EWMA_ALPHA = 0.3, rounded to either side.
Averages(duration) ==
    {(3 * duration + 7 * avg) \div 10, (3 * duration + 7 * avg + 9) \div 10}

-----------------------------------------------------------------------------
(* The steps of a request.  Leave and Pick are the two ways to end a step   *)
(* that has no browser in hand: out of _lookup, or in some lock's queue.    *)

\* Mutant: the decrement missing on one way out.
LeaveCounted(r, a) ==
    /\ pc' = [pc EXCEPT ![r] = "idle"]
    /\ at' = [at EXCEPT ![r] = NoSlot]
    /\ tried' = [tried EXCEPT ![r] = {}]
    /\ answer' = [answer EXCEPT ![r] = a]
    /\ pending' = IF a = "browser_unavailable" THEN pending ELSE pending - 1
Leave(r, a) ==
    /\ pc' = [pc EXCEPT ![r] = "idle"]
    /\ at' = [at EXCEPT ![r] = NoSlot]
    /\ tried' = [tried EXCEPT ![r] = {}]
    /\ answer' = [answer EXCEPT ![r] = a]
    /\ pending' = pending - 1

WaitFor(r, s, q) ==
    /\ pc' = [pc EXCEPT ![r] = "waiting"]
    /\ at' = [at EXCEPT ![r] = s]
    /\ queue' = Enqueued(q, s, r)

\* The next turn of _lookup's loop; q and cool are the locks and the cooldowns
\* as this step leaves them.
PickAgain(r, cool, q) ==
    \/ /\ \E s \in Picks(tried[r], cool, q) : WaitFor(r, s, q)
       /\ UNCHANGED <<tried, answer, pending>>
    \/ /\ Candidates(tried[r], cool) = {}
       /\ queue' = q
       /\ Leave(r, "browser_unavailable")

Reject(r, a) ==
    /\ answer' = [answer EXCEPT ![r] = a]
    /\ UNCHANGED <<pc, at, tried, queue, sinceStart, coolLeft, pending, avg>>

\* Every browser is cooling down: refused at the door.
RejectCooling(r) ==
    /\ pc[r] = "idle"
    /\ AllCooling
    /\ Reject(r, "browser_unavailable")

\* The projected wait is too long: refused at the door.
RejectQueue(r) ==
    /\ pc[r] = "idle"
    /\ ~AllCooling
    /\ WaitTooLong
    /\ Reject(r, "queue_timeout")

\* Past the guards, counted as pending and into a lock's queue, with no await
\* between them.
Admit(r) ==
    /\ pc[r] = "idle"
    /\ ~AllCooling
    /\ ~WaitTooLong
    /\ pending' = pending + 1
    /\ answer' = [answer EXCEPT ![r] = "none"]
    /\ \E s \in Picks({}, coolLeft, queue) : WaitFor(r, s, queue)
    /\ UNCHANGED <<tried, sinceStart, coolLeft, avg>>

\* Mutant: the lock kept when the loop goes round.
FindCooledLocked(r) ==
    /\ pc[r] = "waiting"
    /\ Owns(r, at[r])
    /\ InCooldown(coolLeft, at[r])
    /\ PickAgain(r, coolLeft, queue)
    /\ UNCHANGED <<sinceStart, coolLeft, avg>>

\* The request has the lock, but the browser cooled down while it waited: it
\* lets go and picks again, the browser not counted as tried.
FindCooled(r) ==
    LET s == at[r] IN
    /\ pc[r] = "waiting"
    /\ Owns(r, s)
    /\ InCooldown(coolLeft, s)
    /\ PickAgain(r, coolLeft, Released(queue, s))
    /\ UNCHANGED <<sinceStart, coolLeft, avg>>

\* Mutants: no look at the cooldown under the lock; a try that is not counted.
UsableUnchecked(s) == TRUE
Usable(s) == ~InCooldown(coolLeft, s)
TriedUncounted(r) == tried[r]
Tried(r) == tried[r] \cup {at[r]}

StartLookup(r) ==
    /\ pc' = [pc EXCEPT ![r] = "driving"]
    /\ sinceStart' = [sinceStart EXCEPT ![at[r]] = 0]

\* The request has the lock of a usable browser: it starts the lookup at once,
\* or sleeps until the browser's interval has passed.
TakeBrowser(r) ==
    LET s == at[r] IN
    /\ pc[r] = "waiting"
    /\ Owns(r, s)
    /\ Usable(s)
    /\ tried' = [tried EXCEPT ![r] = Tried(r)]
    /\ \/ sinceStart[s] >= Interval /\ StartLookup(r)
       \/ /\ sinceStart[s] < Interval
          /\ pc' = [pc EXCEPT ![r] = "pacing"]
          /\ UNCHANGED sinceStart
    /\ UNCHANGED <<at, answer, queue, coolLeft, pending, avg>>

\* The sleep is over, at its deadline or later.
Wake(r) ==
    /\ pc[r] = "pacing"
    /\ sinceStart[at[r]] >= Interval
    /\ StartLookup(r)
    /\ UNCHANGED <<at, tried, answer, queue, coolLeft, pending, avg>>

\* browser.lookup returns a payload, or raises anything but CaptchaError.
FinishLookup(r, a) ==
    /\ pc[r] = "driving"
    /\ avg' \in Averages(sinceStart[at[r]])
    /\ queue' = Released(queue, at[r])
    /\ Leave(r, a)
    /\ UNCHANGED <<sinceStart, coolLeft>>

\* browser.lookup raises CaptchaError; cooling says that the reason is not
\* NO_RESPONSE.
CoolDown(s, cooling) ==
    IF cooling THEN [coolLeft EXCEPT ![s] = Cooldown] ELSE coolLeft

\* Mutant: one browser more.
SpentLate(r) == Cardinality(tried[r]) > MaxTries
Spent(r) == Cardinality(tried[r]) >= MaxTries

FailCaptcha(r, cooling) ==
    LET s == at[r] IN
    /\ pc[r] = "driving"
    /\ coolLeft' = CoolDown(s, cooling)
    /\ avg' \in Averages(sinceStart[s])
    /\ \/ /\ Spent(r)
          /\ queue' = Released(queue, s)
          /\ Leave(r, "captcha")
       \/ /\ ~Spent(r)
          /\ PickAgain(r, coolLeft', Released(queue, s))
    /\ UNCHANGED sinceStart

\* Mutant: max(0, ...) left out.
TickUnclamped ==
    /\ sinceStart' = [s \in Slots |-> IF sinceStart[s] < Far
                                      THEN sinceStart[s] + 1 ELSE Far]
    /\ coolLeft' = [s \in Slots |-> coolLeft[s] - 1]
    /\ UNCHANGED <<pc, at, tried, answer, queue, pending, avg>>
Tick ==
    /\ sinceStart' = [s \in Slots |-> IF sinceStart[s] < Far
                                      THEN sinceStart[s] + 1 ELSE Far]
    /\ coolLeft' = [s \in Slots |-> IF coolLeft[s] > 0
                                    THEN coolLeft[s] - 1 ELSE 0]
    /\ UNCHANGED <<pc, at, tried, answer, queue, pending, avg>>

Run(r) == FindCooled(r) \/ TakeBrowser(r) \/ Wake(r)
EndLookup(r) ==
    \/ \E a \in {"returned", "failed"} : FinishLookup(r, a)
    \/ \E cooling \in BOOLEAN : FailCaptcha(r, cooling)

Next ==
    \/ Tick
    \/ \E r \in Requests :
        RejectCooling(r) \/ RejectQueue(r) \/ Admit(r) \/ Run(r) \/ EndLookup(r)

Spec == Init /\ [][Next]_vars

\* The event loop runs every task that is ready, sleeps end, browser.lookup
\* has a timeout on each of its awaits, and time passes.  Nobody is bound to call.
Fairness ==
    /\ WF_vars(Tick)
    /\ \A r \in Requests : WF_vars(Run(r)) /\ WF_vars(EndLookup(r))

FairSpec == Spec /\ Fairness

-----------------------------------------------------------------------------
(* Properties. *)

TypeOK ==
    /\ pc \in [Requests -> {"idle", "waiting", "pacing", "driving"}]
    /\ at \in [Requests -> Slots \cup {NoSlot}]
    /\ \A r \in Requests : at[r] = NoSlot <=> pc[r] = "idle"
    /\ tried \in [Requests -> SUBSET Slots]
    /\ answer \in [Requests -> Answers]
    /\ queue \in [Slots -> Seq(Requests)]
    /\ sinceStart \in [Slots -> 0..Far]
    /\ coolLeft \in [Slots -> 0..Cooldown]
    /\ pending \in Int
    /\ avg \in 0..Far

InFlight == {r \in Requests : pc[r] # "idle"}

\* _pending counts exactly the requests between its increment and its decrement
\* (service.py, get_case): no path through the retries, the cooldown re-check or
\* the two ways of running out of browsers loses or repeats a decrement.
PendingCountsInFlight == pending = Cardinality(InFlight)

\* Each lock's queue holds the requests that are at that browser, each once; the
\* one that paces or drives is its owner.  So no request is forgotten in front of a
\* free lock and none keeps a lock it has left.
LockDiscipline ==
    /\ \A s \in Slots : \A i \in DOMAIN queue[s] :
        /\ at[queue[s][i]] = s
        /\ \A j \in DOMAIN queue[s] : queue[s][i] = queue[s][j] => i = j
    /\ \A r \in Requests : pc[r] # "idle" =>
        \E i \in DOMAIN queue[at[r]] : queue[at[r]][i] = r
    /\ \A r \in Requests : pc[r] \in {"pacing", "driving"} => Owns(r, at[r])

\* One request uses at most max_browsers browsers, whatever the order of captcha
\* failures, cooldowns found under the lock and repicks: it never waits for one it
\* has tried, and never waits when its tries are spent.
BrowserBudget == \A r \in Requests :
    /\ Cardinality(tried[r]) <= MaxTries
    /\ pc[r] = "waiting" => /\ at[r] \notin tried[r]
                            /\ Cardinality(tried[r]) < MaxTries
    /\ pc[r] \in {"pacing", "driving"} => at[r] \in tried[r]

\* The queue guard judges by a count and an average (service.py, get_case); what a
\* caller waits behind is what really is in flight.  Whoever is let in finds no more
\* of it than max_queue_wait holds of interval-paced lookups on the browsers usable
\* then, and nobody is refused for a queue while nothing is in flight, as an idle
\* service would do for ever had _pending missed some decrements.
QueueGuarded ==
    [][\A r \in Requests :
        /\ pc[r] = "idle" /\ pc'[r] # "idle" =>
             Cardinality(InFlight) * Interval <= MaxQueueWait * Available
        /\ answer[r] # "queue_timeout" /\ answer'[r] = "queue_timeout" => InFlight # {}]_vars

\* The upstream sees a paced pool: see PacedPool.
Driven == {at[r] : r \in {p \in Requests : pc[p] = "driving"}}
Pool == INSTANCE PacedPool WITH busy <- Driven
ImplementsPacedPool == Pool!Spec

\* What get_case and its callers are told of many browsers is what LookupGate says:
\* a lookup begins only while one is usable, and the wait that a refusal names only
\* runs down, whatever the lookups that are still under way do (service.py,
\* retry_after: "Seconds until a browser is out of captcha cooldown").
Gate == INSTANCE LookupGate WITH looking <- InFlight
ImplementsLookupGate == Gate!Spec

\* Every admitted request is answered, provided browsers stop cooling down: with
\* cooldowns for ever, a request can lose its place in queue after queue.
CoolsDown == \E r \in Requests : FailCaptcha(r, TRUE)
AdmittedIsAnswered ==
    \/ []<><<CoolsDown>>_vars
    \/ \A r \in Requests : pc[r] # "idle" ~> pc[r] = "idle"

\* exceptions.py: BrowserUnavailableError is "Raised when every browser is in a
\* captcha cooldown."
UnavailableMeansAllCooling ==
    [][\A r \in Requests :
        answer'[r] = "browser_unavailable" /\ answer[r] # "browser_unavailable"
            => AllCooling']_vars
=============================================================================
