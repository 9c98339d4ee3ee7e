---------------------------- MODULE CaseService ----------------------------
(***************************************************************************)
(* A request from the route to its reply: lookup_case and fetch_case        *)
(* (routes.py), CaseService.get_case (service.py) and TTLCache              *)
(* (lib/cache.py).  The lookup itself is one await here: LookupDispatch has *)
(* what happens in it, UsageQuota what the quota check reads.               *)
(*                                                                          *)
(* A request is at one of the awaits of its handler:                        *)
(*   "hit"        recording a cached answer,                                *)
(*   "quota"      in _check_quota,                                          *)
(*   "looking"    in _lookup,                                               *)
(*   "recording"  in the record of get_case's finally,                      *)
(*   "headers"    reading the quota again for the rate-limit headers,       *)
(* or it is "over", its handler left and its reply on the way, or "idle".   *)
(* A tick is half a second: Retry-After is rounded to seconds.              *)
(***************************************************************************)
EXTENDS AcisPayload, Integers, Sequences

CONSTANTS
    Requests, Keys,  \* a key is an A-Number and a nationality
    NoEntry,
    Ttl,             \* cache_ttl
    Cooldown,        \* captcha_cooldown
    Waits,           \* the waits that a quota or a full queue may name
    Slow,            \* bound: how long an INSERT may take
    Horizon          \* bound: the clock stops here

ASSUME TimesAssumption ==
    Ttl \in Nat /\ Cooldown \in Nat /\ Slow \in Nat /\ Horizon \in Nat /\ Waits \subseteq Nat

VARIABLES
    now,
    entries,   \* TTLCache._entries
    coolLeft,  \* retry_after: until the first browser is out of its cooldown
    pc,
    asked,     \* key, refresh flag and arrival of the request
    held,      \* what its get_case holds: the payload or entry value, the exception
    rows,      \* history: what was recorded for the request
    reply      \* history: what it was answered, and what fetch_case ended with

local == <<asked, held, rows, reply>>
vars == <<now, entries, coolLeft, pc, local>>

\* A payload: whose it is, its Outcome and when the page gave it.
Value(key, says, at) == [key |-> key, says |-> says, at |-> at]
NoValue == Value(NoEntry, "OTHER", 0)

\* at: since when held; outcome: the local of get_case; wait: exc.retry_after
Held(value, error, outcome, wait) ==
    [value |-> value, error |-> error, outcome |-> outcome, wait |-> wait, at |-> now]
Nothing == [value |-> NoValue, error |-> "none", outcome |-> "ok", wait |-> 0, at |-> 0]
NotAsked == [key |-> NoEntry, refresh |-> FALSE, at |-> 0]
\* status: 0 is no reply; fetched: 0 is a fetch_case that did not end by itself
NoReply == [status |-> 0, fetched |-> 0, retry_after |-> 0, cached |-> FALSE, value |-> NoValue]

Init ==
    /\ now = 0
    /\ entries = [k \in Keys |-> NoEntry]
    /\ coolLeft = 0
    /\ pc = [r \in Requests |-> "idle"]
    /\ asked = [r \in Requests |-> NotAsked]
    /\ held = [r \in Requests |-> Nothing]
    /\ rows = [r \in Requests |-> <<>>]
    /\ reply = [r \in Requests |-> NoReply]

Goto(r, label) == pc' = [pc EXCEPT ![r] = label]
Hold(r, what) == held' = [held EXCEPT ![r] = what]

-----------------------------------------------------------------------------
(* TTLCache. *)

\* Mutant: an entry is still fresh at its ttl.
IsStaleLate(entry) == now - entry.stored_at > Ttl
IsStale(entry) == now - entry.stored_at >= Ttl

Get(k) == IF entries[k] # NoEntry /\ IsStale(entries[k]) THEN NoEntry ELSE entries[k]

\* get deletes the entry it finds stale.
AfterGet(k) == [entries EXCEPT ![k] = Get(k)]

AfterSet(k, value) == [entries EXCEPT ![k] = [value |-> value, stored_at |-> now]]

-----------------------------------------------------------------------------
(* routes.py: which reply an exception of get_case becomes. *)

Half(n) == n \div 2

\* round() of half seconds, to the even second when it is a tie
Round(ticks) == IF ticks % 4 = 3 THEN Half(ticks) + 1 ELSE Half(ticks)

RetryAfterHeader(ticks) == IF Round(ticks) < 1 THEN 1 ELSE Round(ticks)

StatusOf(error) ==
    CASE error = "none" -> 200
      [] error = "ClientException" -> 400
      [] error \in {"CaseNotFoundError", "InvalidNationalityError"} -> 404
      [] error = "CaseUnavailableError" -> 422
      [] error \in {"QuotaExceededError", "QueueTimeoutError"} -> 429
      [] error \in {"CaptchaError", "BrowserUnavailableError", "BrowserLostError"} -> 503
      [] error = "UpstreamError" -> 502
      [] OTHER -> 500  \* nothing catches it

\* Mutant: a captcha failure always names the whole cooldown.
RetryOfWhole(error, wait) ==
    CASE error \in {"QuotaExceededError", "QueueTimeoutError", "BrowserUnavailableError"}
           -> RetryAfterHeader(wait)
      [] error = "CaptchaError" -> RetryAfterHeader(Cooldown)
      [] error = "BrowserLostError" -> 1
      [] OTHER -> 0
\* Retry-After, 0 for none.  Of a CaptchaError it is read from the service when
\* the reply is made, of the others it was fixed when they were raised.
RetryOf(error, wait) ==
    CASE error \in {"QuotaExceededError", "QueueTimeoutError", "BrowserUnavailableError"}
           -> RetryAfterHeader(wait)
      [] error = "CaptchaError" -> RetryAfterHeader(coolLeft)
      [] error = "BrowserLostError" -> 1
      [] OTHER -> 0

\* fetch_case ends with a case or an HTTPException, and lookup_case reads the quota.
Answer(r, error, wait, cached, value) ==
    /\ reply' = [reply EXCEPT ![r] = [status |-> StatusOf(error), fetched |-> StatusOf(error),
                                      retry_after |-> RetryOf(error, wait),
                                      cached |-> cached, value |-> value]]
    /\ Goto(r, "headers")
    /\ Hold(r, Nothing)

Refuse(r, error, wait) == Answer(r, error, wait, FALSE, NoValue)

\* An exception that nobody catches leaves the handler: a 500 without those headers.
Crash(r, fetched, cached) ==
    /\ reply' = [reply EXCEPT ![r] = [status |-> 500, fetched |-> fetched, retry_after |-> 0,
                                      cached |-> cached, value |-> NoValue]]
    /\ Goto(r, "over")
    /\ Hold(r, Nothing)

-----------------------------------------------------------------------------
(* The request. *)

Arrive(r, k, refresh) ==
    /\ pc[r] = "idle"
    /\ asked' = [asked EXCEPT ![r] = [key |-> k, refresh |-> refresh, at |-> now]]

\* normalize_a_number or resolve raises.
BadInput(r) ==
    /\ Arrive(r, NoEntry, FALSE)
    /\ Refuse(r, "ClientException", 0)
    /\ UNCHANGED <<now, entries, coolLeft, rows>>

\* Mutant: the refresh flag the wrong way round.
CallInverted(r, k, refresh) ==
    LET found == IF refresh THEN Get(k) ELSE NoEntry IN
    /\ Arrive(r, k, refresh)
    /\ entries' = IF refresh THEN AfterGet(k) ELSE entries
    /\ IF found = NoEntry
       THEN Goto(r, "quota") /\ Hold(r, Held(NoValue, "none", "ok", 0))
       ELSE Goto(r, "hit") /\ Hold(r, Held(found.value, "none", "ok", 0))
    /\ UNCHANGED <<now, coolLeft, rows, reply>>
Call(r, k, refresh) ==
    LET found == IF refresh THEN NoEntry ELSE Get(k) IN
    /\ Arrive(r, k, refresh)
    /\ entries' = IF refresh THEN entries ELSE AfterGet(k)
    /\ IF found = NoEntry
       THEN Goto(r, "quota") /\ Hold(r, Held(NoValue, "none", "ok", 0))
       ELSE Goto(r, "hit") /\ Hold(r, Held(found.value, "none", "ok", 0))
    /\ UNCHANGED <<now, coolLeft, rows, reply>>

\* The quota check raises, or one of the guards after it.
TurnAway(r) ==
    /\ pc[r] = "quota"
    /\ \/ \E wait \in Waits : Refuse(r, "QuotaExceededError", wait)
       \/ coolLeft > 0 /\ Refuse(r, "BrowserUnavailableError", coolLeft)
       \/ coolLeft = 0 /\ \E wait \in Waits : Refuse(r, "QueueTimeoutError", wait)
    /\ UNCHANGED <<now, entries, coolLeft, asked, rows>>

Begin(r) ==
    /\ pc[r] = "quota"
    /\ coolLeft = 0
    /\ Goto(r, "looking")
    /\ UNCHANGED <<now, entries, coolLeft, local>>

\* Mutant: an exception that OUTCOMES does not list.
OutcomeOfUnlisted(error) ==
    CASE error = "CaseNotFoundError" -> "not_found"
      [] error = "InvalidNationalityError" -> "invalid_nationality"
      [] error \in {"CaptchaError", "BrowserUnavailableError"} -> "captcha"
      [] OTHER -> "upstream_error"
\* OUTCOMES.get(type(exc), "upstream_error"): the class itself, not its bases
OutcomeOf(error) ==
    CASE error = "CaseNotFoundError" -> "not_found"
      [] error = "InvalidNationalityError" -> "invalid_nationality"
      [] error = "CaseUnavailableError" -> "unavailable"
      [] error \in {"CaptchaError", "BrowserUnavailableError"} -> "captcha"
      [] OTHER -> "upstream_error"

\* What except and finally make of a lookup, with the exception it raised or "none".
Conclude(r, value, error, wait) ==
    /\ Goto(r, "recording")
    /\ Hold(r, Held(value, error, IF error = "none" THEN "ok" ELSE OutcomeOf(error), wait))
    /\ UNCHANGED <<now, entries, asked, rows, reply>>

\* A CAPTCHA_REJECTED payload never leaves the browser, which raises for it.
GotPayload(r, says, error) ==
    Conclude(r, IF error = "none" THEN Value(asked[r].key, says, now) ELSE NoValue, error, 0)
PayloadOutcomes == Outcome \ {"CAPTCHA_REJECTED"}

\* Mutant: the payload is not looked at before it is taken for a case.
GetPayloadUnchecked(r) ==
    /\ pc[r] = "looking"
    /\ \E says \in PayloadOutcomes : GotPayload(r, says, "none")
    /\ UNCHANGED coolLeft
\* _lookup returns a payload; of no case, raise_for_outcome raises.
GetPayload(r) ==
    /\ pc[r] = "looking"
    /\ \E says \in PayloadOutcomes : GotPayload(r, says, RaiseForOutcome(says))
    /\ UNCHANGED coolLeft

\* _lookup raises.  The wait for a browser may begin with a captcha: as in
\* LookupGate.  What AcisBrowser.start() raises comes as it is, as Playwright's.
LookupFails(r) ==
    /\ pc[r] = "looking"
    /\ \/ /\ \E error \in {"UpstreamError", "BrowserLostError", "PlaywrightError"} :
               Conclude(r, NoValue, error, 0)
          /\ UNCHANGED coolLeft
       \/ /\ coolLeft' \in IF coolLeft = 0 THEN 0..Cooldown ELSE {coolLeft}
          /\ \/ Conclude(r, NoValue, "CaptchaError", 0)
             \/ Conclude(r, NoValue, "BrowserUnavailableError", coolLeft')

Row(r, cached) == [outcome |-> held[r].outcome, cached |-> cached]
Insert(r, cached) == rows' = [rows EXCEPT ![r] = Append(@, Row(r, cached))]

\* Mutant: a hit stores its entry anew.
RecordHitSliding(r) ==
    /\ pc[r] = "hit"
    /\ Insert(r, TRUE)
    /\ entries' = AfterSet(asked[r].key, held[r].value)
    /\ Answer(r, "none", 0, TRUE, held[r].value)
    /\ UNCHANGED <<now, coolLeft, asked>>
RecordHit(r) ==
    /\ pc[r] = "hit"
    /\ Insert(r, TRUE)
    /\ Answer(r, "none", 0, TRUE, held[r].value)
    /\ UNCHANGED <<now, entries, coolLeft, asked>>

\* The record is written: the payload is cached, or the exception goes on, to
\* fetch_case or past it; a cancelled lookup is recorded all the same, unanswered.
Record(r) ==
    /\ pc[r] = "recording"
    /\ Insert(r, FALSE)
    /\ \/ /\ held[r].error = "none"
          /\ entries' = AfterSet(asked[r].key, held[r].value)
          /\ Answer(r, "none", 0, FALSE, held[r].value)
       \/ /\ held[r].error \notin {"none", "PlaywrightError", "CancelledError"}
          /\ Refuse(r, held[r].error, held[r].wait)
          /\ UNCHANGED entries
       \/ /\ held[r].error = "PlaywrightError"
          /\ Crash(r, StatusOf(held[r].error), FALSE)
          /\ UNCHANGED entries
       \/ /\ held[r].error = "CancelledError"
          /\ Goto(r, "over") /\ Hold(r, Nothing)
          /\ UNCHANGED <<entries, reply>>
    /\ UNCHANGED <<now, coolLeft, asked>>

\* An await of the database raises, in place of whatever the request had come
\* to, and nothing catches it; the reply that waited for its headers is lost too.
DatabaseFails(r) ==
    /\ pc[r] \in {"hit", "quota", "recording", "headers"}
    /\ Crash(r, reply[r].fetched, reply[r].cached)
    /\ UNCHANGED <<now, entries, coolLeft, asked, rows>>

Reply(r) ==
    /\ pc[r] = "headers"
    /\ Goto(r, "over")
    /\ UNCHANGED <<now, entries, coolLeft, local>>

\* The reply is sent, if there is one, and the request forgotten.
Close(r) ==
    /\ pc[r] = "over"
    /\ Goto(r, "idle")
    /\ asked' = [asked EXCEPT ![r] = NotAsked]
    /\ rows' = [rows EXCEPT ![r] = <<>>]
    /\ reply' = [reply EXCEPT ![r] = NoReply]
    /\ UNCHANGED <<now, entries, coolLeft, held>>

\* The process ends: killed, or by a forced exit, where asyncio cancels every
\* task at its await.  Out of _lookup the finally still records then, with the
\* outcome get_case started with.  The next process has an empty cache.
Exit(recorded) ==
    /\ recorded \subseteq {r \in Requests : pc[r] = "looking"}
    /\ pc' = [r \in Requests |-> IF r \in recorded THEN "recording" ELSE "idle"]
    /\ held' = [r \in Requests |-> IF r \in recorded THEN Held(NoValue, "CancelledError", "ok", 0)
                                   ELSE Nothing]
    /\ asked' = [r \in Requests |-> IF r \in recorded THEN asked[r] ELSE NotAsked]
    /\ rows' = [r \in Requests |-> <<>>]
    /\ reply' = [r \in Requests |-> NoReply]
    /\ entries' = [k \in Keys |-> NoEntry]
    /\ coolLeft' = 0
    /\ UNCHANGED now

\* Mutant: a cooldown that has ended goes on below zero.
TickPastZero ==
    /\ now < Horizon
    /\ \A r \in Requests : pc[r] \in {"hit", "recording"} => now - held[r].at < Slow
    /\ now' = now + 1
    /\ coolLeft' = coolLeft - 1
    /\ UNCHANGED <<entries, pc, local>>
Tick ==
    /\ now < Horizon
    /\ \A r \in Requests : pc[r] \in {"hit", "recording"} => now - held[r].at < Slow
    /\ now' = now + 1
    /\ coolLeft' = IF coolLeft > 0 THEN coolLeft - 1 ELSE 0
    /\ UNCHANGED <<entries, pc, local>>

Step(r) ==
    \/ BadInput(r) \/ \E k \in Keys, refresh \in BOOLEAN : Call(r, k, refresh)
    \/ TurnAway(r) \/ Begin(r) \/ GetPayload(r) \/ LookupFails(r)
    \/ RecordHit(r) \/ Record(r) \/ DatabaseFails(r) \/ Reply(r) \/ Close(r)

Next ==
    \/ Tick
    \/ \E r \in Requests : Step(r)
    \/ \E recorded \in SUBSET Requests : Exit(recorded)

Spec == Init /\ [][Next]_vars

-----------------------------------------------------------------------------
(* Properties. *)

Statuses == {200, 400, 404, 422, 429, 500, 502, 503}
LookupOutcomes == {"ok", "not_found", "invalid_nationality", "unavailable", "captcha",
                   "upstream_error"}
Exceptions == {"CaptchaError", "CaseNotFoundError", "InvalidNationalityError",
               "CaseUnavailableError", "UpstreamError", "BrowserLostError",
               "BrowserUnavailableError", "PlaywrightError", "CancelledError"}
Values == [key : Keys \cup {NoEntry}, says : Outcome, at : Nat]

EntryType == [value : Values, stored_at : Nat] \cup {NoEntry}
Labels == {"idle", "hit", "quota", "looking", "recording", "headers", "over"}
AskedType == [key : Keys \cup {NoEntry}, refresh : BOOLEAN, at : Nat]
HeldType == [value : Values, error : Exceptions \cup {"none"}, outcome : LookupOutcomes,
             wait : Nat, at : Nat]
RowType == [outcome : LookupOutcomes, cached : BOOLEAN]
ReplyType == [status : Statuses \cup {0}, fetched : Statuses \cup {0}, retry_after : Nat,
              cached : BOOLEAN, value : Values]

TypeOK ==
    /\ now \in Nat /\ coolLeft \in 0..Cooldown
    /\ entries \in [Keys -> EntryType]
    /\ pc \in [Requests -> Labels]
    /\ asked \in [Requests -> AskedType]
    /\ held \in [Requests -> HeldType]
    /\ rows \in [Requests -> Seq(RowType)]
    /\ reply \in [Requests -> ReplyType]

\* Only a case is cached, under its own key, and only a case is answered, to who
\* asked for it; an answer to a request with the refresh flag was looked up since
\* the request arrived.  Payloads of no case end as exceptions, and the answer
\* passes two awaits between the check and the reply.
OnlyCasesServed ==
    /\ \A k \in Keys : entries[k] # NoEntry =>
         entries[k].value.key = k /\ entries[k].value.says = "OK"
    /\ \A r \in Requests : pc[r] \in {"headers", "over"} /\ reply[r].status = 200 =>
         /\ reply[r].value.key = asked[r].key
         /\ reply[r].value.says = "OK"
         /\ asked[r].refresh => reply[r].value.at >= asked[r].at

\* The rows a request may have left in the log, by what fetch_case ended with.
Logged(fetched, cached) ==
    LET row(outcomes) == {<<[outcome |-> o, cached |-> FALSE]>> : o \in outcomes} IN
    CASE fetched = 200 -> {<<[outcome |-> "ok", cached |-> cached]>>}
      [] fetched = 404 -> row({"not_found", "invalid_nationality"})
      [] fetched = 422 -> row({"unavailable"})
      [] fetched \in {500, 502} -> row({"upstream_error"})
      [] fetched = 503 -> row({"captcha", "upstream_error"}) \cup {<<>>}
      [] OTHER -> {<<>>}

Left(r) == pc[r] \in {"headers", "over"}

\* The usage log agrees with how every request ends, whatever raised where.  An
\* answer was recorded exactly once, as what it was, a refusal not at all, an error
\* as the error that its status tells: the status goes by exception class,
\* subclasses first, the record by the exact class.  What nothing catches is recorded
\* as an error of the site.  A failing database call leaves no row but the one that
\* was there: a 500 for want of headers is of a lookup that counts.  Only a cancelled
\* lookup ends without a reply, with one row that says ok.
LogAgreesWithReply ==
    \A r \in Requests :
        /\ ~Left(r) => rows[r] = <<>>
        /\ Left(r) /\ reply[r].status # 0 =>
             /\ reply[r].status \in {reply[r].fetched, 500}
             /\ rows[r] \in Logged(reply[r].fetched, reply[r].cached)
        /\ Left(r) /\ reply[r].status = 0 => rows[r] = <<[outcome |-> "ok", cached |-> FALSE]>>

\* "Seconds to cache a successful lookup result" (settings.py:60): what a hit finds
\* was shown by the page less than the ttl ago, and the time its record took:
\* stored_at is read after that await, not when the page answered.
HitsAreFresh ==
    [][\A r \in Requests : pc[r] = "idle" /\ pc'[r] = "hit" =>
         now - held'[r].value.at < Ttl + Slow]_vars

\* Of two lookups of one key the one recorded last wins the cache, even if it
\* saw the page first; but the cache never goes back by more than a record takes,
\* and never lives longer for it.
CacheRunsForward ==
    [][\A k \in Keys : entries[k] # NoEntry /\ entries'[k] # NoEntry =>
         /\ entries'[k].value.at >= entries[k].value.at - Slow
         /\ entries'[k].stored_at >= entries[k].stored_at]_vars

\* "Absorbs consumer retries and duplicate calls" (config.example.toml:38) is true
\* of calls that follow an answer: a lookup that starts beside a fresh entry, not
\* asked to refresh, is of a call that came before the entry was stored.  The
\* cache is not looked at again after the await of the quota check.
DuplicateOnlyInRace ==
    [][\A r \in Requests : pc[r] = "quota" /\ pc'[r] = "looking" /\ ~asked[r].refresh =>
         LET entry == entries[asked[r].key] IN
         entry # NoEntry /\ ~IsStale(entry) => entry.stored_at >= asked[r].at]_vars

\* The Retry-After of a 503 is at least a second and overstates the time until
\* the first browser is usable by no more than its rounding and the record that
\* ran between the exception and the reply.
RetryAfterNotOverstated ==
    [][\A r \in Requests : pc[r] # "headers" /\ pc'[r] = "headers" /\ reply'[r].status = 503 =>
         /\ reply'[r].retry_after >= 1
         /\ \/ reply'[r].retry_after = 1
            \/ 2 * reply'[r].retry_after <= coolLeft + Slow + 1]_vars
=============================================================================
