# A TLA+ model of eoir-api

eoir-api answers "what is the status of this immigration case" over HTTP by
driving headed Chrome browsers through the ACIS site.  Browsers are few, slow
and guarded by a captcha, so the core of the program is the sharing of them:
who may look something up, on which browser, how fast, how often.  Around it
are a cache, a usage log with quotas, the capture of one answer of the site, a
portal that lists the log, and a library that reads cases and compares them.
This directory models them, checks them with TLC and proves the main properties
with TLAPS.

Paths below are relative to the repository (`src/eoir_api`, `packages/...`).
The whole server is one asyncio event loop (`cli.py`): what runs between two
`await`s is atomic, and this is the grain of every module here.

## The system

| part | state | operations | hard behaviour | what makes it correct |
|---|---|---|---|---|
| Browser dispatch: `CaseService` in `service.py` | per browser a lock, `last_started`, `cooldown_until`; `_pending`; `avg_lookup_seconds`; per request the set `tried` | admission guards of `get_case`, `_pick_browser`, `_lookup` | requests interleave at every lock, sleep and lookup; what was true at the pick is stale under the lock; retries on other browsers | browsers paced, exclusive and left alone in a cooldown; locks never forgotten; `_pending` exact; retries bounded; every admitted request answered |
| Usage log and quota: `usage.py`, `sql/usage.sql` | table `lookups` | `record`, `quota`/`summary`, `prune` | check and record are two database calls with a lookup between; rolling window | overshoot bounded; nothing but time gives quota back; a refusal's Retry-After is worth something |
| Cache and the request around it: `lib/cache.py`, `get_case`, `routes.py` | entries with `stored_at`; per request what its handler holds | `get` (deletes what is stale), `set`; route, hit, quota, lookup, record, reply | two misses for one key in flight; a database call or the process fails between two awaits; a cancelled lookup | only cases cached and served, none stale; the log says what the replies said; `Retry-After` worth something |
| Chrome lifecycle: `acis_browser/browser.py` | `_playwright`, `_context`, `last_used`, a lock | `start`, `close`, `lookup` with attempts and backoff | Chrome dies, start fails half way, close under a lookup | at most one Chrome per profile, none leaked, a lost one replaced |
| Idle reaper and shutdown: `make_browser_lifespan` in `app.py` | none of its own | check every 60 s, `close`; on exit cancel and close all | check-then-act across the browser's lock, cancelled in a close | a browser in use is not torn down under the lookup; all closed in the end |
| Response capture: `_lookup_once`, `_wait_for_response`, `_parse` | `_Capture` (requested, challenged, status, body, received) | page handlers, challenge watcher, timer, closing the page | request, response, challenge, timer and a dying page race | the right reason for a failure (it decides on a cooldown); one answer, one verdict; the attempt ends |
| Auth and portal: `auth.py`, `portal.py`, the `lookups` query | cookie session | login, logout, listing by pages | pages by timestamp over a log that grows and is pruned; timestamps compared as texts | no row shown twice, none skipped but ties; no session past its age |
| acis-core: `case.py`, `diff.py`, `outcome.py` | none; a client keeps the last case | `from_payload`, `diff` | several changes between two polls, fields filled in in any order | everything told, nothing twice |
| Settings, wiring, command line, A-Numbers, nationalities | none | one-shot or pure texts | | (not modelled) |

A request goes: authentication, cleaning of its inputs, cache; then the quota
(database), the admission guards, `_pending + 1`, a browser's lock, the pacing
sleep, `browser.lookup` (which has a lock of its own, shared with the reaper),
possibly another browser; then `_pending - 1`, the record (database), the cache.
Requests meet in the slots, in `_pending` and the average, in the database and
in the cache.  Two background tasks run beside them: the reaper (every minute)
and the prune (every day).

## Modules

    PacedPool            what the pool promises to the upstream site
    LookupGate           what get_case sees of the pool: a gate and one wait
      ^ both implemented by
    LookupDispatch       CaseService's dispatch of requests to browsers
      ^ extended by      MCLookupDispatch (TLC), LookupDispatchProofs (TLAPS)
    UsageQuota           the log of lookups and the quota read from it
      ^ extended by      MCUsageQuota (TLC), UsageQuotaProofs (TLAPS)
    AcisBrowser          one Chrome: start, lookup, close, the reaper, the shutdown
      ^ extended by      MCAcisBrowser (TLC), AcisBrowserProofs (TLAPS)
    AcisPayload          what a response of the site says
      ^ extended by
    ResponseCapture      one attempt: who fills the capture, what is made of it
      ^ extended by      MCResponseCapture (TLC), ResponseCaptureProofs (TLAPS)
    CaseService          a request from the route to its reply, with the cache
      ^ extended by      MCCaseService (TLC), CaseServiceProofs (TLAPS)
    AcisCase             the case that a payload tells of
      ^ extended by
    CaseDiff             diff, and a client that polls
      ^ extended by      MCCaseDiff (TLC), CaseDiffProofs (TLAPS)
    Portal               the session and the listing, over a log that changes
      ^ extended by      MCPortal (TLC), PortalProofs (TLAPS)

The modules cut the program at its awaits, so that what is inside one await of
one module is the subject of another: `CaseService`'s "looking" is
`LookupDispatch`, whose "driving" is `AcisBrowser`'s lookup, whose attempt is
`ResponseCapture`; its "quota" is the SELECT of `UsageQuota`.  Each module
chooses freely among the outcomes the one inside it can have.  Where the inner
module's state is read outside, at the seam between `CaseService` and
`LookupDispatch`, the choice is a module of its own: `LookupGate` says when a
lookup may begin, how it may end, and what happens meanwhile to `retry_after`,
the time until the first of the browsers is usable.  `CaseService` takes `_lookup`
to be no more than that, and `LookupDispatch` implements it.

### LookupDispatch

A request is `idle`, `waiting` in a lock's queue, `pacing` (in `anyio.sleep`,
holding the lock) or `driving` (in `browser.lookup`).  `queue[s]` is
`BrowserSlot.lock`: its owner, then the waiters in order.  anyio's lock is not
part of the repository; it is modelled as its asyncio backend behaves, a FIFO
that is handed directly to the first waiter, which then still has to be
scheduled.  `at` is the local `slot`, `tried` the local set, `answer` the way
the request's last call left.

| action | code |
|---|---|
| `RejectCooling`, `RejectQueue` | the two guards of `get_case` (lines 239-247) |
| `Admit` | guards passed, `_pending += 1`, first `_pick_browser`, into the lock's queue: no await between them |
| `FindCooled` | the check under the lock (157-159): release, pick again; no browser left is `BrowserUnavailableError` |
| `TakeBrowser` | `tried.add`; either the lookup starts at once or the delay is slept |
| `Wake` | the sleep is over, at its deadline or any time later |
| `FinishLookup` | a payload, or an error that is not a `CaptchaError`: average, release, `_pending -= 1` |
| `FailCaptcha` | a `CaptchaError` with or without a cooldown (reason `NO_RESPONSE`): average, budget, release, next browser or out |
| `Tick` | one tick of the clock |

Time: the code only compares clock differences, so the state holds ages:
`sinceStart` (saturating at `Far >= Interval`, where it also stands for
"never") and `coolLeft`.  The moving average is kept in whole ticks, rounded to
either side, so that it takes every value near the real one; no property
depends on its exact value and the bound on the queue holds whatever it is.
`min` in `_pick_browser` takes the first of equal candidates; the model takes
any, because a saturated age does not tell which browser was started first.
The payload and the end of a request by cancellation are in `CaseService`.

### UsageQuota

`table` is the `lookups` table with ages for timestamps, `seen` what a request's
SELECT returned and the task has not acted on yet, `promise` a history variable:
what is left of the `Retry-After` a tenant was last sent, while nothing was
counted since.  `Ask` is the SELECT; `Refuse`, `TurnAway` and `Begin` are what
the resumed task does with it; `Record` and `RecordFails` are the INSERT of
`finally`.  The lookup between them is `LookupDispatch`'s.  `Prune` is allowed at
any time, more often than the daily task.  A database call is one step: the
connection's own concurrency is SQLite's.  Timestamps are taken to order as
times; that their texts do is shown in `Portal`.

### AcisBrowser

One browser and everyone who touches it: any number of tasks in `lookup` (the
server sends one at a time, the class promises more), the reaper, the shutdown.
`pc` names the await a task is in; `holder` and `waiters` are `_lock`, an
`asyncio.Lock`: a free one is taken without an await, so the reaper's look at
`last_used` and its `close()` are one step unless somebody has the lock.
`context` and `driver` say whether `_context` and `_playwright` are set, `chrome`
what is really running on the profile, `orphaned` whether a driver runs that
nothing refers to, `outlived` counts the lookups that ended since Chrome died.

| action | code |
|---|---|
| `Call`, `Resume` | `lookup` up to the first await of `start()` or of the attempt |
| `StartDriver`, `Launch`, `StartFails` | `start()`, called before the `try`: its errors leave everything as it is |
| `Open` | `new_page()` |
| `BackOff`, `Retry` | a `CaptchaError` with attempts left, the sleep, the next attempt |
| `Finish` | a payload, an `UpstreamError`, the last `CaptchaError`; `finally` sets `last_used` |
| `Lost`, `CloseContext`, `StopDriver` | Chrome is gone: `_close()`, then `BrowserLostError` |
| `Check`, `ReaperResume` | the reaper, then `close()` when it had to wait |
| `Exit`, `ShutdownClose` | the end of the lifespan: the reaper is cancelled at any await, then every browser is closed |
| `ChromeDies`, `Tick` | the world |

Chrome may die at any time; an attempt that was already driving it may end with
an error that does not say so, an attempt that opens a page on it cannot.  A
launch that fails leaves no Chrome; a driver that stops takes its Chrome along;
Playwright's close and stop raise only when their process is gone.  The server
(uvicorn) drains its requests before the lifespan ends, so `Exit` finds no lookup.

### ResponseCapture

One attempt, from `page.goto` to the verdict of `_parse`.  `pc` is the await it
is in (six page steps, the wait, the closing of the page), `captured` the
`_Capture`, `watcher` the task of `watch_challenge`, `reading` the responses
whose `text()` is awaited.  Page handlers run whenever the attempt awaits, also
during `page.close()`: `received` may be set after the wait is over and before
`_parse` looks.  The wait for the timer is not measured: it may fire at once.

| action | code |
|---|---|
| `StepEnds`, `StepFails` | goto, hydration, modal, form, captcha widget, click; a `PlaywrightError` becomes an `UpstreamError`, a `TargetClosedError` is passed on |
| `WaitWakes`, `WaitTimesOut` | `asyncio.wait`, the cancelling of the tasks, `task.result()` |
| `CloseEnds` | `page.close()` returns, then `_parse` |
| `WatcherSees`, `WatcherReleased`, `WatcherFails` | `watch_challenge` |
| `OnRequest`, `OnResponse`, `ReadEnds`, `ReadFails` | the handlers, split at the await of `response.text()` |
| `PageDies` | Chrome or the page goes |

A response is its status and what its text holds: unreadable, no JSON, no
object, or a payload, of which `AcisPayload` keeps what `Outcome.from_payload`
looks at: the kind of its `Data`, and the pinned fragments in its message.

### CaseService

A request is at one of the awaits of its handler, or `over` (the handler is left,
the reply not yet sent), or `idle`.  `entries` is `TTLCache._entries`; `held` is
what `get_case` carries over the await (payload or cached value, exception,
`outcome`, the wait an exception names); `rows` and `reply` are history, kept until
the request is closed: what was recorded for it, what it is answered (`status`, 0
for no reply) and what `fetch_case` ended with (`fetched`, 0 where a database call
or a cancellation ended it), which differ when reading the quota for the headers
fails.
`coolLeft` is `CaseService.retry_after`: the time until the first browser is out
of its cooldown.  It changes as `LookupGate` lets it: a wait may begin when a
lookup fails at a captcha, and then only runs down.  A tick is half a second, so
that `round` has something to do.

| action | code |
|---|---|
| `BadInput`, `Call` | the route up to the first await: cleaning, `_cache.get` unless `refresh` |
| `TurnAway`, `Begin` | after the quota check: the three refusals, or into `_lookup` |
| `GetPayload`, `LookupFails` | the `try` of `get_case` with `raise_for_outcome`, `except` and the start of `finally`; a lookup also fails with what `AcisBrowser.start()` raises, Playwright's own error |
| `RecordHit`, `Record` | the INSERT is done; `_cache.set` and the reply, the exception on to `fetch_case`, or past it where no clause matches: a 500; a cancelled lookup is recorded too, and gets no reply |
| `DatabaseFails` | a database call raises at any of the four awaits that make one; nothing catches it: a 500 |
| `Reply` | the quota for the headers is read, the handler returns |
| `Close` | the reply is sent, the request forgotten |
| `Exit` | the process ends; lookups that a forced exit cancelled may get as far as the record of `finally`, with the outcome `ok` they started with |

Litestar does not cancel a handler when its client goes away, and uvicorn
waits for the handlers without a timeout unless it is told twice to stop: only
then are tasks cancelled.

### AcisCase and CaseDiff

`AcisCase` is `Case.from_payload`: the field parsers, the code tables and the
sections.  A raw field is missing, or what its parser reads in it together with
a spelling, so that "8:30 AM" and "08:30" are one time and two raw texts, and a
text that nothing is read in is still true to Python.  `Decision.code` and
`case_type` stay raw, as in the code.

`CaseDiff` is `diff.py`, in the environment it is written for: a client keeps
the case of its last poll and diffs it with the case of the next.  The client
and ACIS are not in the repository and are marked external: `Enter` fills in a
field or rewrites it in another spelling, `Amend` changes what was there or
takes it away, `Poll` diffs and counts what was reported.  The properties are
about what the client was told over many polls, not about a single diff.

### Portal

One person with a browser: `session` is the signed cookie (the tenant's name and
`exp`), `walk` the listing as the person reads it along the "Next" links, with
the rows passed before the current page and the table as it was at the start.
`tenants` are those of the running configuration; a `Restart` may change them
while the cookie stays.  Rows are inserted up to `Slow` ticks after their
timestamp was taken, so not in order of time, and pruned at any time; ids are
given out as SQLite does, one more than the greatest there is, and may be used
again.  Half of the timestamps fall on a whole second, where `isoformat` leaves
out the fraction, and `Before` compares their texts.

| action | code |
|---|---|
| `LogIn`, `LogOut`, `SentToLogin` | the routes, the middleware's refusal |
| `Open`, `NextPage` | `index`, without and with a cursor |
| `BeginRecord`, `Insert` | `TenantUsage.record`: the timestamp, then the INSERT |
| `Prune` | the daily DELETE |
| `Restart`, `Tick` | the world |

## Runs

| run | question | bounds | result |
|---|---|---|---|
| `dispatch_safety` | types, exact `_pending`, lock discipline, retry budget, refinement of `PacedPool` and of `LookupGate` | 3 requests, 3 browsers (two in a group, one in none), `max_browsers` 2, `interval` 1, cooldown 2; requests are symmetric, and so are the two of the group | holds |
| `dispatch_progress` | the queue guard is right about what is in flight; every admitted request is answered | 3 requests, 2 browsers, `interval` 2, `max_queue_wait` 2: all three are let in while both browsers are usable, one is refused while one cools | holds |
| `dispatch_unavailable` | "Raised when every browser is in a captcha cooldown" (`exceptions.py:14`) | as above, `max_queue_wait` 1 | violated |
| `quota_safety` | overshoot, refunds, the worth of a Retry-After | 2 callers of a tenant with quota 1, 1 of a tenant without; 3 rows; window 3 | holds |
| `quota_overshoot` | "Lookups allowed per rolling 24h" (`settings.py:110`) | as above | violated |
| `browser_life` | exclusive use, one Chrome per profile, replacement of a dead one, a clean exit; lookups end, idle browsers are closed, the shutdown ends | 3 callers, 2 attempts, idle timeout 2 | holds |
| `browser_orphan` | "Safe to call repeatedly" (`browser.py:111`) | 2 callers (symmetric), as above | violated |
| `browser_reaped` | "Seconds of inactivity before a browser is torn down" (`settings.py:45`) | as before | violated |
| `capture_outcome` | the reason that starts a cooldown, one answer one verdict, the attempt ends | 2 case requests, answers of 5 kinds, statuses 200 and 500 | holds |
| `case_safety` | what is cached, answered and logged; freshness, duplicates, `Retry-After` | 2 requests (symmetric), 1 key, ttl 2, cooldown 3, an INSERT takes up to 1 tick, 3 ticks | holds |
| `case_diff` | everything is told, nothing twice, backwards the opposite | 4 groups of 4 fields with up to 3 texts each, 2 amendments, any number of polls | holds |
| `portal_pages` | pages descend, skip nothing but ties, stay in their range; sessions end | 2 tenants (symmetric), 1 writer, 4 rows, pages of 2, 4 ticks, days of 2 ticks | holds |

Three requests are the fewest that give a lock an owner, a waiter and a
newcomer, and two of them can fail into each other's queues.  Three browsers
with `max_browsers` 2 separate "budget spent" from "no browser left", and the
group of two makes the choice by group differ from the choice by age.  With
`interval` 1 every lookup may be followed at once by a paced one; the other
instances have the longer interval, and two browsers.  With `max_queue_wait` 2
these let a third request in while both are usable, so that one that has tried
nothing yet finds its browser cooled under the lock and goes to the end of the
other lock's queue, which is what can keep it from being answered; while one
browser cools down the guard refuses the third.  Two callers suffice for the
overshoot, with one caller more than quota; three rows hold one overshoot and one
row that ages out beside it.  When the table is full an INSERT waits for the prune:
it is a bound, not the code, and only safety is asked there.

For a browser three callers give an owner and two in the queue behind or before
the reaper; two attempts give one backoff; an idle timeout of two ticks lets a
lookup outlast it and a close come before it.

In an attempt a second case request gives a second response that overtakes the
first, or one that is still being read.  For `case_safety` two requests of one
key are enough for every race about an entry; a third key would share nothing
with the first but the clock.  Three ticks let an entry of ttl 2 go stale, and a
record outlast a tick; one of the waits has a half second to round, and a
cooldown of 3 is rounded up to 2.  In `case_diff` the four groups are the fields
that one kind of change depends on together (hearing and decision, appeal,
motion to reopen, motion at the BIA); kinds of two groups meet in the proof, not
in the run.  Two amendments are a change and its undoing.  In `portal_pages`
four rows with pages of two make a full page, a tie across its end and a last
page that is not full; four ticks are two whole and two half seconds, two days,
and a session's age.  `Horizon`, `MaxRows`, `MaxRequests`, `Amendments` and
`Slow` are bounds of the model; the proofs hold for every value of them
(in `Portal`, of a `Slow` that is no more than the retention).

### Fairness

`FairSpec` is weakly fair to the clock, to each request that can run (the loop
runs ready tasks, sleeps end) and to the end of each lookup: every await in
`browser.lookup` has a timeout and the attempts are bounded.  Nothing obliges
anyone to call.  `AdmittedIsAnswered` needs one thing more, that browsers stop
cooling down at some time: with captcha failures for ever, a request can find its
browser cooled each time it gets the lock and go to the end of another queue
each time.  The code has no bound on that, and the property says so: without the
proviso TLC finds three requests on two browsers that go round for ever.

The fairness of `AcisBrowser` is of the same kind: each task that can run does,
each await ends, the reaper looks again and again, time passes.  `Call`,
`ChromeDies` and `Exit` are not fair.

In `ResponseCapture` only what has a timeout of its own is fair: a page step
ends or fails, the timer of `asyncio.wait` fires, `page.close()` returns.  No
request, response, text or challenge ever has to come.  The other modules state
no liveness: a request there waits for nothing that another module does not
already cover.

### What disagrees with the documentation

- `BrowserUnavailableError` is raised when no browser is both usable and untried
  by this request.  After a `NO_RESPONSE` failure, which starts no cooldown, that
  is not "every browser is in a captcha cooldown", and `retry_after` is 0.
- A tenant with n concurrent callers can use up to n - 1 lookups above
  `quota_per_day`: all of them pass the check on the last one.
- `start()` after a launch that failed forgets the driver it had started: repeated
  calls leave one driver process behind each.
- The reaper closes a browser that has just been used when the lookup it waited for
  took longer than `idle_timeout`.  With the default (900 s) one attempt does not.

### What the properties had to concede

These hold, but less than one might wish, and the properties say how much less:

- The cache absorbs duplicate calls that follow an answer, not those that come
  together with the first (`DuplicateOnlyInRace`).
- An entry counts its age from the end of the record, so a hit may be older than
  the ttl by the time one INSERT took; for the same reason the cache may go back
  in time by as much (`HitsAreFresh`, `CacheRunsForward`).
- The `Retry-After` of a captcha failure is read after the record and the one of
  `BrowserUnavailableError` before it (`RetryAfterNotOverstated`).
- A lookup cancelled by a forced exit is logged as a counted `ok` and gets no reply.
- A browser that cannot be started is logged and counted as an `upstream_error`, and
  answered by a bare 500: Playwright's error is none that `fetch_case` knows.
- A 500 may stand for a lookup of any outcome, or for none: the log has a row of it
  only if it was the read of the quota for the headers that failed, or the launch
  (`LogAgreesWithReply`).
- Rows with one timestamp across the end of a page are skipped (`OnlyTiesSkipped`).
- An answer that comes in while the watcher fails is thrown away, and a failing
  second read of the quota loses a reply that was ready.
- A hearing whose time is unknown at one poll and differs at the next is not
  reported as moved.

## Proofs

`LookupDispatchProofs`, for any finite set of requests and browsers, any groups
and settings with `max_browsers >= 1`:

- `TypeCorrect`, by `TypeInv`: the types, strengthened by "who paces or drives
  owns the lock" (`OwnerHolds`).  Without it a released lock need not be the one
  its holder leaves, and neither part is inductive.  `OneLookupPerBrowser` follows.
- `PendingExact`: `_pending` is the number of requests in flight.
- `QueueIsBounded`: from `PendingExact` and the guard; only `Admit` raises
  `_pending`, and its guard bounds `_pending * interval` whatever the average is.
  It takes a request more than the browsers can queue to break this bound, too many
  for TLC, so no run checks it.
- `GuardIsRight`: the same of each request that is let in, on the browsers usable
  then, and that nobody is refused for a queue when nothing is in flight.
- `BudgetKept`, by `BudgetInv`: the budget, and an idle request has tried nothing.
- `LocksDisciplined`, by `Filed`: the requests in flight are exactly the entries
  of the lock queues, each at its browser, once.  `ReleaseFiles` and
  `EnqueueFiles` are the two facts about queues it rests on.
- `TypesHold`: the type invariant of the run, from `TypeInv`.
- `DispatchImplementsPool`: each step maps to a step of `PacedPool` or a stutter.
  It needs `HeldIsUsable`: between the check under the lock and the end of the
  pacing sleep nobody can send the browser into a cooldown, since only the
  lock's owner can.
- `DispatchImplementsGate`: the same for `LookupGate`, with `retry_after` the least
  of the cooldowns (`LeastWait`, from the well-foundedness of the naturals).  It
  needs `HeldIsUsable` too: a lookup that fails was on a usable browser, so the wait
  was zero before, and a request that moves on has found another usable one, so it
  still is (`MoveInGate`).  While there is a wait nobody drives, so nobody prolongs it.

`UsageQuotaProofs`, for any tenants, quotas, callers, window and retention at
least as long as the window:

- `TypeCorrect`.
- `QuotaOvershoot`: used lookups plus the requests past the check never exceed
  the quota by more than the callers less one.  `QuotaStep` sorts every step into
  one that eases the quota, one that charges a request already counted, or one
  that lets a request pass with quota left.
- `TimeRefunds`: row by row; a pruned row has already left the window.
- `RefusalResets`, by `ResetInv`: while a promise (or a refusal not yet acted on)
  runs, either the room is already there or some counted row leaves the window
  within that time, and the rest fits without it.  `LeastNatural` (from the
  well-foundedness of the naturals) gives the oldest row that `reset_at` names.

`AcisBrowserProofs`, for any set of callers, attempts and idle timeout, all from
one invariant `IInv`: who is past the lock is its holder (`Exclusive`); who may run
in which stage (`Staged`); what each label implies of `_context`, `_playwright` and
the attempt (`Finds`); without a driver nothing runs, and while serving no Chrome
runs unreferred (`Referred`: it fails between the cancelled reaper and the
shutdown's close, which is why it speaks of the stage); nobody gets past `new_page`
on a Chrome that a lookup has outlived (`Outlived`).  `TypeCorrect`, `InUseStaysOpen`,
`ProfileIsExclusive`, `DeadChromeDropped` and `ExitIsClean` follow.

`CaseServiceProofs`, for any requests, keys, ttl, cooldown and slowness of an
INSERT, from one invariant `IInv`.  The properties are about replies, so the
invariant is about what a request carries while it waits: `Serving` (whose payload
it holds, of when, and that an entry of the cache is of its key), `Telling` (the
outcome that will be recorded goes with the exception that will become the reply;
before its handler is left a request has neither row nor reply, and one that waits
for its headers has a status), `Waiting` (the wait an exception names was true when
it was raised, less what has passed) and `Missed` (a request on its way to a
lookup has only entries beside it that were stored after it came).  A step touches
one request alone (`Locality`), so `Telling` and `LogAgreesWithReply` are proved of
that one, by what each kind of step leaves (`AnswerEffect`, `RecordReplies` and the
other effects).
`TypesHold`, `CasesServed` and `LogAgrees` follow at once; `HitsFresh`,
`CacheForward`, `DuplicatesRace` and `RetryAfterHolds` are proved of each step.

`ResponseCaptureProofs`, for any bodies the site may answer with and any number of
case requests.  The verdict is read from the capture in one step, after which
nothing happens, so the invariant `IInv` is about what the capture holds until
then: which came first, request or challenge, and what the flags say of it
(`FirstNoticed`); why the watcher stopped and why the wait ended (`WatcherDone`,
`WaitEnded`); that the body held is one that was read (`BodyOfAnswer`) and, of a
single answer, held together with its status (`OneAnswerHeld`); and that the verdict
is the one of the capture or of the error (`VerdictOfCapture`).  None of these parts
is inductive alone: that a challenge was noted only before a request is what makes
the end of the wait mean something.  `TypesHold`, `CooldownIsJustified` and
`OneAnswerDecides` follow, and `RequestsAreWaitedFor`, which says of the wait what the
second says of its verdict and has no run of its own.

`PortalProofs`, for any tenants, days, page size, session age and history of the
log.  `BeforeIsLess` shows that the texts of timestamps order as the times do, half
seconds included, `DayBounds` that the two midnights enclose the days asked for,
`RankCounts` and the lemmas after it what a page takes of the rows selected: the
newest, each once, no more than fit.  The invariant is about the pages passed:
`Covered`, a row of the walk's start that is still there and not below the cursor
was shown, or one of its timestamp with a greater id.  Ids are used again, so a new
row might be taken for one of the start that was pruned; it is not, since those are
older than the retention (`Pruned`) and new ones at most `Slow` old
(`RecordsRecent`), which is why `SlowAssumption` asks for `Slow <= Retention`.
`PagesInOrder`, `OnlyRangeShown` and `NoRowButTiesSkipped` follow, and `SessionsEnd`
from `SessionOfLogin`.

`CaseDiffProofs`, for any payload, any texts and any number of amendments.  A list
of changes is a concatenation of parts; `DiffTimes` says how often it has each kind
and `DiffReports` which kinds it has, `SameCaseNoChange` that a case differs in
nothing from itself.

- `NoNewsIsMissed`: what the client sees now and did not at first differs either
  between the first and the last poll but one, or between that and the last.  It
  needs `MotionsWellFormed`: a motion is pending exactly when it has no decision
  date (part of `TypesHold`).
- `BackwardsOpposite`: `ToldBackwards` goes through the cases of `hearing_change`;
  times must be numbers, which the invariant `Readable` has of the page and of the
  hearing last seen.
- `NothingToldTwice`: while fields are only filled in, the page keeps what it had
  (`EnterKeeps`), hence so does the case that is parsed from it (`PayloadKept`, down
  to the code tables), and of a case that is kept a diff tells what was gained, each
  once (`KeptTimes`).  The invariant `OnceInv` relates three cases, the first seen,
  the last seen and the page's, and bounds each count by what was gained between the
  first two; counts of successive polls add up (`CountsAdd`).  Its hypothesis
  `NoneIsNoRecord` says that Python's None is no record of fields, which nothing in
  TLA+ says of an unspecified constant.  It is a hypothesis of the theorem and not an
  ASSUME of the module because TLC cannot ask for the domain of a model value.

The assumptions are the named ASSUMEs of the modules, which TLC evaluates:
finite sets, `max_browsers >= 1`, `attempts >= 1`, `quota_per_day >= 1`, retention
not below the window nor below the slowness of an INSERT, sentinels that are no
data, times that are naturals, payloads that have the fields the parsers read, with
numbers where dates and times are read.

Only model-checked: the liveness properties (`AdmittedIsAnswered`, `LookupIsServed`,
`IdleIsClosed`, `ShutdownEnds`, `AttemptEnds`; liveness under fairness is beyond
TLAPS), and the violations.

## Not modelled

- Settings and their validation, the command line, the construction of the
  application: they run once, before anything else does.
- A-Numbers and nationalities: pure texts and a table; a request here is of a key,
  or refused as `BadInput`.
- API keys: comparing them is one line of a library; a request is of a tenant.  The
  rate limit of the login form, signing and encryption of the cookie, and the
  dispatch of routes are Litestar's.
- The values of the `X-RateLimit` headers (they are `UsageQuota`'s numbers as
  texts), `/healthz`, the OpenAPI schema, the templates, logging.
- The inside of SQLite, Playwright and hCaptcha: their calls end, fail or hang up to
  their timeout.
- How a page of ACIS reacts to keystrokes: a page step ends or fails.

## Plan

Every safety property and every refinement that a passing run checks is stated by a
theorem.  What is left is the other seams between modules: that an attempt of
`AcisBrowser` ends in the ways `ResponseCapture` allows, and that the quota check of
`CaseService` is the SELECT of `UsageQuota`.  Both are free choices outside of what the inner module
shows, so nothing is wrong without them; a theorem would say so.
