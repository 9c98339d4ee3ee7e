---------------------------- MODULE AcisBrowser ----------------------------
(***************************************************************************)
(* The life of one Chrome: AcisBrowser (packages/acis-browser, browser.py)  *)
(* with its start, lookup and close, the reaper that closes an idle browser *)
(* and the shutdown (src/eoir_api/app.py, make_browser_lifespan).           *)
(*                                                                          *)
(* AcisBrowser is two references, _playwright (a driver process) and        *)
(* _context (the Chrome that driver launched on the profile), and a lock.   *)
(* A task that has the lock is                                              *)
(*   "starting"   in async_playwright().start(),                            *)
(*   "launching"  in launch_persistent_context(),                           *)
(*   "opening"    in new_page(), at the start of an attempt,                *)
(*   "driving"    in the rest of the attempt,                               *)
(*   "backoff"    in the sleep before the next attempt,                     *)
(*   "closing"    in _context.close(),                                      *)
(*   "stopping"   in _playwright.stop().                                    *)
(* asyncio.Lock is external: a free lock is taken without an await, a       *)
(* released one goes to the first waiter, which still has to be scheduled.  *)
(***************************************************************************)
EXTENDS Integers, Sequences

CONSTANTS
    Lookups,      \* tasks that call lookup, each again and again
    Reaper, Shutdown, NoTask,
    Attempts,     \* lookup_attempts
    IdleTimeout   \* settings.chrome.idle_timeout, in ticks

Tasks == Lookups \cup {Reaper, Shutdown}

ASSUME TasksAssumption ==
    /\ Reaper # Shutdown
    /\ {Reaper, Shutdown} \cap Lookups = {}
    /\ NoTask \notin Tasks
ASSUME SettingsAssumption == Attempts \in Nat \ {0} /\ IdleTimeout \in Nat

VARIABLES
    stage,      \* "serving", then "exiting" while browsers are closed, "exited"
    pc,
    holder,     \* the task that has _lock, or was handed it
    waiters,
    context,    \* whether _context is set
    driver,     \* whether _playwright is set
    chrome,     \* the Chrome on the profile: "none", "running" or "dead"
    orphaned,   \* a driver runs that _playwright does not refer to
    attempt,    \* the local attempt of the lookup that has the lock
    sinceUsed,  \* time.monotonic() - last_used, at most IdleTimeout
    outlived    \* how many lookups have ended since Chrome died

processes == <<context, driver, chrome, orphaned>>
vars == <<stage, pc, holder, waiters, processes, attempt, sinceUsed, outlived>>

Init ==
    /\ stage = "serving"
    /\ pc = [t \in Tasks |-> "idle"]
    /\ holder = NoTask
    /\ waiters = <<>>
    /\ context = FALSE
    /\ driver = FALSE
    /\ chrome = "none"
    /\ orphaned = FALSE
    /\ attempt = 1
    /\ sinceUsed = IdleTimeout
    /\ outlived = 0

Goto(t, label) == pc' = [pc EXCEPT ![t] = label]

-----------------------------------------------------------------------------
(* The lock. *)

Take(t) == holder = NoTask /\ holder' = t /\ UNCHANGED waiters

Wait(t) ==
    /\ holder # NoTask
    /\ waiters' = Append(waiters, t)
    /\ Goto(t, "waiting")
    /\ UNCHANGED holder

Release ==
    /\ holder' = IF waiters = <<>> THEN NoTask ELSE Head(waiters)
    /\ waiters' = IF waiters = <<>> THEN <<>> ELSE Tail(waiters)

Resumed(t) == pc[t] = "waiting" /\ holder = t

(* The ends of a task's turn. *)

Leave(t) == Goto(t, "idle") /\ Release

\* The finally of lookup.
EndLookup(l) ==
    /\ Leave(l)
    /\ sinceUsed' = 0
    /\ outlived' = IF chrome' = "dead" THEN outlived + 1 ELSE 0

-----------------------------------------------------------------------------
(* lookup, up to its first attempt. *)

\* Mutant: start() without its early return.
BeginLookupAnew(l) ==
    /\ Goto(l, "starting")
    /\ sinceUsed' = 0
    /\ attempt' = 1
BeginLookup(l) ==
    /\ Goto(l, IF context THEN "opening" ELSE "starting")
    /\ sinceUsed' = 0
    /\ attempt' = 1

Call(l) ==
    /\ stage = "serving"
    /\ pc[l] = "idle"
    /\ \/ Take(l) /\ BeginLookup(l)
       \/ Wait(l) /\ UNCHANGED <<sinceUsed, attempt>>
    /\ UNCHANGED <<stage, processes, outlived>>

Resume(l) ==
    /\ Resumed(l)
    /\ BeginLookup(l)
    /\ UNCHANGED <<stage, holder, waiters, processes, outlived>>

\* A driver that _playwright refers to already is forgotten, not stopped.
StartDriver(l) ==
    /\ pc[l] = "starting"
    /\ driver' = TRUE
    /\ orphaned' = (orphaned \/ driver)
    /\ Goto(l, "launching")
    /\ UNCHANGED <<stage, holder, waiters, context, chrome, attempt, sinceUsed, outlived>>

Launch(l) ==
    /\ pc[l] = "launching"
    /\ context' = TRUE
    /\ chrome' = "running"
    /\ outlived' = 0
    /\ Goto(l, "opening")
    /\ UNCHANGED <<stage, holder, waiters, driver, orphaned, attempt, sinceUsed>>

\* Mutant: the lock kept.
StartFailsLocked(l) ==
    /\ pc[l] \in {"starting", "launching"}
    /\ Goto(l, "idle")
    /\ UNCHANGED <<stage, holder, waiters, processes, attempt, sinceUsed, outlived>>
\* start() raises out of lookup: it is called before the try.
StartFails(l) ==
    /\ pc[l] \in {"starting", "launching"}
    /\ Leave(l)
    /\ UNCHANGED <<stage, processes, attempt, sinceUsed, outlived>>

(* The attempts. *)

Open(l) ==
    /\ pc[l] = "opening"
    /\ chrome = "running"
    /\ Goto(l, "driving")
    /\ UNCHANGED <<stage, holder, waiters, processes, attempt, sinceUsed, outlived>>

\* Mutant: one attempt more.
BackOffLate(l) ==
    /\ pc[l] = "driving"
    /\ attempt <= Attempts
    /\ Goto(l, "backoff")
    /\ UNCHANGED <<stage, holder, waiters, processes, attempt, sinceUsed, outlived>>
\* A captcha failure with attempts left: sleep with the lock, then try again.
BackOff(l) ==
    /\ pc[l] = "driving"
    /\ attempt < Attempts
    /\ Goto(l, "backoff")
    /\ UNCHANGED <<stage, holder, waiters, processes, attempt, sinceUsed, outlived>>

Retry(l) ==
    /\ pc[l] = "backoff"
    /\ attempt' = attempt + 1
    /\ Goto(l, "opening")
    /\ UNCHANGED <<stage, holder, waiters, processes, sinceUsed, outlived>>

\* A payload, an UpstreamError, or the captcha failure of the last attempt.  Chrome
\* may have died meanwhile: not every PlaywrightError says so.
Finish(l) ==
    /\ pc[l] = "driving"
    /\ UNCHANGED <<stage, processes, attempt>>
    /\ EndLookup(l)

\* An error that says that the page, Chrome or the driver is gone.
Lost(l) ==
    /\ pc[l] \in {"opening", "driving"}
    /\ Goto(l, "closing")
    /\ UNCHANGED <<stage, holder, waiters, processes, attempt, sinceUsed, outlived>>

-----------------------------------------------------------------------------
(* _close, by a lookup that lost its browser, by the reaper or by the shutdown. *)


\* Mutant: the driver stopped only after a context.
CloseLabelOfContext == IF context THEN "closing" ELSE "idle"
\* The first await of _close, "idle" if it has none.
CloseLabel == IF context THEN "closing" ELSE IF driver THEN "stopping" ELSE "idle"

\* Mutant: _context kept when closing it fails.
CloseContextKept(t) ==
    /\ pc[t] = "closing"
    /\ context' = (chrome = "dead")
    /\ chrome' = IF chrome = "dead" THEN "dead" ELSE "none"
    /\ Goto(t, "stopping")
    /\ UNCHANGED <<stage, holder, waiters, driver, orphaned, attempt, sinceUsed, outlived>>
\* Closing fails when Chrome is gone already; the reference goes all the same.
CloseContext(t) ==
    /\ pc[t] = "closing"
    /\ context' = FALSE
    /\ chrome' = "none"
    /\ Goto(t, "stopping")
    /\ UNCHANGED <<stage, holder, waiters, driver, orphaned, attempt, sinceUsed, outlived>>

\* Chrome does not outlive its driver; one that _context still referred to would be
\* a dead one.
StopDriver(t) ==
    /\ pc[t] = "stopping"
    /\ driver' = FALSE
    /\ chrome' = IF context THEN "dead" ELSE "none"
    /\ \/ t \in Lookups /\ EndLookup(t)
       \/ t \notin Lookups /\ Leave(t) /\ UNCHANGED <<sinceUsed, outlived>>
    /\ stage' = IF t = Shutdown THEN "exited" ELSE stage
    /\ UNCHANGED <<context, orphaned, attempt>>

-----------------------------------------------------------------------------
(* The reaper and the shutdown. *)

\* Mutant: the test of is_running inverted.
IdleNotRunning == ~context /\ sinceUsed >= IdleTimeout
Idle == context /\ sinceUsed >= IdleTimeout

\* Mutant: Chrome closed without the lock.
CheckUnlocked ==
    /\ stage = "serving"
    /\ pc[Reaper] = "idle"
    /\ Idle
    /\ Goto(Reaper, "closing")
    /\ UNCHANGED <<stage, holder, waiters, processes, attempt, sinceUsed, outlived>>
\* One look at this browser, no await before the lock is asked for.
Check ==
    /\ stage = "serving"
    /\ pc[Reaper] = "idle"
    /\ Idle
    /\ \/ Take(Reaper) /\ Goto(Reaper, "closing")
       \/ Wait(Reaper)
    /\ UNCHANGED <<stage, processes, attempt, sinceUsed, outlived>>

ReaperResume ==
    /\ Resumed(Reaper)
    /\ \/ CloseLabel = "idle" /\ Leave(Reaper)
       \/ /\ CloseLabel # "idle"
          /\ Goto(Reaper, CloseLabel)
          /\ UNCHANGED <<holder, waiters>>
    /\ UNCHANGED <<stage, processes, attempt, sinceUsed, outlived>>

\* The server is drained and the lifespan ends: the reaper is cancelled where it
\* is.  Cancelled in _context.close(), it leaves the driver, and Chrome perhaps.
Exit ==
    /\ stage = "serving"
    /\ \A l \in Lookups : pc[l] = "idle"
    /\ stage' = "exiting"
    /\ \/ pc[Reaper] = "idle" /\ UNCHANGED <<pc, holder, waiters, context, driver, chrome>>
       \/ pc[Reaper] = "waiting" /\ Leave(Reaper) /\ UNCHANGED <<context, driver, chrome>>
       \/ /\ pc[Reaper] = "closing"
          /\ Leave(Reaper)
          /\ context' = FALSE
          /\ chrome' \in {chrome, "none"}
          /\ UNCHANGED driver
       \/ /\ pc[Reaper] = "stopping"
          /\ Leave(Reaper)
          /\ driver' = FALSE
          /\ chrome' = "none"
          /\ UNCHANGED context
    /\ UNCHANGED <<orphaned, attempt, sinceUsed, outlived>>

\* close_browser, with nobody left to wait for.
ShutdownClose ==
    /\ stage = "exiting"
    /\ pc[Shutdown] = "idle"
    /\ \/ /\ CloseLabel = "idle"
          /\ stage' = "exited"
          /\ UNCHANGED <<pc, holder, waiters>>
       \/ /\ CloseLabel # "idle"
          /\ Take(Shutdown)
          /\ Goto(Shutdown, CloseLabel)
          /\ UNCHANGED stage
    /\ UNCHANGED <<processes, attempt, sinceUsed, outlived>>

(* The world. *)

ChromeDies ==
    /\ chrome = "running"
    /\ chrome' = "dead"
    /\ UNCHANGED <<stage, pc, holder, waiters, context, driver, orphaned, attempt,
                   sinceUsed, outlived>>

Tick ==
    /\ sinceUsed' = IF sinceUsed < IdleTimeout THEN sinceUsed + 1 ELSE IdleTimeout
    /\ UNCHANGED <<stage, pc, holder, waiters, processes, attempt, outlived>>

-----------------------------------------------------------------------------

Step(l) ==
    \/ Resume(l) \/ StartDriver(l) \/ Launch(l) \/ StartFails(l)
    \/ Open(l) \/ BackOff(l) \/ Retry(l) \/ Finish(l) \/ Lost(l)

CloseStep(t) == CloseContext(t) \/ StopDriver(t)

Next ==
    \/ \E l \in Lookups : Call(l) \/ Step(l)
    \/ \E t \in Tasks : CloseStep(t)
    \/ Check \/ ReaperResume \/ Exit \/ ShutdownClose
    \/ ChromeDies \/ Tick

Spec == Init /\ [][Next]_vars

\* Tasks that can run do, every await ends (Playwright's by its timeouts), the
\* reaper looks again and again, time passes.  Nobody has to call, Chrome need not
\* die and the server need not exit.
Fairness ==
    /\ \A l \in Lookups : WF_vars(Step(l) \/ CloseStep(l))
    /\ WF_vars(Check) /\ WF_vars(ReaperResume \/ CloseStep(Reaper))
    /\ WF_vars(ShutdownClose \/ CloseStep(Shutdown))
    /\ WF_vars(Tick)

FairSpec == Spec /\ Fairness

-----------------------------------------------------------------------------
(* Properties. *)

Labels == {"idle", "waiting", "starting", "launching", "opening", "driving",
           "backoff", "closing", "stopping"}

TypeOK ==
    /\ stage \in {"serving", "exiting", "exited"}
    /\ pc \in [Tasks -> Labels]
    /\ holder \in Tasks \cup {NoTask}
    /\ waiters \in Seq(Tasks)
    /\ context \in BOOLEAN /\ driver \in BOOLEAN /\ orphaned \in BOOLEAN
    /\ chrome \in {"none", "running", "dead"}
    /\ attempt \in 1..Attempts
    /\ sinceUsed \in 0..IdleTimeout
    /\ outlived \in Nat

\* browser.py, _lock: "Lock to ensure only one lookup or close at a time".  Nothing
\* closes the browser under a lookup: while one is in an attempt or between two,
\* it has its context and driver, whatever the reaper and other lookups do.
InUseIsOpen == \A l \in Lookups :
    pc[l] \in {"opening", "driving", "backoff"} => holder = l /\ context /\ driver

\* Chrome is never launched on a profile that a Chrome is running on, after any
\* sequence of lookups, crashes, failed starts and closes: Chrome would refuse it.
ProfileExclusive == \A l \in Lookups :
    pc[l] \in {"starting", "launching"} => chrome # "running"

\* A Chrome that died is replaced: at most one lookup ends without noticing (the
\* one it died under, when the error did not tell); the next one drops it.
DeadChromeIsDropped == chrome = "dead" => outlived <= 1

\* The shutdown leaves no Chrome and no driver of this browser, although it may
\* have cancelled the reaper in the middle of closing it.
ExitLeavesNothing == stage = "exited" => ~context /\ ~driver /\ chrome = "none"

\* Every call of lookup ends.
LookupIsServed == \A l \in Lookups : pc[l] # "idle" ~> pc[l] = "idle"

\* A browser that is left alone is closed in the end.
IdleIsClosed ==
    context /\ (\A l \in Lookups : pc[l] = "idle")
        ~> ~context \/ \E l \in Lookups : pc[l] # "idle"

\* The shutdown does not hang.
ShutdownEnds == stage = "exiting" ~> stage = "exited"

\* browser.py, start: "Launch Chrome. Safe to call repeatedly."  A driver that was
\* started is always one that close() can stop.
NoOrphanedDriver == ~orphaned

\* settings.py, Chrome.idle_timeout: "Seconds of inactivity before a browser is
\* torn down."
OnlyIdleIsClosed ==
    [][pc[Reaper] # "closing" /\ pc'[Reaper] = "closing" => sinceUsed >= IdleTimeout]_vars
=============================================================================
