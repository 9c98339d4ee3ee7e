------------------------- MODULE AcisBrowserProofs -------------------------
(***************************************************************************)
(* Proofs of the safety properties of AcisBrowser, for any set of lookups,  *)
(* any number of attempts and any idle timeout.                             *)
(***************************************************************************)
EXTENDS AcisBrowser, SequenceTheorems, TLAPS

Inside == Labels \ {"idle", "waiting"}

\* A task past the lock is the one that has it.
Exclusive == \A t \in Tasks : pc[t] \in Inside => holder = t

\* Who runs in which stage, and where.
Staged ==
    /\ stage # "serving" => \A t \in Lookups \cup {Reaper} : pc[t] = "idle"
    /\ stage # "exiting" => pc[Shutdown] = "idle"
    /\ pc[Shutdown] \in {"idle", "closing", "stopping"}
    /\ pc[Reaper] \in {"idle", "waiting", "closing", "stopping"}

\* What a task past the lock finds in _context, _playwright and attempt.
Finds(t) ==
    /\ pc[t] = "starting" => ~context
    /\ pc[t] = "launching" => ~context /\ driver
    /\ pc[t] \in {"opening", "driving", "backoff", "closing"} => context /\ driver
    /\ pc[t] = "stopping" => ~context /\ driver
    /\ pc[t] = "backoff" => attempt < Attempts

\* What runs is referred to, up to the cancellation of the reaper.
Referred ==
    /\ ~driver => ~context /\ chrome = "none"
    /\ stage = "serving" /\ ~context => chrome = "none"
    /\ stage = "exited" => ~driver

\* One lookup may end on a dead Chrome; then nobody gets past new_page.
Outlived ==
    /\ chrome = "running" => outlived = 0
    /\ chrome = "dead" =>
        /\ outlived <= 1
        /\ outlived # 0 => \A l \in Lookups : pc[l] \notin {"driving", "backoff"}

IInv ==
    /\ TypeOK
    /\ Exclusive
    /\ Staged
    /\ \A t \in Tasks : Finds(t)
    /\ Referred
    /\ Outlived

-----------------------------------------------------------------------------
\* Releasing the lock leaves the lock well typed.
LEMMA ReleaseType ==
    ASSUME TypeOK, Release
    PROVE  holder' \in Tasks \cup {NoTask} /\ waiters' \in Seq(Tasks)
<1>1. CASE waiters = <<>> BY <1>1 DEF Release, TypeOK
<1>2. CASE waiters # <<>>
  BY <1>2, HeadTailProperties DEF Release, TypeOK
<1> QED BY <1>1, <1>2

\* Waiting for the lock leaves it well typed.
LEMMA WaitType ==
    ASSUME TypeOK, NEW t \in Tasks, Wait(t)
    PROVE  waiters' \in Seq(Tasks)
BY AppendProperties DEF Wait, TypeOK

\* The initial state satisfies the invariant.
LEMMA InitInv == Init => IInv
<1> SUFFICES ASSUME Init PROVE IInv
  OBVIOUS
<1> USE TasksAssumption, SettingsAssumption DEF Init
<1>1. TypeOK
  <2>1. waiters \in Seq(Tasks) BY EmptySeq
  <2>2. attempt \in 1..Attempts /\ sinceUsed \in 0..IdleTimeout OBVIOUS
  <2> QED BY <2>1, <2>2 DEF TypeOK, Labels
<1>2. Exclusive /\ Staged BY DEF Exclusive, Inside, Staged, Tasks
<1>3. \A t \in Tasks : Finds(t) BY DEF Finds
<1>4. Referred /\ Outlived BY DEF Referred, Outlived
<1> QED BY <1>1, <1>2, <1>3, <1>4 DEF IInv

\* Every step preserves the invariant: one step of the proof per action, and under it
\* one per conjunct.
LEMMA InvStep == IInv /\ [Next]_vars => IInv'
<1> SUFFICES ASSUME IInv, [Next]_vars PROVE IInv'
  OBVIOUS
<1> USE TasksAssumption, SettingsAssumption DEF IInv, processes, Goto, Tasks
<1>0. CASE UNCHANGED vars
  BY <1>0 DEF vars, TypeOK, Exclusive, Staged, Finds, Referred, Outlived
<1>1. ASSUME NEW l \in Lookups, Call(l) PROVE IInv'
  <2>1. TypeOK'
    BY <1>1, WaitType DEF Call, Take, Wait, BeginLookup, TypeOK, Labels
  <2>2. Exclusive'
    BY <1>1 DEF Call, Take, Wait, BeginLookup, TypeOK, Exclusive, Inside, Labels
  <2>3. Staged'
    BY <1>1 DEF Call, Take, Wait, BeginLookup, TypeOK, Staged, Exclusive, Inside,
       Labels
  <2>4. \A u \in Tasks : Finds(u)'
    BY <1>1 DEF Call, Take, Wait, BeginLookup, TypeOK, Finds, Exclusive, Inside,
       Labels, Staged, Referred
  <2>5. Referred'
    BY <1>1 DEF Call, Take, Wait, BeginLookup, TypeOK, Referred, Staged, Finds
  <2>6. Outlived'
    BY <1>1 DEF Call, Take, Wait, BeginLookup, TypeOK, Outlived, Finds, Exclusive,
       Inside, Labels
  <2> QED BY <2>1, <2>2, <2>3, <2>4, <2>5, <2>6
<1>2. ASSUME NEW l \in Lookups, Resume(l) PROVE IInv'
  <2>1. TypeOK'
    BY <1>2 DEF Resume, Resumed, BeginLookup, TypeOK, Labels
  <2>2. Exclusive'
    BY <1>2 DEF Resume, Resumed, BeginLookup, TypeOK, Exclusive, Inside, Labels
  <2>3. Staged'
    BY <1>2 DEF Resume, Resumed, BeginLookup, TypeOK, Staged, Exclusive, Inside,
       Labels
  <2>4. \A u \in Tasks : Finds(u)'
    BY <1>2 DEF Resume, Resumed, BeginLookup, TypeOK, Finds, Exclusive, Inside,
       Labels, Staged, Referred
  <2>5. Referred'
    BY <1>2 DEF Resume, Resumed, BeginLookup, TypeOK, Referred, Staged, Finds
  <2>6. Outlived'
    BY <1>2 DEF Resume, Resumed, BeginLookup, TypeOK, Outlived, Finds, Exclusive,
       Inside, Labels
  <2> QED BY <2>1, <2>2, <2>3, <2>4, <2>5, <2>6
<1>3. ASSUME NEW l \in Lookups, StartDriver(l) PROVE IInv'
  <2>1. TypeOK'
    BY <1>3 DEF StartDriver, TypeOK, Labels
  <2>2. Exclusive'
    BY <1>3 DEF StartDriver, TypeOK, Exclusive, Inside, Labels
  <2>3. Staged'
    BY <1>3 DEF StartDriver, TypeOK, Staged, Exclusive, Inside, Labels
  <2>4. \A u \in Tasks : Finds(u)'
    BY <1>3 DEF StartDriver, TypeOK, Finds, Exclusive, Inside, Labels, Staged,
       Referred
  <2>5. Referred'
    BY <1>3 DEF StartDriver, TypeOK, Referred, Staged, Finds
  <2>6. Outlived'
    BY <1>3 DEF StartDriver, TypeOK, Outlived, Finds, Exclusive, Inside, Labels
  <2> QED BY <2>1, <2>2, <2>3, <2>4, <2>5, <2>6
<1>4. ASSUME NEW l \in Lookups, Launch(l) PROVE IInv'
  <2>1. TypeOK'
    BY <1>4 DEF Launch, TypeOK, Labels
  <2>2. Exclusive'
    BY <1>4 DEF Launch, TypeOK, Exclusive, Inside, Labels
  <2>3. Staged'
    BY <1>4 DEF Launch, TypeOK, Staged, Exclusive, Inside, Labels
  <2>4. \A u \in Tasks : Finds(u)'
    BY <1>4 DEF Launch, TypeOK, Finds, Exclusive, Inside, Labels, Staged, Referred
  <2>5. Referred'
    BY <1>4 DEF Launch, TypeOK, Referred, Staged, Finds
  <2>6. Outlived'
    BY <1>4 DEF Launch, TypeOK, Outlived, Finds, Exclusive, Inside, Labels
  <2> QED BY <2>1, <2>2, <2>3, <2>4, <2>5, <2>6
<1>5. ASSUME NEW l \in Lookups, StartFails(l) PROVE IInv'
  <2>1. TypeOK'
    BY <1>5, ReleaseType DEF StartFails, Leave, Release, TypeOK, Labels
  <2>2. Exclusive'
    BY <1>5 DEF StartFails, Leave, Release, TypeOK, Exclusive, Inside, Labels
  <2>3. Staged'
    BY <1>5 DEF StartFails, Leave, Release, TypeOK, Staged, Exclusive, Inside,
       Labels
  <2>4. \A u \in Tasks : Finds(u)'
    BY <1>5 DEF StartFails, Leave, Release, TypeOK, Finds, Exclusive, Inside,
       Labels, Staged, Referred
  <2>5. Referred'
    BY <1>5 DEF StartFails, Leave, Release, TypeOK, Referred, Staged, Finds
  <2>6. Outlived'
    BY <1>5 DEF StartFails, Leave, Release, TypeOK, Outlived, Finds, Exclusive,
       Inside, Labels
  <2> QED BY <2>1, <2>2, <2>3, <2>4, <2>5, <2>6
<1>6. ASSUME NEW l \in Lookups, Open(l) PROVE IInv'
  <2>1. TypeOK'
    BY <1>6 DEF Open, TypeOK, Labels
  <2>2. Exclusive'
    BY <1>6 DEF Open, TypeOK, Exclusive, Inside, Labels
  <2>3. Staged'
    BY <1>6 DEF Open, TypeOK, Staged, Exclusive, Inside, Labels
  <2>4. \A u \in Tasks : Finds(u)'
    BY <1>6 DEF Open, TypeOK, Finds, Exclusive, Inside, Labels, Staged, Referred
  <2>5. Referred'
    BY <1>6 DEF Open, TypeOK, Referred, Staged, Finds
  <2>6. Outlived'
    BY <1>6 DEF Open, TypeOK, Outlived, Finds, Exclusive, Inside, Labels
  <2> QED BY <2>1, <2>2, <2>3, <2>4, <2>5, <2>6
<1>7. ASSUME NEW l \in Lookups, BackOff(l) PROVE IInv'
  <2>1. TypeOK'
    BY <1>7 DEF BackOff, TypeOK, Labels
  <2>2. Exclusive'
    BY <1>7 DEF BackOff, TypeOK, Exclusive, Inside, Labels
  <2>3. Staged'
    BY <1>7 DEF BackOff, TypeOK, Staged, Exclusive, Inside, Labels
  <2>4. \A u \in Tasks : Finds(u)'
    BY <1>7 DEF BackOff, TypeOK, Finds, Exclusive, Inside, Labels, Staged, Referred
  <2>5. Referred'
    BY <1>7 DEF BackOff, TypeOK, Referred, Staged, Finds
  <2>6. Outlived'
    BY <1>7 DEF BackOff, TypeOK, Outlived, Finds, Exclusive, Inside, Labels
  <2> QED BY <2>1, <2>2, <2>3, <2>4, <2>5, <2>6
<1>8. ASSUME NEW l \in Lookups, Retry(l) PROVE IInv'
  <2>1. TypeOK'
    BY <1>8 DEF Retry, TypeOK, Labels, Finds
  <2>2. Exclusive'
    BY <1>8 DEF Retry, TypeOK, Exclusive, Inside, Labels
  <2>3. Staged'
    BY <1>8 DEF Retry, TypeOK, Staged, Exclusive, Inside, Labels
  <2>4. \A u \in Tasks : Finds(u)'
    BY <1>8 DEF Retry, TypeOK, Finds, Exclusive, Inside, Labels, Staged, Referred
  <2>5. Referred'
    BY <1>8 DEF Retry, TypeOK, Referred, Staged, Finds
  <2>6. Outlived'
    BY <1>8 DEF Retry, TypeOK, Outlived, Finds, Exclusive, Inside, Labels
  <2> QED BY <2>1, <2>2, <2>3, <2>4, <2>5, <2>6
<1>9. ASSUME NEW l \in Lookups, Finish(l) PROVE IInv'
  <2>1. TypeOK'
    BY <1>9, ReleaseType DEF Finish, EndLookup, Leave, Release, TypeOK, Labels
  <2>2. Exclusive'
    BY <1>9 DEF Finish, EndLookup, Leave, Release, TypeOK, Exclusive, Inside, Labels
  <2>3. Staged'
    BY <1>9 DEF Finish, EndLookup, Leave, Release, TypeOK, Staged, Exclusive,
       Inside, Labels
  <2>4. \A u \in Tasks : Finds(u)'
    BY <1>9 DEF Finish, EndLookup, Leave, Release, TypeOK, Finds, Exclusive, Inside,
       Labels, Staged, Referred
  <2>5. Referred'
    BY <1>9 DEF Finish, EndLookup, Leave, Release, TypeOK, Referred, Staged, Finds
  <2>6. Outlived'
    BY <1>9 DEF Finish, EndLookup, Leave, Release, TypeOK, Outlived, Finds,
       Exclusive, Inside, Labels
  <2> QED BY <2>1, <2>2, <2>3, <2>4, <2>5, <2>6
<1>10. ASSUME NEW l \in Lookups, Lost(l) PROVE IInv'
  <2>1. TypeOK'
    BY <1>10 DEF Lost, TypeOK, Labels
  <2>2. Exclusive'
    BY <1>10 DEF Lost, TypeOK, Exclusive, Inside, Labels
  <2>3. Staged'
    BY <1>10 DEF Lost, TypeOK, Staged, Exclusive, Inside, Labels
  <2>4. \A u \in Tasks : Finds(u)'
    BY <1>10 DEF Lost, TypeOK, Finds, Exclusive, Inside, Labels, Staged, Referred
  <2>5. Referred'
    BY <1>10 DEF Lost, TypeOK, Referred, Staged, Finds
  <2>6. Outlived'
    BY <1>10 DEF Lost, TypeOK, Outlived, Finds, Exclusive, Inside, Labels
  <2> QED BY <2>1, <2>2, <2>3, <2>4, <2>5, <2>6
<1>11. ASSUME NEW t \in Tasks, CloseContext(t) PROVE IInv'
  <2>1. TypeOK'
    BY <1>11 DEF CloseContext, TypeOK, Labels
  <2>2. Exclusive'
    BY <1>11 DEF CloseContext, TypeOK, Exclusive, Inside, Labels
  <2>3. Staged'
    BY <1>11 DEF CloseContext, TypeOK, Staged, Exclusive, Inside, Labels
  <2>4. \A u \in Tasks : Finds(u)'
    BY <1>11 DEF CloseContext, TypeOK, Finds, Exclusive, Inside, Labels, Staged,
       Referred
  <2>5. Referred'
    BY <1>11 DEF CloseContext, TypeOK, Referred, Staged, Finds
  <2>6. Outlived'
    BY <1>11 DEF CloseContext, TypeOK, Outlived, Finds, Exclusive, Inside, Labels
  <2> QED BY <2>1, <2>2, <2>3, <2>4, <2>5, <2>6
<1>12. ASSUME NEW t \in Tasks, StopDriver(t) PROVE IInv'
  <2> USE <1>12
  <2>1. TypeOK'
    <3>1. Release BY DEF StopDriver, EndLookup, Leave
    <3>2. holder' \in Tasks \cup {NoTask} /\ waiters' \in Seq(Tasks)
      BY <3>1, ReleaseType
    <3>3. pc' \in [Tasks -> Labels]
      BY DEF StopDriver, EndLookup, Leave, TypeOK, Labels
    <3>4. outlived' \in Nat /\ sinceUsed' \in 0..IdleTimeout
      BY DEF StopDriver, EndLookup, TypeOK
    <3>5. /\ stage' \in {"serving", "exiting", "exited"}
          /\ chrome' \in {"none", "running", "dead"}
          /\ driver' \in BOOLEAN
          /\ UNCHANGED <<context, orphaned, attempt>>
      BY DEF StopDriver, TypeOK
    <3> QED BY <3>2, <3>3, <3>4, <3>5 DEF TypeOK
  <2>2. Exclusive'
    BY <1>12 DEF StopDriver, EndLookup, Leave, Release, TypeOK, Exclusive, Inside,
       Labels
  <2>3. Staged'
    BY <1>12 DEF StopDriver, EndLookup, Leave, Release, TypeOK, Staged, Exclusive,
       Inside, Labels
  <2>4. \A u \in Tasks : Finds(u)'
    BY <1>12 DEF StopDriver, EndLookup, Leave, Release, TypeOK, Finds, Exclusive,
       Inside, Labels, Staged, Referred
  <2>5. Referred'
    BY <1>12 DEF StopDriver, EndLookup, Leave, Release, TypeOK, Referred, Staged,
       Finds
  <2>6. Outlived'
    BY <1>12 DEF StopDriver, EndLookup, Leave, Release, TypeOK, Outlived, Finds,
       Exclusive, Inside, Labels
  <2> QED BY <2>1, <2>2, <2>3, <2>4, <2>5, <2>6
<1>13. CASE Check
  <2>1. TypeOK'
    BY <1>13, WaitType DEF Check, Take, Wait, Idle, TypeOK, Labels
  <2>2. Exclusive'
    BY <1>13 DEF Check, Take, Wait, Idle, TypeOK, Exclusive, Inside, Labels
  <2>3. Staged'
    BY <1>13 DEF Check, Take, Wait, Idle, TypeOK, Staged, Exclusive, Inside, Labels
  <2>4. \A u \in Tasks : Finds(u)'
    BY <1>13 DEF Check, Take, Wait, Idle, TypeOK, Finds, Exclusive, Inside, Labels,
       Staged, Referred
  <2>5. Referred'
    BY <1>13 DEF Check, Take, Wait, Idle, TypeOK, Referred, Staged, Finds
  <2>6. Outlived'
    BY <1>13 DEF Check, Take, Wait, Idle, TypeOK, Outlived, Finds, Exclusive,
       Inside, Labels
  <2> QED BY <2>1, <2>2, <2>3, <2>4, <2>5, <2>6
<1>14. CASE ReaperResume
  <2>1. TypeOK'
    BY <1>14, ReleaseType DEF ReaperResume, Resumed, CloseLabel, Leave, Release,
       TypeOK, Labels
  <2>2. Exclusive'
    BY <1>14 DEF ReaperResume, Resumed, CloseLabel, Leave, Release, TypeOK,
       Exclusive, Inside, Labels
  <2>3. Staged'
    BY <1>14 DEF ReaperResume, Resumed, CloseLabel, Leave, Release, TypeOK, Staged,
       Exclusive, Inside, Labels
  <2>4. \A u \in Tasks : Finds(u)'
    BY <1>14 DEF ReaperResume, Resumed, CloseLabel, Leave, Release, TypeOK, Finds,
       Exclusive, Inside, Labels, Staged, Referred
  <2>5. Referred'
    BY <1>14 DEF ReaperResume, Resumed, CloseLabel, Leave, Release, TypeOK,
       Referred, Staged, Finds
  <2>6. Outlived'
    BY <1>14 DEF ReaperResume, Resumed, CloseLabel, Leave, Release, TypeOK,
       Outlived, Finds, Exclusive, Inside, Labels
  <2> QED BY <2>1, <2>2, <2>3, <2>4, <2>5, <2>6
<1>15. CASE Exit
  <2>1. TypeOK'
    BY <1>15, ReleaseType DEF Exit, Leave, Release, TypeOK, Labels
  <2>2. Exclusive'
    BY <1>15 DEF Exit, Leave, Release, TypeOK, Exclusive, Inside, Labels, Staged
  <2>3. Staged'
    BY <1>15 DEF Exit, Leave, Release, TypeOK, Staged, Exclusive, Inside, Labels
  <2>4. \A u \in Tasks : Finds(u)'
    BY <1>15 DEF Exit, Leave, Release, TypeOK, Finds, Exclusive, Inside, Labels,
       Staged, Referred
  <2>5. Referred'
    BY <1>15 DEF Exit, Leave, Release, TypeOK, Referred, Staged, Finds
  <2>6. Outlived'
    BY <1>15 DEF Exit, Leave, Release, TypeOK, Outlived, Finds, Exclusive, Inside,
       Labels
  <2> QED BY <2>1, <2>2, <2>3, <2>4, <2>5, <2>6
<1>16. CASE ShutdownClose
  <2>1. TypeOK'
    BY <1>16 DEF ShutdownClose, CloseLabel, Take, TypeOK, Labels
  <2>2. Exclusive'
    BY <1>16 DEF ShutdownClose, CloseLabel, Take, TypeOK, Exclusive, Inside, Labels
  <2>3. Staged'
    BY <1>16 DEF ShutdownClose, CloseLabel, Take, TypeOK, Staged, Exclusive, Inside,
       Labels
  <2>4. \A u \in Tasks : Finds(u)'
    BY <1>16 DEF ShutdownClose, CloseLabel, Take, TypeOK, Finds, Exclusive, Inside,
       Labels, Staged, Referred
  <2>5. Referred'
    BY <1>16 DEF ShutdownClose, CloseLabel, Take, TypeOK, Referred, Staged, Finds
  <2>6. Outlived'
    BY <1>16 DEF ShutdownClose, CloseLabel, Take, TypeOK, Outlived, Finds,
       Exclusive, Inside, Labels
  <2> QED BY <2>1, <2>2, <2>3, <2>4, <2>5, <2>6
<1>17. CASE ChromeDies
  <2>1. TypeOK'
    BY <1>17 DEF ChromeDies, TypeOK
  <2>2. Exclusive' /\ Staged' /\ \A u \in Tasks : Finds(u)'
    BY <1>17 DEF ChromeDies, Exclusive, Staged, Finds
  <2>3. Referred' /\ Outlived'
    BY <1>17 DEF ChromeDies, TypeOK, Referred, Outlived
  <2> QED BY <2>1, <2>2, <2>3
<1>18. CASE Tick
  <2>1. TypeOK'
    BY <1>18 DEF Tick, TypeOK
  <2>2. Exclusive' /\ Staged' /\ \A u \in Tasks : Finds(u)'
    BY <1>18 DEF Tick, Exclusive, Staged, Finds
  <2>3. Referred' /\ Outlived'
    BY <1>18 DEF Tick, TypeOK, Referred, Outlived
  <2> QED BY <2>1, <2>2, <2>3
<1> QED
  BY <1>0, <1>1, <1>2, <1>3, <1>4, <1>5, <1>6, <1>7, <1>8, <1>9, <1>10, <1>11,
     <1>12, <1>13, <1>14, <1>15, <1>16, <1>17, <1>18 DEF Next, Step, CloseStep

-----------------------------------------------------------------------------
\* The invariant holds in every reachable state.
LEMMA Invariance == Spec => []IInv
BY InitInv, InvStep, PTL DEF Spec

\* Every reachable state is well typed; above all, no lookup exceeds its attempts.
THEOREM TypeCorrect == Spec => []TypeOK
<1>1. IInv => TypeOK BY DEF IInv
<1> QED BY <1>1, Invariance, PTL

\* No close and no other lookup touches the browser that a lookup is using
\* (browser.py, _lock).
THEOREM InUseStaysOpen == Spec => []InUseIsOpen
<1>1. IInv => InUseIsOpen
  BY DEF IInv, Exclusive, Finds, InUseIsOpen, Inside, Labels, Tasks
<1> QED BY <1>1, Invariance, PTL

\* Chrome is never launched on a profile in use (browser.py, start).
THEOREM ProfileIsExclusive == Spec => []ProfileExclusive
<1>1. IInv => ProfileExclusive
  BY DEF IInv, Staged, Finds, Referred, ProfileExclusive, Tasks
<1> QED BY <1>1, Invariance, PTL

\* A dead Chrome costs at most one lookup that does not notice (browser.py, lookup).
THEOREM DeadChromeDropped == Spec => []DeadChromeIsDropped
<1>1. IInv => DeadChromeIsDropped BY DEF IInv, Outlived, DeadChromeIsDropped
<1> QED BY <1>1, Invariance, PTL

\* The shutdown leaves nothing that the browser refers to running (app.py,
\* make_browser_lifespan), wherever it cancelled the reaper.
THEOREM ExitIsClean == Spec => []ExitLeavesNothing
<1>1. IInv => ExitLeavesNothing BY DEF IInv, Referred, ExitLeavesNothing
<1> QED BY <1>1, Invariance, PTL
=============================================================================
