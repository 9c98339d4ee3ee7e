----------------------------- MODULE PacedPool -----------------------------
(***************************************************************************)
(* What the browser pool promises to the upstream site, whatever the       *)
(* requests do: on each browser lookups never overlap, two of them start   *)
(* at least Interval apart (settings.py, Lookup.interval: "Minimum seconds *)
(* between lookups on one browser"), and none starts while the browser     *)
(* pauses after a captcha failure (settings.py, Lookup.captcha_cooldown).  *)
(*                                                                         *)
(* Time is counted in ticks.  The code compares clock readings; all it     *)
(* uses of them is the time since a browser's last start and the time left *)
(* of its cooldown, so these two ages are the state.  sinceStart stops     *)
(* counting at Far, which also stands for "never started" (-inf).          *)
(***************************************************************************)
EXTENDS Integers

CONSTANTS Slots, Interval, Cooldown, Far

VARIABLES
    busy,        \* the browsers a lookup is running on
    sinceStart,  \* ticks since the last lookup on s started, at most Far
    coolLeft     \* ticks until s may be used again after a captcha failure

vars == <<busy, sinceStart, coolLeft>>

Init ==
    /\ busy = {}
    /\ sinceStart = [s \in Slots |-> Far]
    /\ coolLeft = [s \in Slots |-> 0]

Start(s) ==
    /\ s \notin busy
    /\ sinceStart[s] >= Interval
    /\ coolLeft[s] = 0
    /\ busy' = busy \cup {s}
    /\ sinceStart' = [sinceStart EXCEPT ![s] = 0]
    /\ UNCHANGED coolLeft

\* A lookup ends, and a captcha failure may send the browser into a cooldown.
Finish(s) ==
    /\ s \in busy
    /\ busy' = busy \ {s}
    /\ coolLeft' \in {coolLeft, [coolLeft EXCEPT ![s] = Cooldown]}
    /\ UNCHANGED sinceStart

Tick ==
    /\ sinceStart' = [s \in Slots |-> IF sinceStart[s] < Far
                                      THEN sinceStart[s] + 1 ELSE Far]
    /\ coolLeft' = [s \in Slots |-> IF coolLeft[s] > 0
                                    THEN coolLeft[s] - 1 ELSE 0]
    /\ UNCHANGED busy

Next == Tick \/ \E s \in Slots : Start(s) \/ Finish(s)

Spec == Init /\ [][Next]_vars
=============================================================================
