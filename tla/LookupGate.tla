----------------------------- MODULE LookupGate -----------------------------
(***************************************************************************)
(* What get_case sees of the browsers, however many there are: whether a    *)
(* lookup may begin, how it ends, and one clock, retry_after, the time      *)
(* until the first browser is out of its captcha cooldown.  CaseService     *)
(* takes _lookup to be this, LookupDispatch is shown to implement it.       *)
(*                                                                          *)
(* A wait that has begun can only run down: while no browser is usable no   *)
(* lookup is under way that could fail on one and prolong it.               *)
(***************************************************************************)
EXTENDS Integers

CONSTANTS Requests, Cooldown

VARIABLES
    looking,     \* the requests in _lookup
    answer,      \* how the last call of each request ended
    retry_after  \* ticks until a browser is usable, 0 if one is

vars == <<looking, answer, retry_after>>

Init ==
    /\ looking = {}
    /\ answer = [r \in Requests |-> "none"]
    /\ retry_after = 0

\* Refused at the door: for the wait while there is one, else for the queue.
TurnAway(r) ==
    /\ r \notin looking
    /\ answer' = [answer EXCEPT ![r] = IF retry_after > 0 THEN "browser_unavailable"
                                       ELSE "queue_timeout"]
    /\ UNCHANGED <<looking, retry_after>>

Begin(r) ==
    /\ r \notin looking
    /\ retry_after = 0
    /\ looking' = looking \cup {r}
    /\ answer' = [answer EXCEPT ![r] = "none"]
    /\ UNCHANGED retry_after

End(r, outcomes) ==
    /\ r \in looking
    /\ looking' = looking \ {r}
    /\ \E outcome \in outcomes : answer' = [answer EXCEPT ![r] = outcome]

\* The lookup ends with a payload, or an error that is nobody's cooldown.
Finish(r) ==
    /\ End(r, {"returned", "failed"})
    /\ UNCHANGED retry_after

\* It ends because of captchas: the last browser it used may have been the last
\* usable one, and the wait begins.
Fail(r) ==
    /\ End(r, {"captcha", "browser_unavailable"})
    /\ retry_after' \in IF retry_after = 0 THEN 0..Cooldown ELSE {retry_after}

Tick ==
    /\ retry_after' = IF retry_after > 0 THEN retry_after - 1 ELSE 0
    /\ UNCHANGED <<looking, answer>>

Next == Tick \/ \E r \in Requests : TurnAway(r) \/ Begin(r) \/ Finish(r) \/ Fail(r)

Spec == Init /\ [][Next]_vars
=============================================================================
