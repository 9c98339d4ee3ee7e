-------------------------- MODULE ResponseCapture --------------------------
(***************************************************************************)
(* One attempt of a lookup: AcisBrowser._lookup_once, _wait_for_response    *)
(* and _parse (acis-browser, browser.py).                                   *)
(*                                                                          *)
(* The page's request and response handlers fill a _Capture, a watcher      *)
(* looks for a visible captcha challenge, a timer runs, and Chrome may die: *)
(* the verdict is read from the capture only after the page was closed, an  *)
(* await in which handlers still run.  The handlers are atomic but for the  *)
(* await of response.text().                                                *)
(***************************************************************************)
EXTENDS AcisPayload, Naturals, Sequences, FiniteSets

CONSTANTS
    Bodies,        \* what a response may hold
    MaxRequests    \* bound: case requests the page sends in one attempt

\* What is not an object has no Data and no message.
Blank == [data |-> "none", message |-> {}]
Body(json, payload) == [json |-> json, payload |-> payload]
Unreadable == Body("unreadable", Blank)

ASSUME BodiesAssumption ==
    Bodies \subseteq [json : {"not_json", "not_object", "object"}, payload : Payloads]
ASSUME RequestsAssumption == MaxRequests \in Nat \ {0}

VARIABLES
    pc,         \* the await the attempt is in
    captured,
    watcher,    \* watch_challenge(): "off", "watching", "holding", "done", "failed", "lost"
    alive,      \* whether the page and its Chrome still live
    error,      \* the exception the body of the try is left with
    verdict,    \* how _lookup_once ends
    reading,    \* the responses whose text() is awaited
    requests,   \* history: how many case requests were seen
    answers,    \* history: the responses seen, as the site sent them
    first,      \* history: what was noticed first, "request" or "challenge"
    timedOut    \* history: the wait was ended by the timer

noticed == <<captured, reading, requests, answers, first>>
vars == <<pc, captured, watcher, alive, error, verdict, noticed, timedOut>>

\* The page steps of _lookup_once before the wait.
PageSteps == <<"goto", "hydrate", "modal", "form", "captcha", "submit">>
Driving == {PageSteps[i] : i \in 1..Len(PageSteps)}

Undecided == [kind |-> "none", reason |-> "none", payload |-> Blank]
Returned(payload) == [kind |-> "returned", reason |-> "none", payload |-> payload]
Captcha(reason) == [kind |-> "captcha", reason |-> reason, payload |-> Blank]
Raised(exception) == [kind |-> "error", reason |-> exception, payload |-> Blank]

_Capture == [requested |-> FALSE, challenged |-> FALSE, status |-> 0,
             body |-> Unreadable, received |-> FALSE]

Init ==
    /\ pc = "goto"
    /\ captured = _Capture
    /\ watcher = "off"
    /\ alive = TRUE
    /\ error = "none"
    /\ verdict = Undecided
    /\ reading = {}
    /\ requests = 0
    /\ answers = <<>>
    /\ first = "none"
    /\ timedOut = FALSE

-----------------------------------------------------------------------------
(* The attempt. *)

\* goto, _wait_for, _dismiss_modal, _fill_form, _wait_for_captcha, the click:
\* the waits for the modal and the captcha widget time out without an error.
StepEnds ==
    \E i \in 1..Len(PageSteps) :
        /\ pc = PageSteps[i]
        /\ alive
        /\ pc' = IF i = Len(PageSteps) THEN "waiting" ELSE PageSteps[i + 1]
        /\ watcher' = IF i = Len(PageSteps) THEN "watching" ELSE "off"
        /\ UNCHANGED <<alive, error, verdict, noticed, timedOut>>

\* A PlaywrightError becomes an UpstreamError, as does an app that does not
\* hydrate; a TargetClosedError, which only a dead page gives, is passed on.
StepFails ==
    /\ pc \in Driving
    /\ \/ error' = "UpstreamError"
       \/ ~alive /\ error' = "TargetClosedError"
    /\ pc' = "closing"
    /\ UNCHANGED <<watcher, alive, verdict, noticed, timedOut>>

\* task.result() of the done tasks raises what the watcher failed with.
WatcherError ==
    CASE watcher = "failed" -> "UpstreamError"
      [] watcher = "lost" -> "TargetClosedError"
      [] OTHER -> "none"

\* Mutant: the tasks are not cancelled.
EndWaitOnly ==
    /\ pc' = "closing"
    /\ error' = WatcherError
    /\ UNCHANGED <<watcher, alive, verdict, noticed>>
EndWait ==
    /\ pc' = "closing"
    /\ watcher' = "off"
    /\ error' = WatcherError
    /\ UNCHANGED <<alive, verdict, noticed>>

WaitWakes ==
    /\ pc = "waiting"
    /\ captured.received \/ watcher \in {"done", "failed", "lost"}
    /\ EndWait
    /\ UNCHANGED timedOut

\* Mutant: no timeout once the request is out.
WaitTimesOutUnasked ==
    /\ pc = "waiting"
    /\ ~captured.requested
    /\ EndWait
    /\ timedOut' = TRUE
WaitTimesOut ==
    /\ pc = "waiting"
    /\ EndWait
    /\ timedOut' = TRUE

\* The part of _parse that looks at a response.
Judge(status, body) ==
    LET outcome == FromPayload(body.payload) IN
    IF body.json # "object" THEN Raised("UpstreamError")
    ELSE IF outcome = "CAPTCHA_REJECTED" THEN Captcha("REJECTED")
    ELSE IF outcome \in {"OK", "OTHER"} /\ status # 200 THEN Raised("UpstreamError")
    ELSE Returned(body.payload)

\* Mutant: a challenge counts before a response.
ParseChallengeFirst(c) ==
    IF c.challenged THEN Captcha("CHALLENGE")
    ELSE IF c.received THEN Judge(c.status, c.body)
    ELSE IF ~c.requested THEN Captcha("NO_REQUEST")
    ELSE Captcha("NO_RESPONSE")
Parse(c) ==
    IF c.received THEN Judge(c.status, c.body)
    ELSE IF c.challenged THEN Captcha("CHALLENGE")
    ELSE IF ~c.requested THEN Captcha("NO_REQUEST")
    ELSE Captcha("NO_RESPONSE")

\* page.close() is over, with or without an error; then _parse, without an await.
CloseEnds ==
    /\ pc = "closing"
    /\ pc' = "done"
    /\ verdict' = IF error = "none" THEN Parse(captured) ELSE Raised(error)
    /\ UNCHANGED <<watcher, alive, error, noticed, timedOut>>

-----------------------------------------------------------------------------
(* watch_challenge: a challenge becomes visible, or waiting for it fails. *)

\* Mutant: whatever was requested.
WatcherSeesBlindly ==
    /\ watcher = "watching"
    /\ captured' = [captured EXCEPT !.challenged = TRUE]
    /\ watcher' = "done"
    /\ first' = IF first = "none" THEN "challenge" ELSE first
    /\ UNCHANGED <<pc, alive, error, verdict, reading, requests, answers, timedOut>>
WatcherSees ==
    /\ watcher = "watching"
    /\ IF captured.requested
       THEN watcher' = "holding" /\ UNCHANGED <<captured, first>>
       ELSE /\ captured' = [captured EXCEPT !.challenged = TRUE]
            /\ watcher' = "done"
            /\ first' = IF first = "none" THEN "challenge" ELSE first
    /\ UNCHANGED <<pc, alive, error, verdict, reading, requests, answers, timedOut>>

WatcherReleased ==
    /\ watcher = "holding"
    /\ captured.received
    /\ watcher' = "done"
    /\ UNCHANGED <<pc, alive, error, verdict, noticed, timedOut>>

WatcherFails ==
    /\ watcher = "watching"
    /\ watcher' \in {"failed"} \cup (IF alive THEN {} ELSE {"lost"})
    /\ UNCHANGED <<pc, alive, error, verdict, noticed, timedOut>>

-----------------------------------------------------------------------------
(* The page, and the handlers of its events. *)

\* The form was submitted, and the capture still matters to somebody.
Listening == pc \in {"submit", "waiting", "closing"}

OnRequest ==
    /\ Listening /\ alive
    /\ requests < MaxRequests
    /\ requests' = requests + 1
    /\ captured' = [captured EXCEPT !.requested = TRUE]
    /\ first' = IF first = "none" THEN "request" ELSE first
    /\ UNCHANGED <<pc, watcher, alive, error, verdict, reading, answers, timedOut>>

OnResponse(status, body) ==
    /\ Listening /\ alive
    /\ Len(answers) < requests
    /\ answers' = Append(answers, [status |-> status, body |-> body])
    /\ captured' = [captured EXCEPT !.status = status]
    /\ reading' = reading \cup {Len(answers) + 1}
    /\ UNCHANGED <<pc, watcher, alive, error, verdict, requests, first, timedOut>>

\* response.text() returns.
ReadEnds(i) ==
    /\ Listening
    /\ i \in reading
    /\ reading' = reading \ {i}
    /\ captured' = [captured EXCEPT !.body = answers[i].body, !.received = TRUE]
    /\ UNCHANGED <<pc, watcher, alive, error, verdict, requests, answers, first, timedOut>>

\* response.text() raises: a broken connection, a page that is gone or closing.
ReadFails(i) ==
    /\ Listening
    /\ i \in reading
    /\ reading' = reading \ {i}
    /\ captured' = [captured EXCEPT !.received = TRUE]
    /\ answers' = [answers EXCEPT ![i].body = Unreadable]
    /\ UNCHANGED <<pc, watcher, alive, error, verdict, requests, first, timedOut>>

PageDies ==
    /\ alive
    /\ pc # "done"
    /\ alive' = FALSE
    /\ UNCHANGED <<pc, watcher, error, verdict, noticed, timedOut>>

Next ==
    \/ StepEnds \/ StepFails \/ WaitWakes \/ WaitTimesOut \/ CloseEnds
    \/ WatcherSees \/ WatcherReleased \/ WatcherFails
    \/ OnRequest
    \/ \E status \in {200, 500}, body \in Bodies : OnResponse(status, body)
    \/ \E i \in reading : ReadEnds(i) \/ ReadFails(i)
    \/ PageDies

Spec == Init /\ [][Next]_vars

\* Each page step has a timeout of its own, lookup_timeout bounds the wait, and
\* page.close() returns.  Nothing else has to happen.
FairSpec ==
    Spec /\ WF_vars(StepEnds \/ StepFails) /\ WF_vars(WaitTimesOut) /\ WF_vars(CloseEnds)

-----------------------------------------------------------------------------
(* Properties. *)

AnyBody == [json : {"unreadable", "not_json", "not_object", "object"}, payload : Payloads]

\* The watcher runs exactly while the attempt waits; the texts being read are
\* those of responses seen, each of a request seen before.
TypeOK ==
    /\ pc \in Driving \cup {"waiting", "closing", "done"}
    /\ captured \in [requested : BOOLEAN, challenged : BOOLEAN, status : {0, 200, 500},
                     body : AnyBody, received : BOOLEAN]
    /\ watcher \in {"off", "watching", "holding", "done", "failed", "lost"}
    /\ watcher = "off" <=> pc # "waiting"
    /\ alive \in BOOLEAN /\ timedOut \in BOOLEAN
    /\ error \in {"none", "UpstreamError", "TargetClosedError"}
    /\ verdict.kind \in {"none", "returned", "captcha", "error"}
    /\ requests \in 0..MaxRequests
    /\ answers \in Seq([status : {200, 500}, body : AnyBody])
    /\ reading \subseteq 1..Len(answers)
    /\ Len(answers) <= requests
    /\ first \in {"none", "request", "challenge"}

\* The reasons for which CaseService._lookup sends the browser into a cooldown.
Cools == verdict.kind = "captcha" /\ verdict.reason # "NO_RESPONSE"

\* service.py:180 cools a browser down for a captcha failure unless the reason is
\* NO_RESPONSE, so the reason must not blame the captcha once it gave a token: a
\* cooldown follows only if the site rejected the token, or if no case request was
\* seen before the attempt gave up on one.
CooldownJustified ==
    Cools =>
        \/ \E i \in 1..Len(answers) : FromPayload(answers[i].body.payload) = "CAPTCHA_REJECTED"
        \/ first # "request"

\* _wait_for_response gives up early on a visible challenge only for want of a
\* request: once the page's request was the first thing noticed, nothing but its
\* response, the timeout or an error of the page ends the wait.
RequestIsWaitedFor ==
    pc \in {"closing", "done"} /\ first = "request" /\ error = "none" =>
        timedOut \/ captured.received

\* If the site answers once and the answer was read before _parse looks, also
\* after the wait was over and while the page is being closed, the verdict is the
\* one on that answer: status and body belong together, no timeout and no
\* challenge seen on the way replaces it.
OneAnswerOneVerdict ==
    pc = "done" /\ error = "none" /\ Len(answers) = 1 /\ reading = {} =>
        verdict = Judge(answers[1].status, answers[1].body)

\* Every attempt ends, whatever the page, the site and the captcha do: the
\* watcher's wait has no timeout of its own, nor has the wait for the response.
AttemptEnds == <>(pc = "done")
=============================================================================
