----------------------- MODULE ResponseCaptureProofs -----------------------
(***************************************************************************)
(* Proofs about ResponseCapture, for any bodies the site may answer with    *)
(* and any number of case requests.  The verdict is read from the capture   *)
(* in one step, CloseEnds, after which nothing happens: so the invariant is *)
(* about what the capture holds until then.                                 *)
(***************************************************************************)
EXTENDS ResponseCapture, TLAPS

-----------------------------------------------------------------------------
(* The inductive invariant. *)

\* What was noticed first, and what the capture has of it: a challenge is noted
\* only before any request, and nothing is received before one.
FirstNoticed ==
    /\ captured.requested <=> requests > 0
    /\ first = "none" <=> ~captured.requested /\ ~captured.challenged
    /\ captured.challenged => first = "challenge"
    /\ first = "request" => captured.requested
    /\ captured.received => captured.requested

\* The watcher is done only if it noted the challenge, or let a response go first.
WatcherDone == watcher = "done" => captured.received \/ captured.challenged

\* The wait ends for one of its three reasons, or with an error.
WaitEnded ==
    pc \in {"closing", "done"} /\ error = "none" =>
        timedOut \/ captured.received \/ captured.challenged

\* The body held is that of an answer that was read.
BodyOfAnswer ==
    captured.body # Unreadable =>
        \E i \in (1..Len(answers)) \ reading : captured.body = answers[i].body

\* As long as there is one answer the capture holds its status, and once it was
\* read its body.
OneAnswerHeld ==
    /\ Len(answers) = 0 => captured.body = Unreadable /\ ~captured.received
    /\ Len(answers) = 1 =>
         /\ captured.status = answers[1].status
         /\ 1 \in reading => captured.body = Unreadable
         /\ 1 \notin reading => captured.received /\ captured.body = answers[1].body

\* Until the attempt ends it has no verdict, then it has that of the capture.
VerdictOfCapture ==
    /\ pc # "done" => verdict = Undecided
    /\ pc = "done" =>
         verdict = (IF error = "none" THEN Parse(captured) ELSE Raised(error))

IInv ==
    /\ TypeOK
    /\ FirstNoticed
    /\ WatcherDone
    /\ WaitEnded
    /\ BodyOfAnswer
    /\ OneAnswerHeld
    /\ VerdictOfCapture

-----------------------------------------------------------------------------
(* Facts about the operators. *)

\* The page steps, and what follows on each of them.
LEMMA PageStep ==
    /\ Driving = {"goto", "hydrate", "modal", "form", "captcha", "submit"}
    /\ Len(PageSteps) = 6
    /\ \A i \in 1..6 : PageSteps[i] \in Driving
<1>1. Len(PageSteps) = 6 BY DEF PageSteps
<1>2. /\ PageSteps[1] = "goto" /\ PageSteps[2] = "hydrate" /\ PageSteps[3] = "modal"
      /\ PageSteps[4] = "form" /\ PageSteps[5] = "captcha" /\ PageSteps[6] = "submit"
  BY DEF PageSteps
<1>3. \A i \in 1..6 : PageSteps[i] \in Driving BY <1>1 DEF Driving
<1>4. ASSUME NEW step \in Driving
      PROVE  step \in {"goto", "hydrate", "modal", "form", "captcha", "submit"}
  <2>1. PICK i \in 1..6 : step = PageSteps[i] BY <1>1 DEF Driving
  <2>2. i = 1 \/ i = 2 \/ i = 3 \/ i = 4 \/ i = 5 \/ i = 6 OBVIOUS
  <2> QED BY <1>2, <2>1, <2>2
<1>5. {"goto", "hydrate", "modal", "form", "captcha", "submit"} \subseteq Driving
  <2>1. 1 \in 1..6 /\ 2 \in 1..6 /\ 3 \in 1..6 /\ 4 \in 1..6 /\ 5 \in 1..6 /\ 6 \in 1..6
    OBVIOUS
  <2> QED BY <1>2, <1>3, <2>1
<1> QED BY <1>1, <1>3, <1>4, <1>5

\* A page step leads to the next, or into the wait, which the watcher shares.
LEMMA StepLeads ==
    ASSUME StepEnds
    PROVE  /\ pc \in Driving
           /\ \/ pc' \in Driving /\ watcher' = "off"
              \/ pc' = "waiting" /\ watcher' = "watching"
<1>1. PICK i \in 1..Len(PageSteps) :
        /\ pc = PageSteps[i]
        /\ pc' = IF i = Len(PageSteps) THEN "waiting" ELSE PageSteps[i + 1]
        /\ watcher' = IF i = Len(PageSteps) THEN "watching" ELSE "off"
  BY DEF StepEnds
<1>2. i \in 1..6 /\ (i # 6 => i + 1 \in 1..6) BY PageStep
<1> QED BY <1>1, <1>2, PageStep

\* What a response may hold is a body, and so is what could not be read.
LEMMA BodiesTyped == Bodies \subseteq AnyBody /\ Unreadable \in AnyBody
BY BodiesAssumption DEF AnyBody, Unreadable, Body, Blank, Payloads

\* The answers and captures of TypeOK.
Answer == [status : {200, 500}, body : AnyBody]
Capture == [requested : BOOLEAN, challenged : BOOLEAN, status : {0, 200, 500},
            body : AnyBody, received : BOOLEAN]

LEMMA AnswerTyped ==
    ASSUME NEW s \in Seq(Answer), NEW i \in 1..Len(s)
    PROVE  s[i] \in Answer /\ s[i].body \in AnyBody
<1>1. s[i] \in Answer OBVIOUS
<1> QED BY <1>1 DEF Answer

LEMMA CapturedTyped == TypeOK => captured \in Capture
BY DEF TypeOK, Capture

\* A capture in which some fields were set is one.
LEMMA CaptureFlagged ==
    ASSUME NEW c \in Capture
    PROVE  /\ [c EXCEPT !.challenged = TRUE] \in Capture
           /\ [c EXCEPT !.requested = TRUE] \in Capture
           /\ [c EXCEPT !.received = TRUE] \in Capture
<1>1. [c EXCEPT !.challenged = TRUE] \in Capture BY ZenonT(60) DEF Capture
<1>2. [c EXCEPT !.requested = TRUE] \in Capture BY ZenonT(60) DEF Capture
<1>3. [c EXCEPT !.received = TRUE] \in Capture BY ZenonT(60) DEF Capture
<1> QED BY <1>1, <1>2, <1>3

LEMMA CaptureStatus ==
    ASSUME NEW c \in Capture, NEW s \in {200, 500}, NEW d, d = [c EXCEPT !.status = s]
    PROVE  d \in Capture
<1>1. [c EXCEPT !.status = s] \in Capture BY ZenonT(60) DEF Capture
<1> QED BY <1>1

LEMMA CaptureBody ==
    ASSUME NEW c \in Capture, NEW body \in AnyBody
    PROVE  [c EXCEPT !.body = body, !.received = TRUE] \in Capture
<1>1. [c EXCEPT !.body = body] \in Capture BY ZenonT(60) DEF Capture
<1>2. [[c EXCEPT !.body = body] EXCEPT !.received = TRUE] \in Capture
  BY <1>1, CaptureFlagged
<1> QED BY <1>2

\* The verdicts that the capture can give.
LEMMA ParseKinds ==
    ASSUME NEW c
    PROVE  /\ Parse(c).kind \in {"returned", "captcha", "error"}
           /\ Parse(c).kind = "captcha" =>
                \/ /\ Parse(c).reason = "REJECTED"
                   /\ c.received /\ c.body.json = "object"
                   /\ FromPayload(c.body.payload) = "CAPTCHA_REJECTED"
                \/ Parse(c).reason = "CHALLENGE" /\ c.challenged
                \/ Parse(c).reason = "NO_REQUEST" /\ ~c.requested
                \/ Parse(c).reason = "NO_RESPONSE"
BY DEF Parse, Judge, Raised, Captcha, Returned

-----------------------------------------------------------------------------
(* The invariant holds at first, and every step keeps it. *)

LEMMA InitInv == Init => IInv
<1> SUFFICES ASSUME Init PROVE IInv OBVIOUS
<1>1. TypeOK
  <2>1. _Capture \in [requested : BOOLEAN, challenged : BOOLEAN, status : {0, 200, 500},
                      body : AnyBody, received : BOOLEAN]
    BY BodiesTyped DEF _Capture
  <2>2. 0 \in 0..MaxRequests BY RequestsAssumption
  <2>3. pc \in Driving /\ pc # "waiting" BY PageStep DEF Init
  <2>4. answers \in Seq([status : {200, 500}, body : AnyBody]) /\ Len(answers) = 0
    BY DEF Init
  <2>5. verdict.kind = "none" BY DEF Init, Undecided
  <2>6. requests = 0 /\ reading = {} /\ Len(answers) <= requests BY <2>4 DEF Init
  <2>7. /\ captured = _Capture /\ watcher = "off" /\ alive = TRUE /\ timedOut = FALSE
        /\ error = "none" /\ first = "none"
    BY DEF Init
  <2> QED BY <2>1, <2>2, <2>3, <2>4, <2>5, <2>6, <2>7 DEF TypeOK
<1>2. FirstNoticed /\ WatcherDone /\ WaitEnded /\ BodyOfAnswer /\ OneAnswerHeld
  BY DEF Init, FirstNoticed, WatcherDone, WaitEnded, BodyOfAnswer, OneAnswerHeld, _Capture
<1>3. VerdictOfCapture BY DEF Init, VerdictOfCapture
<1> QED BY <1>1, <1>2, <1>3 DEF IInv

\* What the attempt does leaves the capture alone.
LEMMA AttemptStep ==
    ASSUME IInv, StepEnds \/ StepFails \/ WaitWakes \/ WaitTimesOut \/ CloseEnds
    PROVE  IInv'
<1> USE DEF IInv
<1>1. UNCHANGED noticed /\ UNCHANGED alive
  BY DEF StepEnds, StepFails, WaitWakes, WaitTimesOut, EndWait, CloseEnds
<1>2. FirstNoticed' /\ BodyOfAnswer' /\ OneAnswerHeld'
  BY <1>1 DEF noticed, FirstNoticed, BodyOfAnswer, OneAnswerHeld
<1>3. CASE StepEnds
  <2>1. /\ \/ pc' \in Driving /\ watcher' = "off"
           \/ pc' = "waiting" /\ watcher' = "watching"
        /\ UNCHANGED <<error, verdict, timedOut>> /\ pc \in Driving
    BY <1>3, StepLeads DEF StepEnds
  <2>2. TypeOK' BY <1>1, <2>1, PageStep DEF TypeOK, noticed
  <2>3. WatcherDone' /\ WaitEnded' /\ VerdictOfCapture'
    BY <1>1, <2>1, PageStep DEF WatcherDone, WaitEnded, VerdictOfCapture, noticed
  <2> QED BY <1>2, <2>2, <2>3
<1>4. CASE StepFails
  <2>1. TypeOK' BY <1>1, <1>4, PageStep DEF TypeOK, noticed, StepFails
  <2>2. WatcherDone' /\ WaitEnded' /\ VerdictOfCapture'
    BY <1>1, <1>4, PageStep
    DEF WatcherDone, WaitEnded, VerdictOfCapture, noticed, StepFails, TypeOK
  <2> QED BY <1>2, <2>1, <2>2
<1>5. CASE WaitWakes \/ WaitTimesOut
  <2>1. /\ pc = "waiting" /\ EndWait /\ timedOut' \in BOOLEAN
        /\ timedOut' \/ captured.received \/ watcher \in {"done", "failed", "lost"}
    <3>1. CASE WaitWakes BY <3>1 DEF WaitWakes, TypeOK
    <3>2. CASE WaitTimesOut BY <3>2 DEF WaitTimesOut
    <3> QED BY <1>5, <3>1, <3>2
  <2>2. TypeOK' BY <1>1, <2>1, PageStep DEF TypeOK, noticed, EndWait, WatcherError
  <2>3. WatcherDone' /\ WaitEnded' /\ VerdictOfCapture'
    BY <1>1, <2>1
    DEF WatcherDone, WaitEnded, VerdictOfCapture, noticed, EndWait, WatcherError
  <2> QED BY <1>2, <2>2, <2>3
<1>6. CASE CloseEnds
  <2>1. TypeOK' BY <1>1, <1>6, PageStep, ParseKinds DEF TypeOK, noticed, CloseEnds, Raised
  <2>2. WatcherDone' /\ WaitEnded' /\ VerdictOfCapture'
    BY <1>1, <1>6 DEF WatcherDone, WaitEnded, VerdictOfCapture, noticed, CloseEnds
  <2> QED BY <1>2, <2>1, <2>2
<1> QED BY <1>3, <1>4, <1>5, <1>6

\* The watcher notes a challenge only while no request was seen.
LEMMA WatcherStep ==
    ASSUME IInv, WatcherSees \/ WatcherReleased \/ WatcherFails
    PROVE  IInv'
<1> USE DEF IInv
<1>1. /\ pc = "waiting" /\ UNCHANGED <<pc, alive, error, verdict, timedOut>>
      /\ UNCHANGED <<reading, requests, answers>>
      /\ watcher' \in {"holding", "done", "failed", "lost"}
  BY DEF WatcherSees, WatcherReleased, WatcherFails, noticed, TypeOK
<1>2. \/ UNCHANGED <<captured, first>> /\ (watcher' = "done" => captured.received)
      \/ /\ ~captured.requested
         /\ captured' = [captured EXCEPT !.challenged = TRUE]
         /\ first' = IF first = "none" THEN "challenge" ELSE first
  BY DEF WatcherSees, WatcherReleased, WatcherFails, noticed
<1>3. /\ captured' \in Capture
      /\ captured'.requested = captured.requested /\ captured'.received = captured.received
      /\ captured'.body = captured.body /\ captured'.status = captured.status
  <2>1. captured \in Capture BY CapturedTyped
  <2>2. CASE captured' = captured BY <2>1, <2>2
  <2>3. CASE captured' = [captured EXCEPT !.challenged = TRUE]
    <3>1. captured' \in Capture BY <2>1, <2>3, CaptureFlagged
    <3> QED BY <2>1, <2>3, <3>1 DEF Capture
  <2> QED BY <1>2, <2>2, <2>3
<1>4. TypeOK'
  <2>1. first' \in {"none", "request", "challenge"} BY <1>2 DEF TypeOK
  <2>2. /\ watcher' \in {"off", "watching", "holding", "done", "failed", "lost"}
        /\ watcher' = "off" <=> pc' # "waiting"
    BY <1>1
  <2>3. /\ pc' \in Driving \cup {"waiting", "closing", "done"}
        /\ alive' \in BOOLEAN /\ timedOut' \in BOOLEAN
        /\ error' \in {"none", "UpstreamError", "TargetClosedError"}
        /\ verdict'.kind \in {"none", "returned", "captcha", "error"}
    BY <1>1 DEF TypeOK
  <2>4. /\ requests' \in 0..MaxRequests
        /\ answers' \in Seq([status : {200, 500}, body : AnyBody])
        /\ reading' \subseteq 1..Len(answers') /\ Len(answers') <= requests'
    BY <1>1 DEF TypeOK
  <2>5. captured' \in [requested : BOOLEAN, challenged : BOOLEAN, status : {0, 200, 500},
                       body : AnyBody, received : BOOLEAN]
    BY <1>3 DEF Capture
  <2> QED BY <2>1, <2>2, <2>3, <2>4, <2>5 DEF TypeOK
<1>5. FirstNoticed' BY <1>1, <1>2, <1>3 DEF FirstNoticed, TypeOK
<1>6. WatcherDone'
  <2>1. CASE watcher' = "done" => captured.received
    BY <1>3, <2>1 DEF WatcherDone
  <2>2. CASE captured' = [captured EXCEPT !.challenged = TRUE]
    <3>1. captured \in Capture BY CapturedTyped
    <3>2. captured'.challenged BY <2>2, <3>1 DEF Capture
    <3> QED BY <3>2 DEF WatcherDone
  <2> QED BY <1>2, <2>1, <2>2
<1>7. WaitEnded' /\ VerdictOfCapture' BY <1>1 DEF WaitEnded, VerdictOfCapture
<1>8. BodyOfAnswer' /\ OneAnswerHeld' BY <1>1, <1>3 DEF BodyOfAnswer, OneAnswerHeld
<1> QED BY <1>4, <1>5, <1>6, <1>7, <1>8

\* A request is seen: the first thing noticed, unless a challenge was noted.
LEMMA RequestStep == ASSUME IInv, OnRequest PROVE IInv'
<1> USE DEF IInv
<1>1. /\ captured' \in Capture
      /\ captured'.requested = TRUE /\ captured'.challenged = captured.challenged
      /\ captured'.received = captured.received
      /\ captured'.body = captured.body /\ captured'.status = captured.status
  <2>1. captured \in Capture /\ captured' = [captured EXCEPT !.requested = TRUE]
    BY CapturedTyped DEF OnRequest
  <2>2. captured' \in Capture BY <2>1, CaptureFlagged
  <2> QED BY <2>1, <2>2 DEF Capture
<1>2. /\ requests' = requests + 1 /\ requests' \in 0..MaxRequests /\ requests \in Nat
      /\ first' = IF first = "none" THEN "request" ELSE first
      /\ UNCHANGED <<pc, watcher, alive, error, verdict, reading, answers, timedOut>>
  BY RequestsAssumption DEF OnRequest, TypeOK
<1>3. TypeOK'
  <2>1. Len(answers) \in Nat BY DEF TypeOK
  <2> QED BY <1>1, <1>2, <2>1 DEF TypeOK, Capture
<1>4. FirstNoticed' BY <1>1, <1>2 DEF FirstNoticed, TypeOK
<1>5. WatcherDone' /\ WaitEnded' BY <1>1, <1>2 DEF WatcherDone, WaitEnded
<1>6. BodyOfAnswer' /\ OneAnswerHeld' BY <1>1, <1>2 DEF BodyOfAnswer, OneAnswerHeld
<1>7. VerdictOfCapture' BY <1>2 DEF VerdictOfCapture, OnRequest, Listening
<1> QED BY <1>3, <1>4, <1>5, <1>6, <1>7

\* A response is seen: its status is held, its body is not read yet.
LEMMA ResponseStep ==
    ASSUME IInv, NEW status \in {200, 500}, NEW body \in Bodies, OnResponse(status, body)
    PROVE  IInv'
<1> USE DEF IInv
<1>1. /\ answers' = Append(answers, [status |-> status, body |-> body])
      /\ reading' = reading \cup {Len(answers) + 1}
      /\ captured' = [captured EXCEPT !.status = status]
      /\ Len(answers) < requests /\ pc # "done"
      /\ UNCHANGED <<pc, watcher, alive, error, verdict, requests, first, timedOut>>
  BY DEF OnResponse, Listening
<1>2. answers \in Seq([status : {200, 500}, body : AnyBody]) /\ Len(answers) \in Nat
  BY DEF TypeOK
<1>3. [status |-> status, body |-> body] \in [status : {200, 500}, body : AnyBody]
  BY BodiesTyped
<1>4. /\ answers' \in Seq([status : {200, 500}, body : AnyBody])
      /\ Len(answers') = Len(answers) + 1
      /\ \A i \in 1..Len(answers) : answers'[i] = answers[i]
      /\ answers'[Len(answers) + 1] = [status |-> status, body |-> body]
  BY <1>1, <1>2, <1>3
<1>5. /\ captured' \in Capture
      /\ captured'.requested = captured.requested
      /\ captured'.challenged = captured.challenged
      /\ captured'.received = captured.received
      /\ captured'.body = captured.body /\ captured'.status = status
  <2>1. captured \in Capture BY CapturedTyped
  <2>2. captured' = [captured EXCEPT !.status = status] BY <1>1
  <2>3. captured' \in Capture BY <2>1, <2>2, CaptureStatus
  <2> QED BY <2>1, <2>2, <2>3 DEF Capture
<1>6. TypeOK'
  <2>1. reading' \subseteq 1..Len(answers') /\ Len(answers') <= requests'
    BY <1>1, <1>2, <1>4 DEF TypeOK
  <2> QED BY <1>1, <1>4, <1>5, <2>1 DEF TypeOK, Capture
<1>7. FirstNoticed' BY <1>1, <1>5 DEF FirstNoticed
<1>8. WatcherDone' /\ WaitEnded' /\ VerdictOfCapture'
  BY <1>1, <1>5 DEF WatcherDone, WaitEnded, VerdictOfCapture
<1>9. BodyOfAnswer'
  <2> SUFFICES ASSUME captured'.body # Unreadable
               PROVE  \E i \in (1..Len(answers')) \ reading' : captured'.body = answers'[i].body
    BY DEF BodyOfAnswer
  <2>1. PICK i \in (1..Len(answers)) \ reading : captured.body = answers[i].body
    BY <1>5 DEF BodyOfAnswer
  <2>2. i \in (1..Len(answers')) \ reading' BY <1>1, <1>2, <1>4
  <2> QED BY <1>4, <1>5, <2>1, <2>2
<1>10. OneAnswerHeld'
  <2>1. CASE Len(answers) = 0
    <3>1. /\ answers'[1].status = status
          /\ 1 \in reading' /\ Len(answers') = 1
      BY <1>1, <1>4, <2>1
    <3> QED BY <1>5, <2>1, <3>1 DEF OneAnswerHeld
  <2>2. CASE Len(answers) > 0
    BY <1>2, <1>4, <2>2 DEF OneAnswerHeld
  <2> QED BY <1>2, <2>1, <2>2
<1> QED BY <1>6, <1>7, <1>8, <1>9, <1>10

\* A body was read, or could not be: it is as the answer has it, which is no longer
\* being read.
LEMMA ReadStep ==
    ASSUME IInv, NEW i \in reading, ReadEnds(i) \/ ReadFails(i)
    PROVE  IInv'
<1> USE DEF IInv
<1>1. /\ answers \in Seq(Answer) /\ Len(answers) \in Nat /\ i \in 1..Len(answers)
      /\ requests \in Nat /\ Len(answers) <= requests /\ reading \subseteq 1..Len(answers)
  BY DEF TypeOK, Answer
<1>2. /\ reading' = reading \ {i} /\ pc # "done"
      /\ UNCHANGED <<pc, watcher, alive, error, verdict, requests, first, timedOut>>
      /\ \/ /\ captured' = [captured EXCEPT !.body = answers[i].body, !.received = TRUE]
            /\ answers' = answers
         \/ /\ captured' = [captured EXCEPT !.received = TRUE]
            /\ answers' = [answers EXCEPT ![i].body = Unreadable]
  BY DEF ReadEnds, ReadFails, Listening
<1>3. /\ answers' \in Seq(Answer) /\ Len(answers') = Len(answers)
      /\ \A j \in 1..Len(answers) : j # i => answers'[j] = answers[j]
      /\ answers'[i].status = answers[i].status
  <2>1. CASE answers' = answers BY <1>1, <2>1
  <2>2. CASE answers' = [answers EXCEPT ![i].body = Unreadable]
    <3>1. answers[i] \in Answer BY <1>1, AnswerTyped
    <3>2. /\ [answers[i] EXCEPT !.body = Unreadable] \in Answer
          /\ [answers[i] EXCEPT !.body = Unreadable].status = answers[i].status
      BY <3>1, BodiesTyped DEF Answer
    <3>3. answers' = [answers EXCEPT ![i] = [answers[i] EXCEPT !.body = Unreadable]]
      BY <2>2
    <3> QED BY <1>1, <3>1, <3>2, <3>3
  <2> QED BY <1>2, <2>1, <2>2
<1>4. /\ captured' \in Capture
      /\ captured'.requested = captured.requested
      /\ captured'.challenged = captured.challenged
      /\ captured'.received = TRUE /\ captured'.status = captured.status
  <2>1. answers[i].body \in AnyBody BY <1>1, AnswerTyped
  <2>2. captured \in Capture BY CapturedTyped
  <2>3. CASE captured' = [captured EXCEPT !.body = answers[i].body, !.received = TRUE]
    <3>1. captured' \in Capture BY <2>1, <2>2, <2>3, CaptureBody
    <3> QED BY <2>2, <2>3, <3>1 DEF Capture
  <2>4. CASE captured' = [captured EXCEPT !.received = TRUE]
    <3>1. captured' \in Capture BY <2>1, <2>2, <2>4, CaptureFlagged
    <3> QED BY <2>2, <2>4, <3>1 DEF Capture
  <2> QED BY <1>2, <2>3, <2>4
<1>5. \/ captured'.body = answers[i].body /\ answers' = answers
      \/ captured'.body = captured.body /\ answers'[i].body = Unreadable
  <2>1. captured \in Capture /\ answers[i] \in Answer BY <1>1, AnswerTyped DEF TypeOK, Capture
  <2>2. CASE /\ captured' = [captured EXCEPT !.body = answers[i].body, !.received = TRUE]
             /\ answers' = answers
    BY <2>1, <2>2 DEF Capture
  <2>3. CASE /\ captured' = [captured EXCEPT !.received = TRUE]
             /\ answers' = [answers EXCEPT ![i].body = Unreadable]
    <3>1. captured'.body = captured.body BY <2>1, <2>3 DEF Capture
    <3>2. answers'[i] = [answers[i] EXCEPT !.body = Unreadable] BY <1>1, <2>3
    <3>3. answers'[i].body = Unreadable BY <2>1, <3>2 DEF Answer
    <3> QED BY <3>1, <3>3
  <2> QED BY <1>2, <2>2, <2>3
<1>6. TypeOK' BY <1>1, <1>2, <1>3, <1>4 DEF TypeOK, Answer, Capture
<1>7. FirstNoticed' BY <1>1, <1>2, <1>4 DEF FirstNoticed
<1>8. WatcherDone' /\ WaitEnded' /\ VerdictOfCapture'
  BY <1>2, <1>4 DEF WatcherDone, WaitEnded, VerdictOfCapture
<1>9. BodyOfAnswer'
  <2> SUFFICES ASSUME captured'.body # Unreadable
               PROVE  \E j \in (1..Len(answers')) \ reading' : captured'.body = answers'[j].body
    BY DEF BodyOfAnswer
  <2>1. CASE captured'.body = answers[i].body /\ answers' = answers
    BY <1>1, <1>2, <2>1
  <2>2. CASE captured'.body = captured.body
    <3>1. PICK j \in (1..Len(answers)) \ reading : captured.body = answers[j].body
      BY <2>2 DEF BodyOfAnswer
    <3>2. j # i /\ j \in (1..Len(answers')) \ reading' BY <1>2, <1>3, <3>1
    <3> QED BY <1>3, <2>2, <3>1, <3>2
  <2> QED BY <1>5, <2>1, <2>2
<1>10. OneAnswerHeld'
  <2>1. Len(answers) = 1 => i = 1 BY <1>1
  <2>2. Len(answers) # 0 BY <1>1
  <2>3. Len(answers) = 1 => captured'.body = answers'[1].body
    BY <1>5, <2>1 DEF OneAnswerHeld
  <2>4. Len(answers) = 1 => captured'.status = answers'[1].status
    BY <1>3, <1>4, <2>1 DEF OneAnswerHeld
  <2> QED BY <1>2, <1>3, <1>4, <2>1, <2>2, <2>3, <2>4 DEF OneAnswerHeld
<1> QED BY <1>6, <1>7, <1>8, <1>9, <1>10

\* A page that dies takes nothing out of the capture.
LEMMA DeathStep == ASSUME IInv, PageDies PROVE IInv'
<1> USE DEF IInv
<1>1. /\ alive' \in BOOLEAN
      /\ UNCHANGED <<pc, captured, watcher, error, verdict, timedOut>>
      /\ UNCHANGED <<reading, requests, answers, first>>
  BY DEF PageDies, noticed
<1>2. TypeOK' BY <1>1 DEF TypeOK
<1>3. FirstNoticed' /\ WatcherDone' /\ WaitEnded' BY <1>1 DEF FirstNoticed, WatcherDone, WaitEnded
<1>4. BodyOfAnswer' /\ OneAnswerHeld' BY <1>1 DEF BodyOfAnswer, OneAnswerHeld
<1>5. VerdictOfCapture' BY <1>1 DEF VerdictOfCapture
<1> QED BY <1>2, <1>3, <1>4, <1>5

LEMMA StepInv == IInv /\ [Next]_vars => IInv'
<1> SUFFICES ASSUME IInv, [Next]_vars PROVE IInv' OBVIOUS
<1>1. CASE StepEnds \/ StepFails \/ WaitWakes \/ WaitTimesOut \/ CloseEnds
  BY <1>1, AttemptStep
<1>2. CASE WatcherSees \/ WatcherReleased \/ WatcherFails BY <1>2, WatcherStep
<1>3. CASE OnRequest BY <1>3, RequestStep
<1>4. ASSUME NEW status \in {200, 500}, NEW body \in Bodies, OnResponse(status, body)
      PROVE  IInv'
  BY <1>4, ResponseStep
<1>5. ASSUME NEW i \in reading, ReadEnds(i) \/ ReadFails(i) PROVE IInv' BY <1>5, ReadStep
<1>6. CASE PageDies BY <1>6, DeathStep
<1>7. CASE UNCHANGED vars
  BY <1>7 DEF vars, noticed, IInv, TypeOK, FirstNoticed, WatcherDone, WaitEnded, BodyOfAnswer,
              OneAnswerHeld, VerdictOfCapture
<1> QED BY <1>1, <1>2, <1>3, <1>4, <1>5, <1>6, <1>7 DEF Next

-----------------------------------------------------------------------------
(* The theorems. *)

\* The invariant in every state of an attempt.
THEOREM CaptureInvariant == Spec => []IInv
<1>1. Init => IInv BY InitInv
<1>2. IInv /\ [Next]_vars => IInv' BY StepInv
<1> QED BY <1>1, <1>2, PTL DEF Spec

\* The type invariant: the watcher runs exactly while the attempt waits, the texts
\* being read are of responses seen, each of which answers a request seen.
THEOREM TypesHold == Spec => []TypeOK
<1>1. IInv => TypeOK BY DEF IInv
<1> QED BY <1>1, CaptureInvariant, PTL

\* A browser is sent into a cooldown only if the site rejected the token, or the
\* attempt gave up before it saw a case request.
THEOREM CooldownIsJustified == Spec => []CooldownJustified
<1>1. IInv => CooldownJustified
  <2> SUFFICES ASSUME IInv, Cools
               PROVE  \/ \E i \in 1..Len(answers) :
                           FromPayload(answers[i].body.payload) = "CAPTCHA_REJECTED"
                      \/ first # "request"
    BY DEF CooldownJustified
  <2> USE DEF IInv
  <2>1. verdict = Parse(captured)
    BY DEF Cools, VerdictOfCapture, Undecided, Raised
  <2>2. CASE verdict.reason = "REJECTED"
    <3>1. /\ captured.body.json = "object"
          /\ FromPayload(captured.body.payload) = "CAPTCHA_REJECTED"
      BY <2>1, <2>2, ParseKinds DEF Cools
    <3>2. captured.body # Unreadable BY <3>1 DEF Unreadable, Body
    <3>3. PICK i \in 1..Len(answers) : captured.body = answers[i].body
      BY <3>2 DEF BodyOfAnswer
    <3> QED BY <3>1, <3>3
  <2>3. CASE verdict.reason # "REJECTED"
    <3>1. captured.challenged \/ ~captured.requested
      BY <2>1, <2>3, ParseKinds DEF Cools
    <3> QED BY <3>1 DEF FirstNoticed
  <2> QED BY <2>2, <2>3
<1> QED BY <1>1, CaptureInvariant, PTL

\* Once the page's request was the first thing noticed, only its response, the
\* timeout or an error ends the wait.
THEOREM RequestsAreWaitedFor == Spec => []RequestIsWaitedFor
<1>1. IInv => RequestIsWaitedFor BY DEF IInv, RequestIsWaitedFor, WaitEnded, FirstNoticed
<1> QED BY <1>1, CaptureInvariant, PTL

\* If the site answers once, and the answer was read in time, the verdict is the one
\* on that answer.
THEOREM OneAnswerDecides == Spec => []OneAnswerOneVerdict
<1>1. IInv => OneAnswerOneVerdict
  BY DEF IInv, OneAnswerOneVerdict, VerdictOfCapture, OneAnswerHeld, Parse
<1> QED BY <1>1, CaptureInvariant, PTL
=============================================================================
