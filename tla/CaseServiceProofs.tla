------------------------- MODULE CaseServiceProofs -------------------------
(***************************************************************************)
(* Proofs about CaseService, for any requests, keys, ttl, cooldown, waits   *)
(* and however slow an INSERT is.                                           *)
(*                                                                          *)
(* The properties are about replies, and follow from what a request holds   *)
(* while it waits: Serving (whose payload, and since when), Telling (the    *)
(* outcome that will be recorded goes with the exception that will become   *)
(* the reply; there is no row and no reply before the handler has either)   *)
(* and Waiting (the wait that an exception names is one that was true when  *)
(* it was raised).  Missed: the cache had no entry when a request without   *)
(* the refresh flag went on to the quota.                                   *)
(***************************************************************************)
EXTENDS CaseService, SequenceTheorems, TLAPS

-----------------------------------------------------------------------------
(* The invariant. *)

Failures == Exceptions \ {"CancelledError"}

\* What the cache has, and what a request that will answer a case has.
Good(value, key) ==
    value.key = key /\ value.says = "OK" /\ value.at <= now

Serving ==
    /\ \A k \in Keys : entries[k] # NoEntry =>
         /\ Good(entries[k].value, k)
         /\ entries[k].value.at <= entries[k].stored_at
         /\ entries[k].stored_at <= entries[k].value.at + Slow
         /\ entries[k].stored_at <= now
    /\ \A r \in Requests :
         /\ pc[r] \in {"hit", "quota", "looking", "recording"} => asked[r].at <= now
         /\ pc[r] \in {"hit", "quota", "looking", "recording"} => asked[r].key \in Keys
         /\ pc[r] = "hit" => Good(held[r].value, asked[r].key) /\ ~asked[r].refresh
         /\ pc[r] = "recording" =>
              /\ held[r].at <= now /\ now <= held[r].at + Slow
              /\ held[r].error = "none" =>
                   Good(held[r].value, asked[r].key) /\ held[r].value.at = held[r].at
              /\ held[r].error = "none" => asked[r].at <= held[r].at
         /\ pc[r] = "hit" => held[r].at <= now /\ now <= held[r].at + Slow

Tells(r) ==
    /\ ~Left(r) => rows[r] = <<>> /\ reply[r] = NoReply
    /\ pc[r] = "headers" => reply[r].status # 0
    /\ pc[r] = "hit" => held[r].outcome = "ok"
    /\ pc[r] = "recording" =>
         \/ held[r].error = "CancelledError" /\ held[r].outcome = "ok"
         \/ held[r].error = "none" /\ held[r].outcome = "ok"
         \/ held[r].error \in Failures /\ held[r].outcome = OutcomeOf(held[r].error)

Telling == \A r \in Requests : Tells(r)

Missed ==
    \A r \in Requests :
      pc[r] = "quota" /\ ~asked[r].refresh =>
        LET entry == entries[asked[r].key] IN
        entry # NoEntry => entry.stored_at >= asked[r].at

Waiting ==
    \A r \in Requests :
      pc[r] = "recording" /\ held[r].error = "BrowserUnavailableError" =>
        held[r].wait <= coolLeft + (now - held[r].at)

IInv == TypeOK /\ Serving /\ Telling /\ Waiting /\ Missed /\ OnlyCasesServed /\ LogAgreesWithReply

-----------------------------------------------------------------------------
(* The replies. *)

\* Round is at most half a tick more than half of the ticks.
LEMMA RoundBounds ==
    ASSUME NEW n \in Nat
    PROVE  /\ RetryAfterHeader(n) \in Nat /\ RetryAfterHeader(n) >= 1
           /\ RetryAfterHeader(n) = 1 \/ 2 * RetryAfterHeader(n) <= n + 1
<1>1. Half(n) \in Nat /\ 2 * Half(n) <= n /\ (n % 4 = 3 => 2 * Half(n) <= n - 1)
  BY DEF Half
<1>2. Round(n) \in Nat /\ 2 * Round(n) <= n + 1
  BY <1>1 DEF Round
<1> QED
  BY <1>2 DEF RetryAfterHeader

\* Every exception that fetch_case knows has a status, and a wait or none.
LEMMA ReplyTypes ==
    ASSUME TypeOK,
           NEW error \in Failures \cup {"none", "ClientException", "QuotaExceededError",
                                        "QueueTimeoutError"},
           NEW wait \in Nat
    PROVE  StatusOf(error) \in Statuses /\ RetryOf(error, wait) \in Nat
<1>1. coolLeft \in Nat
  BY TimesAssumption DEF TypeOK
<1>2. StatusOf(error) \in Statuses
  BY DEF StatusOf, Statuses, Failures, Exceptions
<1>3. RetryOf(error, wait) \in Nat
  BY <1>1, RoundBounds DEF RetryOf
<1> QED
  BY <1>2, <1>3

\* Status 0 is of no reply.
LEMMA StatusIsReply == \A error : StatusOf(error) # 0
BY DEF StatusOf

\* What is recorded of a failure is what its status tells.
LEMMA FailureIsLogged ==
    ASSUME NEW error \in Failures
    PROVE  /\ StatusOf(error) # 200
           /\ <<[outcome |-> OutcomeOf(error), cached |-> FALSE]>> \in Logged(StatusOf(error), FALSE)
BY DEF Failures, Exceptions, StatusOf, OutcomeOf, Logged

\* The outcomes that get_case records.
LEMMA OutcomeTypes ==
    ASSUME NEW error
    PROVE  OutcomeOf(error) \in LookupOutcomes
BY DEF OutcomeOf, LookupOutcomes

\* The exceptions of a payload are among those that get_case records.
LEMMA RaisedTypes ==
    ASSUME NEW says \in Outcome
    PROVE  /\ RaiseForOutcome(says) \in Failures \cup {"none"}
           /\ RaiseForOutcome(says) = "none" => says = "OK"
           /\ RaiseForOutcome(says) # "BrowserUnavailableError"
BY DEF RaiseForOutcome, Failures, Exceptions, Outcome

-----------------------------------------------------------------------------
(* Types. *)

\* What requests start from.
LEMMA ConstantTypes ==
    /\ NoValue \in Values /\ Nothing \in HeldType /\ NotAsked \in AskedType
    /\ NoReply \in ReplyType /\ <<>> \in Seq(RowType)
<1>1. NoValue \in Values
  BY DEF NoValue, Value, Values, Outcome
<1>2. Nothing \in HeldType
  BY <1>1 DEF Nothing, HeldType, Exceptions, LookupOutcomes
<1>3. NotAsked \in AskedType
  BY DEF NotAsked, AskedType
<1>4. NoReply \in ReplyType
  BY <1>1 DEF NoReply, ReplyType
<1> QED
  BY <1>1, <1>2, <1>3, <1>4, EmptySeq

\* An answer types the request it answers.
LEMMA AnswerTypes ==
    ASSUME TypeOK, NEW r \in Requests, NEW wait \in Nat, NEW cached \in BOOLEAN,
           NEW value \in Values,
           NEW error \in Failures \cup {"none", "ClientException", "QuotaExceededError",
                                        "QueueTimeoutError"},
           Answer(r, error, wait, cached, value)
    PROVE  /\ pc' \in [Requests -> Labels] /\ held' \in [Requests -> HeldType]
           /\ reply' \in [Requests -> ReplyType]
<1>1. [status |-> StatusOf(error), fetched |-> StatusOf(error), retry_after |-> RetryOf(error, wait),
       cached |-> cached, value |-> value] \in ReplyType
  BY ReplyTypes DEF ReplyType
<1>2. "headers" \in Labels
  BY DEF Labels
<1> QED
  BY <1>1, <1>2, ConstantTypes DEF Answer, Goto, Hold, TypeOK

\* So does an exception that nobody catches,
LEMMA CrashTypes ==
    ASSUME TypeOK, NEW r \in Requests, NEW fetched \in Statuses \cup {0}, NEW cached \in BOOLEAN,
           Crash(r, fetched, cached)
    PROVE  /\ pc' \in [Requests -> Labels] /\ held' \in [Requests -> HeldType]
           /\ reply' \in [Requests -> ReplyType]
<1>1. [status |-> 500, fetched |-> fetched, retry_after |-> 0, cached |-> cached,
       value |-> NoValue] \in ReplyType
  BY ConstantTypes DEF ReplyType, Statuses
<1>2. "over" \in Labels
  BY DEF Labels
<1> QED
  BY <1>1, <1>2, ConstantTypes DEF Crash, Goto, Hold, TypeOK

\* the end of its lookup
LEMMA ConcludeTypes ==
    ASSUME TypeOK, NEW r \in Requests, NEW value \in Values, NEW wait \in Nat,
           NEW error \in Failures \cup {"none"}, Conclude(r, value, error, wait)
    PROVE  pc' \in [Requests -> Labels] /\ held' \in [Requests -> HeldType]
<1>1. "recording" \in Labels
  BY DEF Labels
<1>2. Held(value, error, IF error = "none" THEN "ok" ELSE OutcomeOf(error), wait) \in HeldType
  <2>1. (IF error = "none" THEN "ok" ELSE OutcomeOf(error)) \in LookupOutcomes
    BY OutcomeTypes DEF LookupOutcomes
  <2>2. error \in Exceptions \cup {"none"}
    BY DEF Failures
  <2> QED
    BY <2>1, <2>2 DEF Held, HeldType, TypeOK
<1> QED
  BY <1>1, <1>2 DEF Conclude, Goto, Hold, TypeOK

\* and a row.
LEMMA InsertTypes ==
    ASSUME TypeOK, NEW r \in Requests, NEW cached \in BOOLEAN, Insert(r, cached)
    PROVE  rows' \in [Requests -> Seq(RowType)]
<1>1. Row(r, cached) \in RowType
  BY DEF Row, RowType, HeldType, TypeOK
<1>2. Append(rows[r], Row(r, cached)) \in Seq(RowType)
  BY <1>1, AppendProperties DEF TypeOK
<1> QED
  BY <1>2 DEF Insert, TypeOK

\* What is held or cached has a value of its type.
LEMMA ValueTypes ==
    ASSUME TypeOK
    PROVE  /\ \A r \in Requests : /\ held[r].value \in Values /\ held[r].wait \in Nat
                                 /\ held[r].error \in Exceptions \cup {"none"}
                                 /\ held[r].at \in Nat
           /\ \A k \in Keys : entries[k] # NoEntry =>
                entries[k].value \in Values /\ entries[k].stored_at \in Nat
           /\ \A r \in Requests : asked[r].key \in Keys \cup {NoEntry} /\ asked[r].at \in Nat
           /\ \A r \in Requests : reply[r].fetched \in Statuses \cup {0} /\ reply[r].cached \in BOOLEAN
BY DEF TypeOK, HeldType, EntryType, AskedType, ReplyType

\* The variables keep their types.
LEMMA TypeStep == IInv /\ [Next]_vars => TypeOK'
<1> SUFFICES ASSUME TypeOK, [Next]_vars PROVE TypeOK'
  BY DEF IInv
<1> USE TimesAssumption
<1>0. /\ now \in Nat /\ coolLeft \in Nat /\ coolLeft <= Cooldown
      /\ entries \in [Keys -> EntryType] /\ pc \in [Requests -> Labels]
      /\ asked \in [Requests -> AskedType] /\ held \in [Requests -> HeldType]
      /\ rows \in [Requests -> Seq(RowType)] /\ reply \in [Requests -> ReplyType]
  BY DEF TypeOK
<1>1. ASSUME NEW r \in Requests, BadInput(r) PROVE TypeOK'
  <2>1. [key |-> NoEntry, refresh |-> FALSE, at |-> now] \in AskedType
    BY <1>0 DEF AskedType
  <2>2. asked' \in [Requests -> AskedType]
    BY <1>0, <1>1, <2>1 DEF BadInput, Arrive
  <2>3. pc' \in [Requests -> Labels] /\ held' \in [Requests -> HeldType]
        /\ reply' \in [Requests -> ReplyType]
    BY <1>1, AnswerTypes, ConstantTypes DEF BadInput, Refuse
  <2> QED
    BY <1>0, <1>1, <2>2, <2>3 DEF BadInput, TypeOK
<1>2. ASSUME NEW r \in Requests, NEW k \in Keys, NEW refresh \in BOOLEAN, Call(r, k, refresh)
      PROVE  TypeOK'
  <2> DEFINE found == IF refresh THEN NoEntry ELSE Get(k)
  <2>1. [key |-> k, refresh |-> refresh, at |-> now] \in AskedType
    BY <1>0 DEF AskedType
  <2>2. asked' \in [Requests -> AskedType]
    BY <1>0, <1>2, <2>1 DEF Call, Arrive
  <2>3. Get(k) \in EntryType
    BY <1>0 DEF Get, EntryType
  <2>4. entries' \in [Keys -> EntryType]
    BY <1>0, <1>2, <2>3 DEF Call, AfterGet
  <2>5. found # NoEntry => found.value \in Values
    BY <2>3 DEF EntryType
  <2>6. /\ Held(NoValue, "none", "ok", 0) \in HeldType
        /\ found # NoEntry => Held(found.value, "none", "ok", 0) \in HeldType
    BY <1>0, <2>5, ConstantTypes DEF Held, HeldType, LookupOutcomes
  <2>7. pc' \in [Requests -> Labels] /\ held' \in [Requests -> HeldType]
    BY <1>0, <1>2, <2>6 DEF Call, Goto, Hold, Labels
  <2> QED
    BY <1>0, <1>2, <2>2, <2>4, <2>7 DEF Call, TypeOK
<1>3. ASSUME NEW r \in Requests, TurnAway(r) PROVE TypeOK'
  <2>1. PICK error \in {"QuotaExceededError", "BrowserUnavailableError", "QueueTimeoutError"},
             wait \in Nat : Refuse(r, error, wait)
    BY <1>0, <1>3 DEF TurnAway
  <2>2. pc' \in [Requests -> Labels] /\ held' \in [Requests -> HeldType]
        /\ reply' \in [Requests -> ReplyType]
    BY <2>1, AnswerTypes, ConstantTypes DEF Refuse, Failures, Exceptions
  <2> QED
    BY <1>0, <1>3, <2>2 DEF TurnAway, TypeOK
<1>4. ASSUME NEW r \in Requests, Begin(r) PROVE TypeOK'
  BY <1>0, <1>4 DEF Begin, Goto, Labels, local, TypeOK
<1>5. ASSUME NEW r \in Requests, GetPayload(r) PROVE TypeOK'
  <2>1. PICK says \in Outcome : GotPayload(r, says, RaiseForOutcome(says))
    BY <1>5 DEF GetPayload, PayloadOutcomes
  <2>2. Value(asked[r].key, says, now) \in Values
    BY <1>0, ValueTypes DEF Value, Values
  <2>3. pc' \in [Requests -> Labels] /\ held' \in [Requests -> HeldType]
    BY <2>1, <2>2, ConcludeTypes, ConstantTypes, RaisedTypes DEF GotPayload
  <2> QED
    BY <1>0, <1>5, <2>1, <2>3 DEF GetPayload, GotPayload, Conclude, TypeOK
<1>6. ASSUME NEW r \in Requests, LookupFails(r) PROVE TypeOK'
  <2>1. coolLeft' \in 0..Cooldown
    BY <1>0, <1>6 DEF LookupFails
  <2>2. PICK error \in {"BrowserUnavailableError", "CaptchaError", "UpstreamError",
                       "BrowserLostError", "PlaywrightError"}, wait \in Nat : Conclude(r, NoValue, error, wait)
    BY <1>6, <2>1 DEF LookupFails
  <2>3. pc' \in [Requests -> Labels] /\ held' \in [Requests -> HeldType]
    BY <2>2, ConcludeTypes, ConstantTypes DEF Failures, Exceptions
  <2> QED
    BY <1>0, <2>1, <2>2, <2>3 DEF Conclude, TypeOK
<1>7. ASSUME NEW r \in Requests, RecordHit(r) PROVE TypeOK'
  <2>1. /\ pc' \in [Requests -> Labels] /\ held' \in [Requests -> HeldType]
        /\ reply' \in [Requests -> ReplyType]
    BY <1>7, AnswerTypes, ValueTypes DEF RecordHit
  <2>2. rows' \in [Requests -> Seq(RowType)]
    BY <1>7, InsertTypes DEF RecordHit
  <2> QED
    BY <1>0, <1>7, <2>1, <2>2 DEF RecordHit, TypeOK
<1>8. ASSUME NEW r \in Requests, Record(r) PROVE TypeOK'
  <2>1. /\ now' = now /\ coolLeft' = coolLeft /\ asked' = asked /\ Insert(r, FALSE)
    BY <1>8 DEF Record
  <2>2. rows' \in [Requests -> Seq(RowType)]
    BY <2>1, InsertTypes
  <2>3. CASE held[r].error = "CancelledError"
    <3>1. /\ entries' = entries /\ reply' = reply /\ Goto(r, "over") /\ Hold(r, Nothing)
      BY <1>8, <2>3 DEF Record
    <3> QED
      BY <1>0, <2>1, <2>2, <3>1, ConstantTypes DEF Goto, Hold, Labels, TypeOK
  <2>4. CASE held[r].error = "none"
    <3>1. /\ entries' = AfterSet(asked[r].key, held[r].value)
          /\ Answer(r, "none", 0, FALSE, held[r].value)
      BY <1>8, <2>4 DEF Record
    <3>2. /\ pc' \in [Requests -> Labels] /\ held' \in [Requests -> HeldType]
          /\ reply' \in [Requests -> ReplyType]
      BY <3>1, AnswerTypes, ValueTypes
    <3>3. [value |-> held[r].value, stored_at |-> now] \in EntryType
      BY <1>0, ValueTypes DEF EntryType
    <3>4. entries' \in [Keys -> EntryType]
      BY <1>0, <3>1, <3>3 DEF AfterSet
    <3> QED
      BY <1>0, <2>1, <2>2, <3>2, <3>4 DEF TypeOK
  <2>5. CASE held[r].error = "PlaywrightError"
    <3>1. /\ entries' = entries /\ Crash(r, 500, FALSE)
      BY <1>8, <2>5 DEF Record, StatusOf
    <3>2. 500 \in Statuses \cup {0}
      BY DEF Statuses
    <3>3. /\ pc' \in [Requests -> Labels] /\ held' \in [Requests -> HeldType]
          /\ reply' \in [Requests -> ReplyType]
      BY <3>1, <3>2, CrashTypes
    <3> QED
      BY <1>0, <2>1, <2>2, <3>1, <3>3 DEF TypeOK
  <2>6. CASE held[r].error \notin {"none", "PlaywrightError", "CancelledError"}
    <3>1. /\ entries' = entries /\ Answer(r, held[r].error, held[r].wait, FALSE, NoValue)
      BY <1>8, <2>6 DEF Record, Refuse
    <3>2. held[r].error \in Failures
      BY <2>6, ValueTypes DEF Failures
    <3>3. /\ pc' \in [Requests -> Labels] /\ held' \in [Requests -> HeldType]
          /\ reply' \in [Requests -> ReplyType]
      BY <3>1, <3>2, AnswerTypes, ValueTypes, ConstantTypes
    <3> QED
      BY <1>0, <2>1, <2>2, <3>1, <3>3 DEF TypeOK
  <2> QED
    BY <2>3, <2>4, <2>5, <2>6
<1>9. ASSUME NEW r \in Requests, DatabaseFails(r) PROVE TypeOK'
  <2>1. /\ Crash(r, reply[r].fetched, reply[r].cached)
        /\ UNCHANGED <<now, entries, coolLeft, asked, rows>>
    BY <1>9 DEF DatabaseFails
  <2> QED
    BY <1>0, <2>1, CrashTypes, ValueTypes DEF TypeOK
<1>13. ASSUME NEW r \in Requests, Reply(r) PROVE TypeOK'
  BY <1>0, <1>13 DEF Reply, Goto, Labels, local, TypeOK
<1>14. ASSUME NEW r \in Requests, Close(r) PROVE TypeOK'
  <2>1. /\ pc' \in [Requests -> Labels] /\ asked' \in [Requests -> AskedType]
        /\ rows' \in [Requests -> Seq(RowType)] /\ reply' \in [Requests -> ReplyType]
    BY <1>0, <1>14, ConstantTypes DEF Close, Goto, Labels
  <2> QED
    BY <1>0, <1>14, <2>1 DEF Close, TypeOK
<1>10. ASSUME NEW recorded \in SUBSET Requests, Exit(recorded) PROVE TypeOK'
  <2>1. Held(NoValue, "CancelledError", "ok", 0) \in HeldType
    BY <1>0, ConstantTypes DEF Held, HeldType, LookupOutcomes, Exceptions
  <2>2. /\ pc' \in [Requests -> Labels] /\ NoEntry \in EntryType
    BY <1>10 DEF Exit, Labels, EntryType
  <2>3. held' \in [Requests -> HeldType] /\ asked' \in [Requests -> AskedType]
    BY <1>0, <1>10, <2>1, ConstantTypes DEF Exit
  <2>4. reply' \in [Requests -> ReplyType] /\ rows' \in [Requests -> Seq(RowType)]
    BY <1>10, ConstantTypes DEF Exit
  <2> QED
    BY <1>0, <1>10, <2>2, <2>3, <2>4 DEF Exit, TypeOK
<1>11. CASE Tick
  <2>1. now' \in Nat /\ coolLeft' \in 0..Cooldown
    BY <1>0, <1>11 DEF Tick
  <2> QED
    BY <1>0, <1>11, <2>1 DEF Tick, local, TypeOK
<1>12. CASE UNCHANGED vars
  BY <1>12 DEF vars, local, TypeOK
<1> QED
  BY <1>1, <1>2, <1>3, <1>4, <1>5, <1>6, <1>7, <1>8, <1>9, <1>10, <1>11, <1>12, <1>13, <1>14 DEF Next, Step

-----------------------------------------------------------------------------
(* Steps. *)

\* A refusal records nothing, and its status says so.
LEMMA RefusalIsLogged ==
    ASSUME NEW error \in {"ClientException", "QuotaExceededError", "QueueTimeoutError",
                          "BrowserUnavailableError"}
    PROVE  StatusOf(error) # 200 /\ <<>> \in Logged(StatusOf(error), FALSE)
BY DEF StatusOf, Logged

\* Who is turned away is refused before a lookup.
LEMMA TurnAwayEffect ==
    ASSUME TypeOK, NEW r \in Requests, TurnAway(r)
    PROVE  /\ pc[r] = "quota" /\ UNCHANGED <<now, entries, coolLeft, asked, rows>>
           /\ \E error \in {"QuotaExceededError", "BrowserUnavailableError", "QueueTimeoutError"},
                 wait \in Nat : /\ Refuse(r, error, wait)
                                /\ error = "BrowserUnavailableError" => wait = coolLeft
BY TimesAssumption DEF TurnAway, TypeOK

\* A failed lookup leaves the cache alone, and a wait that it names was true.
LEMMA LookupFailsEffect ==
    ASSUME TypeOK, NEW r \in Requests, LookupFails(r)
    PROVE  /\ pc[r] = "looking" /\ coolLeft' \in Nat /\ coolLeft' >= coolLeft
           /\ UNCHANGED <<now, entries, asked, rows, reply>>
           /\ \E error \in {"BrowserUnavailableError", "CaptchaError", "UpstreamError",
                            "BrowserLostError", "PlaywrightError"}, wait \in Nat :
                /\ Conclude(r, NoValue, error, wait)
                /\ error = "BrowserUnavailableError" => wait = coolLeft'
<1>1. coolLeft' \in Nat /\ coolLeft' >= coolLeft /\ pc[r] = "looking"
  BY TimesAssumption DEF TypeOK, LookupFails
<1>2. \E error \in {"BrowserUnavailableError", "CaptchaError", "UpstreamError",
                    "BrowserLostError", "PlaywrightError"}, wait \in Nat :
        /\ Conclude(r, NoValue, error, wait)
        /\ error = "BrowserUnavailableError" => wait = coolLeft'
  BY <1>1 DEF LookupFails
<1> QED
  BY <1>1, <1>2 DEF Conclude

\* The end of a lookup touches its request alone.
LEMMA ConcludeEffect ==
    TypeOK =>
      \A r \in Requests, wait \in Nat, value \in Values, error \in Failures \cup {"none"} :
        Conclude(r, value, error, wait) =>
          /\ pc'[r] = "recording" /\ held'[r].value = value /\ held'[r].error = error
          /\ held'[r].outcome = IF error = "none" THEN "ok" ELSE OutcomeOf(error)
          /\ held'[r].wait = wait /\ held'[r].at = now
          /\ \A s \in Requests : s # r => pc'[s] = pc[s] /\ held'[s] = held[s]
BY DEF Conclude, Goto, Hold, Held, TypeOK

\* A row is appended to those of its request.
LEMMA InsertEffect ==
    ASSUME TypeOK, NEW r \in Requests, NEW cached \in BOOLEAN, Insert(r, cached), rows[r] = <<>>
    PROVE  /\ rows'[r] = <<[outcome |-> held[r].outcome, cached |-> cached]>>
           /\ \A s \in Requests : s # r => rows'[s] = rows[s]
<1>1. Append(<<>>, Row(r, cached)) = <<Row(r, cached)>>
  OBVIOUS
<1> QED
  BY <1>1 DEF Insert, Row, TypeOK

\* What a crash leaves; the others go on as they were.
LEMMA CrashEffect ==
    ASSUME TypeOK, NEW r \in Requests, NEW fetched, NEW cached \in BOOLEAN,
           Crash(r, fetched, cached)
    PROVE  /\ pc'[r] = "over"
           /\ reply'[r].status = 500 /\ reply'[r].fetched = fetched /\ reply'[r].cached = cached
           /\ \A s \in Requests : s # r =>
                pc'[s] = pc[s] /\ held'[s] = held[s] /\ reply'[s] = reply[s]
BY DEF Crash, Goto, Hold, TypeOK

\* What an answer is.
LEMMA AnswerEffect ==
    ASSUME TypeOK, NEW r \in Requests, NEW error, NEW wait, NEW cached \in BOOLEAN, NEW value,
           Answer(r, error, wait, cached, value)
    PROVE  /\ pc'[r] = "headers"
           /\ reply'[r].status = StatusOf(error) /\ reply'[r].fetched = StatusOf(error)
           /\ reply'[r].retry_after = RetryOf(error, wait)
           /\ reply'[r].cached = cached /\ reply'[r].value = value
           /\ \A s \in Requests : s # r =>
                pc'[s] = pc[s] /\ held'[s] = held[s] /\ reply'[s] = reply[s]
BY DEF Answer, Goto, Hold, TypeOK

\* What follows the record of a lookup: the case, its exception, a crash or nothing.
LEMMA RecordEffect ==
    ASSUME TypeOK, NEW r \in Requests, Record(r)
    PROVE  /\ pc[r] = "recording" /\ Insert(r, FALSE) /\ UNCHANGED <<now, coolLeft, asked>>
           /\ \/ /\ held[r].error = "none"
                 /\ entries' = [entries EXCEPT ![asked[r].key] =
                                  [value |-> held[r].value, stored_at |-> now]]
                 /\ Answer(r, "none", 0, FALSE, held[r].value)
              \/ /\ held[r].error \in Failures \ {"PlaywrightError"} /\ entries' = entries
                 /\ Answer(r, held[r].error, held[r].wait, FALSE, NoValue)
              \/ /\ held[r].error = "PlaywrightError" /\ entries' = entries
                 /\ Crash(r, 500, FALSE)
              \/ /\ held[r].error = "CancelledError" /\ entries' = entries
                 /\ reply' = reply /\ Goto(r, "over") /\ Hold(r, Nothing)
BY ValueTypes DEF Record, Refuse, AfterSet, Failures, StatusOf

\* What the request is answered then; the others go on as they were.
LEMMA RecordReplies ==
    ASSUME TypeOK, NEW r \in Requests, Record(r)
    PROVE  /\ \/ /\ pc'[r] = "headers" /\ held[r].error = "none"
                 /\ reply'[r].status = 200 /\ reply'[r].fetched = 200
                 /\ reply'[r].value = held[r].value
              \/ /\ pc'[r] = "headers" /\ held[r].error \in Failures
                 /\ reply'[r].status = StatusOf(held[r].error)
                 /\ reply'[r].fetched = StatusOf(held[r].error)
                 /\ reply'[r].retry_after = RetryOf(held[r].error, held[r].wait)
              \/ /\ pc'[r] = "over" /\ held[r].error = "PlaywrightError"
                 /\ reply'[r].status = 500 /\ reply'[r].fetched = 500
              \/ pc'[r] = "over" /\ held[r].error = "CancelledError" /\ reply'[r] = reply[r]
           /\ \A s \in Requests : s # r =>
                pc'[s] = pc[s] /\ held'[s] = held[s] /\ reply'[s] = reply[s]
<1>1. CASE held[r].error = "none" /\ Answer(r, "none", 0, FALSE, held[r].value)
  <2>1. StatusOf("none") = 200
    BY DEF StatusOf
  <2> QED
    BY <1>1, <2>1 DEF Answer, Goto, Hold, TypeOK
<1>2. CASE /\ held[r].error \in Failures
           /\ Answer(r, held[r].error, held[r].wait, FALSE, NoValue)
  BY <1>2 DEF Answer, Goto, Hold, TypeOK
<1>3. CASE held[r].error = "PlaywrightError" /\ Crash(r, 500, FALSE)
  BY <1>3 DEF Crash, Goto, Hold, TypeOK
<1>4. CASE /\ held[r].error = "CancelledError" /\ reply' = reply
           /\ Goto(r, "over") /\ Hold(r, Nothing)
  BY <1>4 DEF Goto, Hold, TypeOK
<1> QED
  BY <1>1, <1>2, <1>3, <1>4, RecordEffect

\* What is not a hit is not told to be one.
LEMMA RecordUncached ==
    ASSUME TypeOK, NEW r \in Requests, Record(r), held[r].error # "CancelledError"
    PROVE  reply'[r].cached = FALSE
<1>1. \/ \E error, wait, value : Answer(r, error, wait, FALSE, value)
      \/ Crash(r, 500, FALSE)
  BY RecordEffect
<1> QED
  BY <1>1 DEF Answer, Crash, TypeOK

\* A request whose input is bad, or whom a guard turns away, is refused.
LEMMA RefusedEffect ==
    ASSUME TypeOK, NEW r \in Requests, BadInput(r) \/ TurnAway(r)
    PROVE  /\ ~Left(r) /\ rows' = rows /\ pc'[r] = "headers"
           /\ \E error \in {"ClientException", "QuotaExceededError", "QueueTimeoutError",
                             "BrowserUnavailableError"} :
                /\ reply'[r].status = StatusOf(error) /\ reply'[r].fetched = StatusOf(error)
                /\ reply'[r].cached = FALSE
<1>1. \E error \in {"ClientException", "QuotaExceededError", "QueueTimeoutError",
                     "BrowserUnavailableError"}, wait \in Nat : Answer(r, error, wait, FALSE, NoValue)
  <2>1. CASE BadInput(r)
    BY <2>1 DEF BadInput, Refuse
  <2>2. CASE TurnAway(r)
    BY <2>2, TurnAwayEffect DEF Refuse
  <2> QED
    BY <2>1, <2>2
<1>2. rows' = rows /\ ~Left(r)
  BY DEF BadInput, TurnAway, Arrive, Left
<1> QED
  BY <1>1, <1>2, AnswerEffect

\* A call holds nothing that is not fine yet.
LEMMA CallEffect ==
    ASSUME TypeOK, NEW r \in Requests, NEW k \in Keys, NEW refresh \in BOOLEAN,
           Call(r, k, refresh)
    PROVE  /\ pc[r] = "idle" /\ pc'[r] \in {"quota", "hit"} /\ held'[r].outcome = "ok"
           /\ rows' = rows /\ reply' = reply
BY DEF Call, Arrive, Goto, Hold, Held, TypeOK

\* A recorded hit is answered.
LEMMA HitEffect ==
    ASSUME TypeOK, NEW r \in Requests, RecordHit(r)
    PROVE  /\ pc[r] = "hit" /\ pc'[r] = "headers"
           /\ reply'[r].status = 200 /\ reply'[r].fetched = 200 /\ reply'[r].cached = TRUE
           /\ rows[r] = <<>> => rows'[r] = <<[outcome |-> held[r].outcome, cached |-> TRUE]>>
<1>1. /\ Answer(r, "none", 0, TRUE, held[r].value) /\ pc[r] = "hit" /\ Insert(r, TRUE)
  BY DEF RecordHit
<1>2. StatusOf("none") = 200
  BY DEF StatusOf
<1>3. pc'[r] = "headers" /\ reply'[r].status = 200 /\ reply'[r].fetched = 200
  BY <1>1, <1>2 DEF Answer, Goto, TypeOK
<1>4. reply'[r].cached = TRUE
  BY <1>1 DEF Answer, TypeOK
<1>5. rows[r] = <<>> => rows'[r] = <<[outcome |-> held[r].outcome, cached |-> TRUE]>>
  <2>1. rows'[r] = Append(rows[r], Row(r, TRUE))
    BY <1>1 DEF Insert, TypeOK
  <2>2. Append(<<>>, Row(r, TRUE)) = <<Row(r, TRUE)>>
    OBVIOUS
  <2> QED
    BY <2>1, <2>2 DEF Row
<1> QED
  BY <1>1, <1>3, <1>4, <1>5

\* A step of a request touches that request alone.
LEMMA Locality ==
    ASSUME TypeOK, NEW r \in Requests, Step(r)
    PROVE  \A s \in Requests : s # r =>
             /\ pc'[s] = pc[s] /\ held'[s] = held[s] /\ rows'[s] = rows[s]
             /\ reply'[s] = reply[s] /\ asked'[s] = asked[s]
<1>1. CASE BadInput(r)
  BY <1>1 DEF BadInput, Arrive, Refuse, Answer, Goto, Hold, TypeOK
<1>2. ASSUME NEW k \in Keys, NEW refresh \in BOOLEAN, Call(r, k, refresh)
      PROVE  \A s \in Requests : s # r =>
               /\ pc'[s] = pc[s] /\ held'[s] = held[s] /\ rows'[s] = rows[s]
               /\ reply'[s] = reply[s] /\ asked'[s] = asked[s]
  BY <1>2 DEF Call, Arrive, Goto, Hold, TypeOK
<1>3. CASE TurnAway(r)
  BY <1>3 DEF TurnAway, Refuse, Answer, Goto, Hold, TypeOK
<1>4. CASE Begin(r) \/ Reply(r)
  BY <1>4 DEF Begin, Reply, Goto, local, TypeOK
<1>5. CASE GetPayload(r) \/ LookupFails(r)
  BY <1>5 DEF GetPayload, GotPayload, LookupFails, Conclude, Goto, Hold, TypeOK
<1>6. CASE RecordHit(r)
  BY <1>6 DEF RecordHit, Insert, Answer, Goto, Hold, TypeOK
<1>7. CASE Record(r)
  <2>1. UNCHANGED <<now, coolLeft, asked>> /\ Insert(r, FALSE)
    BY <1>7, RecordEffect
  <2>2. \A s \in Requests : s # r => rows'[s] = rows[s]
    BY <2>1 DEF Insert, TypeOK
  <2>3. \A s \in Requests : s # r => pc'[s] = pc[s] /\ held'[s] = held[s] /\ reply'[s] = reply[s]
    BY <1>7, RecordReplies
  <2> QED
    BY <2>1, <2>2, <2>3
<1>8. CASE DatabaseFails(r)
  BY <1>8 DEF DatabaseFails, Crash, Goto, Hold, TypeOK
<1>9. CASE Close(r)
  BY <1>9 DEF Close, Goto, TypeOK
<1> QED
  BY <1>1, <1>2, <1>3, <1>4, <1>5, <1>6, <1>7, <1>8, <1>9 DEF Step

\* What is cached, and what requests hold, goes on being a case of their key.
LEMMA ServingStep == IInv /\ [Next]_vars => Serving'
<1> SUFFICES ASSUME TypeOK, Serving, Telling, Waiting, Missed, OnlyCasesServed,
                    LogAgreesWithReply, [Next]_vars
             PROVE  Serving'
  BY DEF IInv
<1> USE TimesAssumption
<1>1. ASSUME NEW r \in Requests, BadInput(r) PROVE Serving'
  BY <1>1 DEF BadInput, Arrive, Refuse, Answer, Serving, Good, TypeOK, Goto, Hold
<1>2. ASSUME NEW r \in Requests, NEW k \in Keys, NEW refresh \in BOOLEAN,
              Call(r, k, refresh) PROVE Serving'
  BY <1>2 DEF Call, Arrive, AfterGet, Get, IsStale, Serving, Good, TypeOK, Goto, Hold,
     Held
<1>3. ASSUME NEW r \in Requests, TurnAway(r) PROVE Serving'
  BY <1>3 DEF TurnAway, Refuse, Answer, Serving, Good, TypeOK, Goto, Hold
<1>4. ASSUME NEW r \in Requests, Begin(r) PROVE Serving'
  BY <1>4 DEF Begin, Serving, Good, TypeOK, Goto, local
<1>5. ASSUME NEW r \in Requests, GetPayload(r) PROVE Serving'
  BY <1>5, RaisedTypes DEF GetPayload, GotPayload, Conclude, PayloadOutcomes, Serving,
     Good, TypeOK, Goto, Hold, Held, Value
<1>6. ASSUME NEW r \in Requests, LookupFails(r) PROVE Serving'
  <2>1. PICK error \in Failures, wait \in Nat : Conclude(r, NoValue, error, wait)
    BY <1>6, LookupFailsEffect DEF Failures, Exceptions
  <2>2. /\ pc[r] = "looking" /\ UNCHANGED <<now, entries, asked>>
    BY <1>6, LookupFailsEffect
  <2>3. /\ pc'[r] = "recording" /\ held'[r].error # "none" /\ held'[r].at = now
        /\ \A s \in Requests : s # r => pc'[s] = pc[s] /\ held'[s] = held[s]
    BY <2>1, ConcludeEffect, ConstantTypes DEF Failures, Exceptions
  <2> QED
    BY <2>2, <2>3 DEF Serving, Good, TypeOK
<1>7. ASSUME NEW r \in Requests, RecordHit(r) PROVE Serving'
  BY <1>7 DEF RecordHit, Insert, Row, Answer, Serving, Good, TypeOK, Goto, Hold
<1>8. ASSUME NEW r \in Requests, Record(r) PROVE Serving'
  <2>1. pc[r] = "recording" /\ now' = now /\ asked' = asked
    BY <1>8, RecordEffect
  <2>2. /\ pc'[r] \in {"headers", "over"}
        /\ \A s \in Requests : s # r =>
             pc'[s] = pc[s] /\ held'[s] = held[s] /\ asked'[s] = asked[s]
    BY <1>8, <2>1, RecordReplies
  <2>3. asked[r].key \in Keys /\ entries \in [Keys -> EntryType]
    BY <2>1 DEF Serving, TypeOK
  <2>4. \A k \in Keys :
          \/ entries'[k] = entries[k]
          \/ /\ entries'[k] = [value |-> held[r].value, stored_at |-> now]
             /\ k = asked[r].key /\ held[r].error = "none"
    BY <1>8, <2>3, RecordEffect
  <2>5. \A k \in Keys : entries'[k] # NoEntry =>
          /\ entries'[k].value.key = k /\ entries'[k].value.says = "OK"
          /\ entries'[k].value.at <= now
          /\ entries'[k].value.at <= entries'[k].stored_at
          /\ entries'[k].stored_at <= entries'[k].value.at + Slow
          /\ entries'[k].stored_at <= now
    <3> SUFFICES ASSUME NEW k \in Keys, entries'[k] # NoEntry,
                        entries'[k] = [value |-> held[r].value, stored_at |-> now],
                        k = asked[r].key, held[r].error = "none"
                 PROVE  /\ entries'[k].value.key = k /\ entries'[k].value.says = "OK"
                        /\ entries'[k].value.at <= now
                        /\ entries'[k].value.at <= entries'[k].stored_at
                        /\ entries'[k].stored_at <= entries'[k].value.at + Slow
                        /\ entries'[k].stored_at <= now
      BY <2>4 DEF Serving, Good
    <3>1. /\ held[r].value.key = k /\ held[r].value.says = "OK" /\ held[r].value.at <= now
          /\ held[r].value.at = held[r].at /\ now <= held[r].at + Slow
      BY <2>1 DEF Serving, Good
    <3> QED
      BY <3>1, ValueTypes DEF TypeOK
  <2> QED
    BY <2>1, <2>2, <2>5 DEF Serving, Good
<1>9. ASSUME NEW r \in Requests, DatabaseFails(r) PROVE Serving'
  BY <1>9 DEF DatabaseFails, Crash, Serving, Good, TypeOK, Goto, Hold
<1>10. ASSUME NEW r \in Requests, Reply(r) PROVE Serving'
  BY <1>10 DEF Reply, Serving, Good, TypeOK, Goto, local
<1>14. ASSUME NEW r \in Requests, Close(r) PROVE Serving'
  BY <1>14 DEF Close, Serving, Good, TypeOK, Goto
<1>11. ASSUME NEW recorded \in SUBSET Requests, Exit(recorded) PROVE Serving'
  BY <1>11 DEF Exit, Serving, Good, TypeOK, Held
<1>12. ASSUME Tick PROVE Serving'
  <2>1. /\ now \in Nat /\ now' = now + 1 /\ UNCHANGED <<entries, pc, held, asked>>
        /\ \A s \in Requests : pc[s] \in {"hit", "recording"} => now - held[s].at < Slow
    BY <1>12 DEF Tick, local, TypeOK
  <2>2. \A s \in Requests : pc[s] \in {"hit", "recording"} => now' <= held[s].at + Slow
    BY <2>1, ValueTypes
  <2>3. \A n \in Nat : n <= now => n <= now'
    BY <2>1
  <2>4. /\ \A s \in Requests : held[s].at \in Nat /\ asked[s].at \in Nat /\ held[s].value.at \in Nat
        /\ \A k \in Keys : entries[k] # NoEntry =>
             entries[k].value.at \in Nat /\ entries[k].stored_at \in Nat
    BY ValueTypes DEF Values
  <2> QED
    BY <2>1, <2>2, <2>3, <2>4 DEF Serving, Good
<1>13. CASE UNCHANGED vars
  BY <1>13 DEF vars, local, Serving, Good, TypeOK, Values
<1> QED
  BY <1>1, <1>2, <1>3, <1>4, <1>5, <1>6, <1>7, <1>8, <1>9, <1>10, <1>11, <1>12, <1>13, <1>14 DEF Next, Step

\* The outcome a request will record goes on agreeing with its exception.
LEMMA TellingStep == IInv /\ [Next]_vars => Telling'
<1> SUFFICES ASSUME TypeOK, Telling, [Next]_vars
             PROVE  Telling'
  BY DEF IInv
<1>0. ASSUME NEW r \in Requests, Step(r), Tells(r)' PROVE Telling'
  BY <1>0, Locality DEF Telling, Tells, Left
<1>1. ASSUME NEW r \in Requests, BadInput(r) \/ TurnAway(r) PROVE Tells(r)'
  BY <1>1, RefusedEffect, StatusIsReply DEF Tells, Left
<1>2. ASSUME NEW r \in Requests, NEW k \in Keys, NEW refresh \in BOOLEAN,
              Call(r, k, refresh) PROVE Tells(r)'
  BY <1>2, CallEffect DEF Telling, Tells, Left
<1>3. ASSUME NEW r \in Requests, Begin(r) PROVE Tells(r)'
  BY <1>3 DEF Begin, Telling, Tells, Left, TypeOK, Goto, local
<1>4. ASSUME NEW r \in Requests, GetPayload(r) \/ LookupFails(r) PROVE Tells(r)'
  <2>1. PICK value \in Values, wait \in Nat, error \in Failures \cup {"none"} :
          Conclude(r, value, error, wait)
    <3>1. CASE LookupFails(r)
      BY <3>1, LookupFailsEffect, ConstantTypes DEF Failures, Exceptions
    <3>2. CASE GetPayload(r)
      <4>1. PICK says \in Outcome : GotPayload(r, says, RaiseForOutcome(says))
        BY <3>2 DEF GetPayload, PayloadOutcomes
      <4>2. Value(asked[r].key, says, now) \in Values
        BY ValueTypes DEF Value, Values, TypeOK
      <4> QED
        BY <4>1, <4>2, ConstantTypes, RaisedTypes DEF GotPayload
    <3> QED
      BY <1>4, <3>1, <3>2
  <2>2. pc[r] = "looking" /\ rows' = rows /\ reply' = reply
    BY <1>4, <2>1 DEF GetPayload, LookupFails, Conclude
  <2>3. /\ pc'[r] = "recording" /\ held'[r].error = error
        /\ held'[r].outcome = IF error = "none" THEN "ok" ELSE OutcomeOf(error)
    BY <2>1, ConcludeEffect
  <2> QED
    BY <2>2, <2>3 DEF Telling, Tells, Left, Failures, Exceptions
<1>5. ASSUME NEW r \in Requests, RecordHit(r) PROVE Tells(r)'
  <2>1. pc'[r] = "headers" /\ reply'[r].status = 200
    BY <1>5, HitEffect
  <2> QED
    BY <2>1 DEF Tells, Left
<1>6. ASSUME NEW r \in Requests, Record(r) PROVE Tells(r)'
  <2>1. \/ pc'[r] = "headers" /\ reply'[r].status = 200
        \/ pc'[r] = "headers" /\ reply'[r].status = StatusOf(held[r].error)
        \/ pc'[r] = "over"
    BY <1>6, RecordReplies
  <2> QED
    BY <2>1, StatusIsReply DEF Tells, Left
<1>7. ASSUME NEW r \in Requests, DatabaseFails(r) PROVE Tells(r)'
  <2>1. pc'[r] = "over"
    BY <1>7 DEF DatabaseFails, Crash, Goto, TypeOK
  <2> QED
    BY <2>1 DEF Tells, Left
<1>8. ASSUME NEW r \in Requests, Reply(r) PROVE Tells(r)'
  BY <1>8 DEF Reply, Tells, Left, TypeOK, Goto
<1>9. ASSUME NEW r \in Requests, Close(r) PROVE Tells(r)'
  BY <1>9 DEF Close, Tells, Left, TypeOK, Goto
<1>10. ASSUME NEW recorded \in SUBSET Requests, Exit(recorded) PROVE Telling'
  BY <1>10 DEF Exit, Telling, Tells, Left, Held
<1>11. CASE Tick
  BY <1>11 DEF Tick, Telling, Tells, Left, local
<1>12. CASE UNCHANGED vars
  BY <1>12 DEF vars, local, Telling, Tells, Left
<1>13. ASSUME NEW r \in Requests, Step(r) PROVE Tells(r)'
  BY <1>1, <1>2, <1>3, <1>4, <1>5, <1>6, <1>7, <1>8, <1>9, <1>13 DEF Step
<1> QED
  BY <1>0, <1>10, <1>11, <1>12, <1>13 DEF Next

\* A wait that was true goes on being true, but for the time that passes.
LEMMA WaitingStep == IInv /\ [Next]_vars => Waiting'
<1> SUFFICES ASSUME TypeOK, Serving, Telling, Waiting, Missed, OnlyCasesServed,
                    LogAgreesWithReply, [Next]_vars
             PROVE  Waiting'
  BY DEF IInv
<1> USE TimesAssumption
<1>1. ASSUME NEW r \in Requests, BadInput(r) PROVE Waiting'
  BY <1>1 DEF BadInput, Arrive, Refuse, Answer, Waiting, Serving, TypeOK, Goto, Hold
<1>2. ASSUME NEW r \in Requests, NEW k \in Keys, NEW refresh \in BOOLEAN,
              Call(r, k, refresh) PROVE Waiting'
  BY <1>2 DEF Call, Arrive, AfterGet, Get, IsStale, Waiting, Serving, TypeOK, Goto, Hold,
     Held
<1>3. ASSUME NEW r \in Requests, TurnAway(r) PROVE Waiting'
  BY <1>3 DEF TurnAway, Refuse, Answer, Waiting, Serving, TypeOK, Goto, Hold
<1>4. ASSUME NEW r \in Requests, Begin(r) PROVE Waiting'
  BY <1>4 DEF Begin, Waiting, Serving, TypeOK, Goto, local
<1>5. ASSUME NEW r \in Requests, GetPayload(r) PROVE Waiting'
  BY <1>5, RaisedTypes DEF GetPayload, GotPayload, Conclude, PayloadOutcomes, Waiting,
     Serving, TypeOK, Goto, Hold, Held, Value
<1>6. ASSUME NEW r \in Requests, LookupFails(r) PROVE Waiting'
  <2>1. PICK error \in Failures, wait \in Nat :
          /\ Conclude(r, NoValue, error, wait)
          /\ error = "BrowserUnavailableError" => wait = coolLeft'
    BY <1>6, LookupFailsEffect DEF Failures, Exceptions
  <2>2. now' = now /\ coolLeft' \in Nat /\ coolLeft' >= coolLeft
    BY <1>6, LookupFailsEffect
  <2>3. /\ held'[r].error = error /\ held'[r].wait = wait /\ held'[r].at = now
        /\ \A s \in Requests : s # r => pc'[s] = pc[s] /\ held'[s] = held[s]
    BY <2>1, ConcludeEffect, ConstantTypes DEF Failures, Exceptions
  <2>4. /\ now \in Nat /\ coolLeft \in Nat
        /\ \A s \in Requests : held[s].wait \in Nat /\ held[s].at \in Nat
    BY ValueTypes DEF TypeOK
  <2>5. \A s \in Requests : s # r /\ held[s].wait <= coolLeft + (now - held[s].at) =>
                                held[s].wait <= coolLeft' + (now - held[s].at)
    BY <2>2, <2>4
  <2> QED
    BY <2>1, <2>2, <2>3, <2>4, <2>5 DEF Waiting
<1>7. ASSUME NEW r \in Requests, RecordHit(r) PROVE Waiting'
  BY <1>7 DEF RecordHit, Insert, Row, Answer, Waiting, Serving, TypeOK, Goto, Hold
<1>8. ASSUME NEW r \in Requests, Record(r) PROVE Waiting'
  <2>1. /\ UNCHANGED <<now, coolLeft>> /\ pc'[r] \in {"headers", "over"}
        /\ \A s \in Requests : s # r => pc'[s] = pc[s] /\ held'[s] = held[s]
    BY <1>8, RecordEffect, RecordReplies
  <2> QED
    BY <2>1 DEF Waiting
<1>9. ASSUME NEW r \in Requests, DatabaseFails(r) PROVE Waiting'
  BY <1>9 DEF DatabaseFails, Crash, Waiting, Serving, TypeOK, Goto, Hold
<1>10. ASSUME NEW r \in Requests, Reply(r) PROVE Waiting'
  BY <1>10 DEF Reply, Waiting, Serving, TypeOK, Goto, local
<1>14. ASSUME NEW r \in Requests, Close(r) PROVE Waiting'
  BY <1>14 DEF Close, Waiting, Serving, TypeOK, Goto
<1>11. ASSUME NEW recorded \in SUBSET Requests, Exit(recorded) PROVE Waiting'
  BY <1>11 DEF Exit, Waiting, Serving, TypeOK, Held
<1>12. ASSUME Tick PROVE Waiting'
  <2>1. /\ now \in Nat /\ coolLeft \in Nat /\ now' = now + 1 /\ UNCHANGED <<pc, held>>
        /\ coolLeft' \in Nat /\ coolLeft' >= coolLeft - 1
        /\ \A s \in Requests : held[s].wait \in Nat /\ held[s].at \in Nat
    BY <1>12, ValueTypes DEF Tick, local, TypeOK
  <2>2. \A s \in Requests : held[s].wait <= coolLeft + (now - held[s].at) =>
                              held[s].wait <= coolLeft' + (now' - held[s].at)
    BY <2>1
  <2> QED
    BY <2>1, <2>2 DEF Waiting
<1>13. CASE UNCHANGED vars
  BY <1>13 DEF vars, local, Waiting, Serving, TypeOK
<1> QED
  BY <1>1, <1>2, <1>3, <1>4, <1>5, <1>6, <1>7, <1>8, <1>9, <1>10, <1>11, <1>12, <1>13, <1>14 DEF Next, Step

\* A request that missed finds only entries stored since.
LEMMA MissedStep == IInv /\ [Next]_vars => Missed'
<1> SUFFICES ASSUME TypeOK, Serving, Telling, Waiting, Missed, OnlyCasesServed,
                    LogAgreesWithReply, [Next]_vars
             PROVE  Missed'
  BY DEF IInv
<1> USE TimesAssumption
<1>1. ASSUME NEW r \in Requests, BadInput(r) PROVE Missed'
  BY <1>1 DEF BadInput, Arrive, Refuse, Answer, Missed, Serving, TypeOK, Goto, Hold
<1>2. ASSUME NEW r \in Requests, NEW k \in Keys, NEW refresh \in BOOLEAN,
              Call(r, k, refresh) PROVE Missed'
  BY <1>2 DEF Call, Arrive, AfterGet, Get, IsStale, Missed, Serving, TypeOK, Goto, Hold,
     Held
<1>3. ASSUME NEW r \in Requests, TurnAway(r) PROVE Missed'
  BY <1>3 DEF TurnAway, Refuse, Answer, Missed, Serving, TypeOK, Goto, Hold
<1>4. ASSUME NEW r \in Requests, Begin(r) PROVE Missed'
  BY <1>4 DEF Begin, Missed, Serving, TypeOK, Goto, local
<1>5. ASSUME NEW r \in Requests, GetPayload(r) PROVE Missed'
  BY <1>5 DEF GetPayload, GotPayload, Conclude, PayloadOutcomes, Missed, Serving, TypeOK,
     Goto, Hold, Held, Value
<1>6. ASSUME NEW r \in Requests, LookupFails(r) PROVE Missed'
  BY <1>6 DEF LookupFails, Conclude, Missed, Serving, TypeOK, Goto, Hold, Held
<1>7. ASSUME NEW r \in Requests, RecordHit(r) PROVE Missed'
  BY <1>7 DEF RecordHit, Insert, Row, Answer, Missed, Serving, TypeOK, Goto, Hold
<1>8. ASSUME NEW r \in Requests, Record(r) PROVE Missed'
  <2>1. /\ now' = now /\ asked' = asked /\ pc'[r] \in {"headers", "over"}
        /\ \A s \in Requests : s # r => pc'[s] = pc[s]
    BY <1>8, RecordEffect, RecordReplies
  <2>2. \A k \in Keys : entries'[k] = entries[k] \/ entries'[k].stored_at = now
    <3>1. \/ entries' = entries
          \/ entries' = [entries EXCEPT ![asked[r].key] =
                           [value |-> held[r].value, stored_at |-> now]]
      BY <1>8, RecordEffect
    <3> QED
      BY <3>1 DEF TypeOK
  <2>3. \A s \in Requests : pc[s] = "quota" => asked[s].key \in Keys /\ asked[s].at <= now
    BY DEF Serving
  <2> QED
    BY <2>1, <2>2, <2>3 DEF Missed
<1>9. ASSUME NEW r \in Requests, DatabaseFails(r) PROVE Missed'
  BY <1>9 DEF DatabaseFails, Crash, Missed, Serving, TypeOK, Goto, Hold
<1>10. ASSUME NEW r \in Requests, Reply(r) PROVE Missed'
  BY <1>10 DEF Reply, Missed, Serving, TypeOK, Goto, local
<1>14. ASSUME NEW r \in Requests, Close(r) PROVE Missed'
  BY <1>14 DEF Close, Missed, Serving, TypeOK, Goto
<1>11. ASSUME NEW recorded \in SUBSET Requests, Exit(recorded) PROVE Missed'
  BY <1>11 DEF Exit, Missed, Serving, TypeOK, Held
<1>12. ASSUME Tick PROVE Missed'
  BY <1>12 DEF Tick, Missed, Serving, TypeOK, local
<1>13. CASE UNCHANGED vars
  BY <1>13 DEF vars, local, Missed, Serving, TypeOK, Values
<1> QED
  BY <1>1, <1>2, <1>3, <1>4, <1>5, <1>6, <1>7, <1>8, <1>9, <1>10, <1>11, <1>12, <1>13, <1>14 DEF Next, Step

\* Replies go on being cases of who asked.
LEMMA ServedStep == IInv /\ [Next]_vars => OnlyCasesServed'
<1> SUFFICES ASSUME TypeOK, Serving, Telling, Waiting, Missed, OnlyCasesServed,
                    LogAgreesWithReply, [Next]_vars
             PROVE  OnlyCasesServed'
  BY DEF IInv
<1> USE TimesAssumption
<1>1. ASSUME NEW r \in Requests, BadInput(r) PROVE OnlyCasesServed'
  <2>1. /\ Answer(r, "ClientException", 0, FALSE, NoValue) /\ entries' = entries
        /\ \A s \in Requests : s # r => asked'[s] = asked[s]
    BY <1>1 DEF BadInput, Refuse, Arrive, TypeOK
  <2> QED
    BY <2>1, RefusalIsLogged DEF Answer, Goto, Hold, OnlyCasesServed, TypeOK
<1>2. ASSUME NEW r \in Requests, NEW k \in Keys, NEW refresh \in BOOLEAN,
              Call(r, k, refresh) PROVE OnlyCasesServed'
  BY <1>2 DEF Call, Arrive, AfterGet, Get, IsStale, OnlyCasesServed, Serving, Good,
     Telling, TypeOK, Goto, Hold, Held
<1>3. ASSUME NEW r \in Requests, TurnAway(r) PROVE OnlyCasesServed'
  <2>1. PICK error \in {"QuotaExceededError", "BrowserUnavailableError", "QueueTimeoutError"},
             wait \in Nat : Refuse(r, error, wait)
    BY <1>3, TurnAwayEffect
  <2>2. entries' = entries /\ asked' = asked
    BY <1>3, TurnAwayEffect
  <2> QED
    BY <2>1, <2>2, RefusalIsLogged DEF Answer, Goto, Hold, Refuse, Failures, Exceptions, OnlyCasesServed, TypeOK
<1>4. ASSUME NEW r \in Requests, Begin(r) PROVE OnlyCasesServed'
  BY <1>4 DEF Begin, OnlyCasesServed, Serving, Good, Telling, TypeOK, Goto, local
<1>5. ASSUME NEW r \in Requests, GetPayload(r) PROVE OnlyCasesServed'
  BY <1>5 DEF GetPayload, GotPayload, Conclude, PayloadOutcomes, OnlyCasesServed,
     Serving, Good, Telling, TypeOK, Goto, Hold, Held, Value
<1>6. ASSUME NEW r \in Requests, LookupFails(r) PROVE OnlyCasesServed'
  <2>1. PICK error \in Failures, wait \in Nat : Conclude(r, NoValue, error, wait)
    BY <1>6, LookupFailsEffect DEF Failures, Exceptions
  <2>2. UNCHANGED <<entries, asked, reply>>
    BY <1>6, LookupFailsEffect
  <2> QED
    BY <2>1, <2>2, ConcludeEffect, ConstantTypes DEF OnlyCasesServed
<1>7. ASSUME NEW r \in Requests, RecordHit(r) PROVE OnlyCasesServed'
  BY <1>7 DEF RecordHit, Insert, Row, Answer, OnlyCasesServed, Serving, Good, Telling,
     TypeOK, Goto, Hold
<1>8. ASSUME NEW r \in Requests, Record(r) PROVE OnlyCasesServed'
  <2>1. \A k \in Keys : entries'[k] # NoEntry =>
          entries'[k].value.key = k /\ entries'[k].value.says = "OK"
    BY ServingStep DEF IInv, Serving, Good
  <2>2. pc[r] = "recording" /\ asked' = asked
    BY <1>8, RecordEffect
  <2>3. \A s \in Requests : s # r => pc'[s] = pc[s] /\ reply'[s] = reply[s]
    BY <1>8, RecordReplies
  <2>4. ASSUME Left(r)', reply'[r].status = 200
        PROVE  held[r].error = "none" /\ reply'[r].value = held[r].value
    <3>1. held[r].error \in Failures => StatusOf(held[r].error) # 200
      BY DEF StatusOf, Failures, Exceptions
    <3>2. held[r].error = "CancelledError" => reply[r].status = 0
      BY <2>2 DEF Telling, Tells, Left, NoReply
    <3>3. \/ held[r].error = "none" /\ reply'[r].value = held[r].value
          \/ held[r].error \in Failures /\ reply'[r].status = StatusOf(held[r].error)
          \/ reply'[r].status = 500
          \/ held[r].error = "CancelledError" /\ reply'[r] = reply[r]
      BY <1>8, RecordReplies
    <3> QED
      BY <2>4, <3>1, <3>2, <3>3
  <2>5. held[r].error = "none" =>
          /\ held[r].value.key = asked[r].key /\ held[r].value.says = "OK"
          /\ held[r].value.at >= asked[r].at
    <3>1. held[r].value.at \in Nat /\ held[r].at \in Nat /\ asked[r].at \in Nat
      BY ValueTypes DEF Values
    <3> QED
      BY <2>2, <3>1 DEF Serving, Good
  <2> QED
    BY <2>1, <2>2, <2>3, <2>4, <2>5 DEF OnlyCasesServed, Left
<1>9. ASSUME NEW r \in Requests, DatabaseFails(r) PROVE OnlyCasesServed'
  <2>1. /\ Crash(r, reply[r].fetched, reply[r].cached) /\ UNCHANGED <<entries, asked>>
    BY <1>9 DEF DatabaseFails
  <2>2. /\ reply'[r].status # 200
        /\ \A s \in Requests : s # r => pc'[s] = pc[s] /\ reply'[s] = reply[s]
    BY <2>1, CrashEffect, ValueTypes
  <2> QED
    BY <2>1, <2>2 DEF OnlyCasesServed
<1>10. ASSUME NEW r \in Requests, Reply(r) PROVE OnlyCasesServed'
  BY <1>10 DEF Reply, OnlyCasesServed, TypeOK, Goto, local
<1>14. ASSUME NEW r \in Requests, Close(r) PROVE OnlyCasesServed'
  BY <1>14 DEF Close, OnlyCasesServed, TypeOK, Goto
<1>11. ASSUME NEW recorded \in SUBSET Requests, Exit(recorded) PROVE OnlyCasesServed'
  BY <1>11 DEF Exit, OnlyCasesServed, Serving, Good, Telling, TypeOK, Held
<1>12. ASSUME Tick PROVE OnlyCasesServed'
  BY <1>12 DEF Tick, OnlyCasesServed, Serving, Good, Telling, TypeOK, local
<1>13. CASE UNCHANGED vars
  BY <1>13 DEF vars, local, OnlyCasesServed, Serving, Good, Telling, TypeOK, Values
<1> QED
  BY <1>1, <1>2, <1>3, <1>4, <1>5, <1>6, <1>7, <1>8, <1>9, <1>10, <1>11, <1>12, <1>13, <1>14 DEF Next, Step

\* Replies and rows go on agreeing.
LEMMA LoggedStep == IInv /\ [Next]_vars => LogAgreesWithReply'
<1> SUFFICES ASSUME TypeOK, Telling, LogAgreesWithReply, [Next]_vars
             PROVE  LogAgreesWithReply'
  BY DEF IInv
<1> DEFINE Agrees(r) ==
             /\ ~Left(r) => rows[r] = <<>>
             /\ Left(r) /\ reply[r].status # 0 =>
                  /\ reply[r].status \in {reply[r].fetched, 500}
                  /\ rows[r] \in Logged(reply[r].fetched, reply[r].cached)
             /\ Left(r) /\ reply[r].status = 0 =>
                  rows[r] = <<[outcome |-> "ok", cached |-> FALSE]>>
<1> HIDE DEF Logged
<1>0. ASSUME NEW r \in Requests, Step(r), Agrees(r)' PROVE LogAgreesWithReply'
  BY <1>0, Locality DEF LogAgreesWithReply, Left
<1>1. ASSUME NEW r \in Requests, BadInput(r) \/ TurnAway(r) PROVE Agrees(r)'
  <2>1. rows'[r] = <<>> /\ pc'[r] = "headers"
    BY <1>1, RefusedEffect DEF Telling, Tells
  <2>2. PICK error \in {"ClientException", "QuotaExceededError", "QueueTimeoutError",
                        "BrowserUnavailableError"} :
          /\ reply'[r].status = StatusOf(error) /\ reply'[r].fetched = StatusOf(error)
          /\ reply'[r].cached = FALSE
    BY <1>1, RefusedEffect
  <2> QED
    BY <2>1, <2>2, RefusalIsLogged, StatusIsReply DEF Left
<1>2. ASSUME NEW r \in Requests, NEW k \in Keys, NEW refresh \in BOOLEAN,
              Call(r, k, refresh) PROVE Agrees(r)'
  BY <1>2, CallEffect DEF Telling, Tells, Left
<1>3. ASSUME NEW r \in Requests, Begin(r) PROVE Agrees(r)'
  BY <1>3 DEF Begin, Telling, Tells, Left, TypeOK, Goto, local
<1>4. ASSUME NEW r \in Requests, GetPayload(r) \/ LookupFails(r) PROVE Agrees(r)'
  <2>1. /\ pc[r] = "looking" /\ pc'[r] = "recording" /\ rows' = rows
    BY <1>4 DEF GetPayload, GotPayload, LookupFails, Conclude, Goto, TypeOK
  <2> QED
    BY <2>1 DEF Telling, Tells, Left
<1>5. ASSUME NEW r \in Requests, RecordHit(r) PROVE Agrees(r)'
  <2>1. rows'[r] = <<[outcome |-> "ok", cached |-> TRUE]>>
    <3>1. pc[r] = "hit"
      BY <1>5, HitEffect
    <3>2. rows[r] = <<>> /\ held[r].outcome = "ok"
      BY <3>1 DEF Telling, Tells, Left
    <3>3. rows'[r] = <<[outcome |-> held[r].outcome, cached |-> TRUE]>>
      BY <1>5, <3>2, HitEffect, ZenonT(60)
    <3> QED
      BY <3>2, <3>3
  <2>2. <<[outcome |-> "ok", cached |-> TRUE]>> \in Logged(200, TRUE)
    BY DEF Logged
  <2>3. reply'[r].cached = TRUE /\ reply'[r].fetched = 200
    BY <1>5, HitEffect
  <2>4. rows'[r] \in Logged(reply'[r].fetched, reply'[r].cached)
    BY <2>1, <2>2, <2>3
  <2>5. pc'[r] = "headers" /\ reply'[r].status = 200
    BY <1>5, HitEffect
  <2> QED
    BY <2>3, <2>4, <2>5 DEF Left
<1>6. ASSUME NEW r \in Requests, Record(r) PROVE Agrees(r)'
  <2>1. pc[r] = "recording" /\ Insert(r, FALSE)
    BY <1>6, RecordEffect
  <2>2. rows[r] = <<>> /\ reply[r] = NoReply
    BY <2>1 DEF Telling, Tells, Left
  <2>3. rows'[r] = <<[outcome |-> held[r].outcome, cached |-> FALSE]>>
    BY <2>1, <2>2, InsertEffect
  <2>4. CASE /\ held[r].error = "none" /\ pc'[r] = "headers" /\ reply'[r].status = 200
             /\ reply'[r].fetched = 200
    <3>1. held[r].outcome = "ok"
      BY <2>1, <2>4 DEF Telling, Tells, Failures, Exceptions
    <3>2. <<[outcome |-> "ok", cached |-> FALSE]>> \in Logged(200, FALSE)
      BY DEF Logged
    <3>3. reply'[r].cached = FALSE
      BY <1>6, <2>4, RecordUncached
    <3>4. rows'[r] \in Logged(reply'[r].fetched, reply'[r].cached)
      BY <2>3, <2>4, <3>1, <3>2, <3>3
    <3> QED
      BY <2>4, <3>4 DEF Left
  <2>5. CASE /\ held[r].error \in Failures /\ pc'[r] \in {"headers", "over"}
             /\ reply'[r].status = StatusOf(held[r].error)
             /\ reply'[r].fetched = StatusOf(held[r].error)
    <3>1. held[r].outcome = OutcomeOf(held[r].error)
      BY <2>1, <2>5 DEF Telling, Tells, Failures, Exceptions
    <3>2. <<[outcome |-> OutcomeOf(held[r].error), cached |-> FALSE]>>
            \in Logged(StatusOf(held[r].error), FALSE)
      BY <2>5, FailureIsLogged
    <3>3. reply'[r].cached = FALSE
      BY <1>6, <2>5, RecordUncached DEF Failures
    <3>4. rows'[r] \in Logged(reply'[r].fetched, reply'[r].cached)
      BY <2>3, <2>5, <3>1, <3>2, <3>3
    <3> QED
      BY <2>5, <3>4, StatusIsReply DEF Left
  <2>6. CASE held[r].error = "CancelledError" /\ pc'[r] = "over" /\ reply'[r] = reply[r]
    <3>1. held[r].outcome = "ok" /\ reply[r].status = 0
      BY <2>1, <2>2, <2>6 DEF Telling, Tells, Failures, Exceptions, NoReply
    <3> QED
      BY <2>3, <2>6, <3>1 DEF Left
  <2>7. StatusOf("PlaywrightError") = 500 /\ "PlaywrightError" \in Failures
    BY DEF StatusOf, Failures, Exceptions
  <2> QED
    BY <1>6, <2>4, <2>5, <2>6, <2>7, RecordReplies
<1>7. ASSUME NEW r \in Requests, DatabaseFails(r) PROVE Agrees(r)'
  <2>1. /\ Crash(r, reply[r].fetched, reply[r].cached) /\ rows' = rows
        /\ pc[r] \in {"hit", "quota", "recording", "headers"}
    BY <1>7 DEF DatabaseFails
  <2>2. /\ pc'[r] = "over" /\ reply'[r].status = 500
        /\ reply'[r].fetched = reply[r].fetched /\ reply'[r].cached = reply[r].cached
    BY <2>1 DEF Crash, Goto, TypeOK
  <2>3. CASE ~Left(r)
    <3>1. rows[r] = <<>> /\ reply[r].fetched = 0
      BY <2>3 DEF Telling, Tells, NoReply
    <3>2. <<>> \in Logged(0, reply[r].cached)
      BY DEF Logged
    <3> QED
      BY <2>1, <2>2, <3>1, <3>2 DEF Left
  <2>4. CASE Left(r)
    <3>1. reply[r].status # 0
      BY <2>1, <2>4 DEF Telling, Tells, Left
    <3>2. rows[r] \in Logged(reply[r].fetched, reply[r].cached)
      BY <2>4, <3>1 DEF LogAgreesWithReply
    <3>3. rows'[r] \in Logged(reply'[r].fetched, reply'[r].cached)
      BY <2>1, <2>2, <3>2
    <3> QED
      BY <2>2, <3>3 DEF Left
  <2> QED
    BY <2>3, <2>4
<1>8. ASSUME NEW r \in Requests, Reply(r) PROVE Agrees(r)'
  BY <1>8 DEF Reply, LogAgreesWithReply, Left, TypeOK, Goto, local
<1>9. ASSUME NEW r \in Requests, Close(r) PROVE Agrees(r)'
  BY <1>9 DEF Close, Left, TypeOK, Goto
<1>10. ASSUME NEW recorded \in SUBSET Requests, Exit(recorded) PROVE LogAgreesWithReply'
  BY <1>10 DEF Exit, LogAgreesWithReply, Left
<1>11. CASE Tick
  BY <1>11 DEF Tick, LogAgreesWithReply, Left, local
<1>12. CASE UNCHANGED vars
  BY <1>12 DEF vars, local, LogAgreesWithReply, Left
<1>13. ASSUME NEW r \in Requests, Step(r) PROVE Agrees(r)'
  <2> HIDE DEF Agrees
  <2> QED
    BY <1>1, <1>2, <1>3, <1>4, <1>5, <1>6, <1>7, <1>8, <1>9, <1>13 DEF Step
<1> QED
  BY <1>0, <1>10, <1>11, <1>12, <1>13 DEF Next

-----------------------------------------------------------------------------
(* Theorems. *)

\* The invariant holds at the start,
LEMMA InitInvariant == Init => IInv
<1> SUFFICES ASSUME Init PROVE IInv
  OBVIOUS
<1>1. TypeOK
  BY TimesAssumption, ConstantTypes DEF Init, TypeOK, EntryType, Labels
<1> QED
  BY <1>1 DEF Init, IInv, Serving, Telling, Tells, Left, Waiting, Missed, OnlyCasesServed, LogAgreesWithReply

\* and every step keeps it.
LEMMA NextInvariant == IInv /\ [Next]_vars => IInv'
BY TypeStep, ServingStep, TellingStep, WaitingStep, MissedStep, ServedStep, LoggedStep DEF IInv

\* So it always holds.
THEOREM Invariant == Spec => []IInv
BY InitInvariant, NextInvariant, PTL DEF Spec

\* Every variable keeps its type, the row a request leaves and its status too.
THEOREM TypesHold == Spec => []TypeOK
<1>1. IInv => TypeOK
  BY DEF IInv
<1> QED
  BY <1>1, Invariant, PTL

\* Only cases are cached and answered, each to who asked for it, and to a request
\* with the refresh flag one that was looked up after it came.
THEOREM CasesServed == Spec => []OnlyCasesServed
<1>1. IInv => OnlyCasesServed
  BY DEF IInv
<1> QED
  BY <1>1, Invariant, PTL

\* However a request ends, what the usage log has of it is what its end says.
THEOREM LogAgrees == Spec => []LogAgreesWithReply
<1>1. IInv => LogAgreesWithReply
  BY DEF IInv
<1> QED
  BY <1>1, Invariant, PTL

-----------------------------------------------------------------------------
(* What a step may do. *)

\* Only a call finds a hit, only a guard lets a lookup begin, and only these
\* three answer.
LEMMA WhoMoves ==
    ASSUME TypeOK, Next, NEW r \in Requests
    PROVE  /\ pc[r] = "idle" /\ pc'[r] = "hit" =>
                \E k \in Keys, refresh \in BOOLEAN : Call(r, k, refresh)
           /\ pc[r] = "quota" /\ pc'[r] = "looking" => Begin(r)
           /\ pc[r] # "headers" /\ pc'[r] = "headers" =>
                BadInput(r) \/ TurnAway(r) \/ RecordHit(r) \/ Record(r)
<1>1. CASE Tick \/ \E recorded \in SUBSET Requests : Exit(recorded)
  BY <1>1 DEF Tick, Exit, TypeOK
<1>2. ASSUME NEW s \in Requests, Step(s), s # r PROVE pc'[r] = pc[r]
  BY <1>2 DEF Step, BadInput, Call, TurnAway, Begin, GetPayload, GotPayload, LookupFails,
     Conclude, RecordHit, Record, DatabaseFails, Reply, Close, Refuse, Answer, Crash, Goto, local,
     TypeOK
<1>3. CASE Step(r)
  BY <1>3 DEF Step, BadInput, Call, TurnAway, Begin, GetPayload, GotPayload, LookupFails,
     Conclude, RecordHit, Record, DatabaseFails, Reply, Close, Refuse, Answer, Crash, Goto, local,
     TypeOK
<1> QED
  BY <1>1, <1>2, <1>3 DEF Next

\* A hit was shown by the page less than the ttl ago, and the time of its record.
THEOREM HitsFresh == Spec => HitsAreFresh
<1> DEFINE Fresh == \A r \in Requests : pc[r] = "idle" /\ pc'[r] = "hit" =>
                      now - held'[r].value.at < Ttl + Slow
<1>1. IInv /\ [Next]_vars => [Fresh]_vars
  <2> SUFFICES ASSUME IInv, Next, NEW r \in Requests, pc[r] = "idle", pc'[r] = "hit"
               PROVE  now - held'[r].value.at < Ttl + Slow
    OBVIOUS
  <2>1. TypeOK /\ Serving
    BY DEF IInv
  <2>2. PICK k \in Keys, refresh \in BOOLEAN : Call(r, k, refresh)
    BY <2>1, WhoMoves
  <2>3. /\ entries[k] # NoEntry /\ ~IsStale(entries[k])
        /\ held'[r].value = entries[k].value
    BY <2>1, <2>2 DEF Call, Get, Goto, Hold, Held, TypeOK
  <2>4. now - entries[k].stored_at < Ttl
    BY <2>1, <2>3, TimesAssumption, ValueTypes DEF IsStale, TypeOK
  <2>5. entries[k].stored_at <= entries[k].value.at + Slow
    BY <2>1, <2>3 DEF Serving
  <2>6. entries[k].stored_at \in Nat /\ entries[k].value.at \in Nat /\ now \in Nat
    BY <2>1, <2>3, ValueTypes DEF Values, TypeOK
  <2> QED
    BY <2>3, <2>4, <2>5, <2>6, TimesAssumption
<1> QED
  BY <1>1, Invariant, PTL DEF Spec, HitsAreFresh

\* The cache goes back by no more than a record takes, and never lives longer for it.
THEOREM CacheForward == Spec => CacheRunsForward
<1> DEFINE Forward == \A k \in Keys : entries[k] # NoEntry /\ entries'[k] # NoEntry =>
                        /\ entries'[k].value.at >= entries[k].value.at - Slow
                        /\ entries'[k].stored_at >= entries[k].stored_at
<1>1. IInv /\ [Next]_vars => [Forward]_vars
  <2> SUFFICES ASSUME IInv, Next, NEW k \in Keys, entries[k] # NoEntry, entries'[k] # NoEntry
               PROVE  /\ entries'[k].value.at >= entries[k].value.at - Slow
                      /\ entries'[k].stored_at >= entries[k].stored_at
    OBVIOUS
  <2>1. TypeOK /\ Serving
    BY DEF IInv
  <2>2. /\ entries[k].stored_at \in Nat /\ entries[k].value.at \in Nat /\ now \in Nat
        /\ entries[k].stored_at <= now /\ entries[k].value.at <= now
    BY <2>1, ValueTypes DEF Values, Serving, Good, TypeOK
  <2>3. \/ entries'[k] = entries[k]
        \/ \E r \in Requests : Record(r)
    <3>1. ASSUME NEW r \in Requests, NEW c \in Keys, NEW refresh \in BOOLEAN, Call(r, c, refresh)
          PROVE  entries'[k] = entries[k]
      BY <2>1, <3>1 DEF Call, AfterGet, Get, TypeOK
    <3>2. ASSUME NEW r \in Requests,
                 BadInput(r) \/ TurnAway(r) \/ Begin(r) \/ GetPayload(r) \/ LookupFails(r)
                   \/ RecordHit(r) \/ DatabaseFails(r) \/ Reply(r) \/ Close(r)
          PROVE  entries'[k] = entries[k]
      BY <3>2 DEF BadInput, TurnAway, Begin, GetPayload, GotPayload, LookupFails, Conclude,
         RecordHit, DatabaseFails, Reply, Close
    <3>3. ASSUME NEW recorded, Tick \/ Exit(recorded)
          PROVE  entries'[k] = entries[k]
      BY <3>3 DEF Tick, Exit
    <3> QED
      BY <3>1, <3>2, <3>3 DEF Next, Step
  <2>4. ASSUME NEW r \in Requests, Record(r), entries'[k] # entries[k]
        PROVE  /\ entries'[k].stored_at = now /\ entries'[k].value.at \in Nat
               /\ now <= entries'[k].value.at + Slow
    <3>1. /\ held[r].error = "none" /\ pc[r] = "recording"
          /\ entries'[k] = [value |-> held[r].value, stored_at |-> now]
      BY <2>1, <2>4, RecordEffect DEF TypeOK
    <3>2. held[r].value.at = held[r].at /\ now <= held[r].at + Slow /\ held[r].at \in Nat
      BY <2>1, <3>1, ValueTypes DEF Serving
    <3> QED
      BY <3>1, <3>2
  <2>5. CASE entries'[k] = entries[k]
    BY <2>2, <2>5, TimesAssumption
  <2>6. CASE entries'[k] # entries[k]
    BY <2>2, <2>3, <2>4, <2>6, TimesAssumption
  <2> QED
    BY <2>5, <2>6
<1> QED
  BY <1>1, Invariant, PTL DEF Spec, CacheRunsForward

\* A lookup beside a fresh entry is of a call that came before the entry.
THEOREM DuplicatesRace == Spec => DuplicateOnlyInRace
<1> DEFINE Raced == \A r \in Requests :
                      pc[r] = "quota" /\ pc'[r] = "looking" /\ ~asked[r].refresh =>
                        LET entry == entries[asked[r].key] IN
                        entry # NoEntry /\ ~IsStale(entry) => entry.stored_at >= asked[r].at
<1>1. IInv /\ [Next]_vars => [Raced]_vars
  BY DEF IInv, Missed
<1> QED
  BY <1>1, Invariant, PTL DEF Spec, DuplicateOnlyInRace

\* The Retry-After of a 503 is not below a second and not late by more than its
\* rounding and a record.
THEOREM RetryAfterHolds == Spec => RetryAfterNotOverstated
<1> DEFINE InTime == \A r \in Requests :
                       pc[r] # "headers" /\ pc'[r] = "headers" /\ reply'[r].status = 503 =>
                         /\ reply'[r].retry_after >= 1
                         /\ \/ reply'[r].retry_after = 1
                            \/ 2 * reply'[r].retry_after <= coolLeft + Slow + 1
<1>1. IInv /\ [Next]_vars => [InTime]_vars
  <2> SUFFICES ASSUME IInv, Next, NEW r \in Requests, pc[r] # "headers", pc'[r] = "headers",
                      reply'[r].status = 503
               PROVE  /\ reply'[r].retry_after >= 1
                      /\ \/ reply'[r].retry_after = 1
                         \/ 2 * reply'[r].retry_after <= coolLeft + Slow + 1
    OBVIOUS
  <2>1. TypeOK /\ Serving /\ Waiting /\ Telling
    BY DEF IInv
  <2>2. coolLeft \in Nat /\ Slow \in Nat
    BY <2>1, TimesAssumption DEF TypeOK
  <2>3. PICK error \in Failures \cup {"none", "ClientException", "QuotaExceededError",
                                      "QueueTimeoutError"}, wait \in Nat :
          /\ reply'[r].status = StatusOf(error)
          /\ reply'[r].retry_after = RetryOf(error, wait)
          /\ error = "BrowserUnavailableError" => wait <= coolLeft + Slow
    <3>1. CASE BadInput(r) \/ RecordHit(r)
      <4>1. \/ Answer(r, "ClientException", 0, FALSE, NoValue)
            \/ Answer(r, "none", 0, TRUE, held[r].value)
        BY <3>1 DEF BadInput, RecordHit, Refuse
      <4>2. reply'[r].status \in {StatusOf("ClientException"), StatusOf("none")}
        BY <2>1, <4>1 DEF Answer, TypeOK
      <4> QED
        BY <4>2 DEF StatusOf
    <3>2. CASE TurnAway(r)
      <4>1. PICK error \in {"QuotaExceededError", "BrowserUnavailableError",
                            "QueueTimeoutError"}, wait \in Nat :
              /\ Refuse(r, error, wait)
              /\ error = "BrowserUnavailableError" => wait = coolLeft
        BY <2>1, <3>2, TurnAwayEffect
      <4>2. /\ reply'[r].status = StatusOf(error)
            /\ reply'[r].retry_after = RetryOf(error, wait)
        BY <2>1, <4>1 DEF Refuse, Answer, TypeOK
      <4> QED
        BY <2>2, <4>1, <4>2 DEF Failures, Exceptions
    <3>3. CASE Record(r)
      <4>1. pc[r] = "recording"
        BY <3>3 DEF Record
      <4>2. /\ held[r].error \in Failures
            /\ reply'[r].status = StatusOf(held[r].error)
            /\ reply'[r].retry_after = RetryOf(held[r].error, held[r].wait)
        BY <2>1, <3>3, <4>1, RecordReplies
      <4>3. held[r].wait \in Nat /\ held[r].at \in Nat /\ now \in Nat
        BY <2>1, ValueTypes DEF TypeOK
      <4>4. now <= held[r].at + Slow
        BY <2>1, <4>1 DEF Serving
      <4>5. held[r].error = "BrowserUnavailableError" =>
              held[r].wait <= coolLeft + (now - held[r].at)
        BY <2>1, <4>1 DEF Waiting
      <4>6. held[r].error = "BrowserUnavailableError" => held[r].wait <= coolLeft + Slow
        BY <2>2, <4>3, <4>4, <4>5
      <4> QED
        BY <4>2, <4>3, <4>6
    <3> QED
      BY <2>1, <3>1, <3>2, <3>3, WhoMoves
  <2>4. error \in {"CaptchaError", "BrowserUnavailableError", "BrowserLostError"}
    BY <2>3 DEF StatusOf, Failures, Exceptions
  <2>5. CASE error = "BrowserLostError"
    BY <2>3, <2>5 DEF RetryOf
  <2>6. CASE error = "CaptchaError"
    <3>1. reply'[r].retry_after = RetryAfterHeader(coolLeft)
      BY <2>3, <2>6 DEF RetryOf
    <3> QED
      BY <2>2, <3>1, RoundBounds
  <2>7. CASE error = "BrowserUnavailableError"
    <3>1. reply'[r].retry_after = RetryAfterHeader(wait)
      BY <2>3, <2>7 DEF RetryOf
    <3> QED
      BY <2>2, <2>3, <2>7, <3>1, RoundBounds
  <2> QED
    BY <2>4, <2>5, <2>6, <2>7
<1> QED
  BY <1>1, Invariant, PTL DEF Spec, RetryAfterNotOverstated
=============================================================================
