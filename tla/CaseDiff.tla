------------------------------ MODULE CaseDiff ------------------------------
(***************************************************************************)
(* What a client of acis-core is told of a case: diff (diff.py) between the *)
(* case it saw last and the case of the payload it has now (AcisCase).      *)
(*                                                                          *)
(* The client is not in the repository: it polls a case, diffs and keeps    *)
(* what it saw, which is what diff's prior and current stand for.  Between  *)
(* two polls ACIS enters fields of the payload in any order, rewrites them  *)
(* in another spelling, or amends what was there.                           *)
(***************************************************************************)
EXTENDS AcisCase, FiniteSets

CONSTANTS
    Blank,       \* the payload before anything was entered
    Scopes,      \* sets of [section, field, texts]: what ACIS may enter where
    Amendments   \* bound: how often a field is amended

ASSUME AmendmentsAssumption == Amendments \in Nat

\* The date of a hearing is a number and its time is, as far as they can be read.
Timely(section, field, raw) ==
    section = "Schedule" /\ field \in {"AdjDate", "AdjTime"} => Reads(raw) \in Int \cup {None}

ASSUME BlankAssumption ==
    /\ DOMAIN Blank = DOMAIN Fields
    /\ \A section \in DOMAIN Fields :
         /\ DOMAIN Blank[section] = Fields[section]
         /\ \A field \in Fields[section] : Timely(section, field, Blank[section][field])

ASSUME ScopesAssumption ==
    \A entries \in Scopes : \A entry \in entries : \A text \in entry.texts :
        text # <<>> /\ Timely(entry.section, entry.field, text)

VARIABLES
    page,      \* the payload ACIS has
    scope,     \* the fields that change in this behaviour
    seen,      \* the case of the last poll, None before
    first,     \* history: the case of the first poll
    reported,  \* history: how many changes of each kind the client was told of
    amended    \* history: how many fields were amended

vars == <<page, scope, seen, first, reported, amended>>

-----------------------------------------------------------------------------
(* diff.py *)

ChangeKind == {"MOVED_EARLIER", "MOVED_LATER", "NEW_HEARING", "HEARING_REMOVED",
               "DETAILS_CHANGED", "CASE_DECIDED", "BIA_DECIDED", "MOTION_DECIDED",
               "APPEAL_FILED", "MOTION_FILED"}

Change(kind) == [kind |-> kind, details |-> <<>>, motion |-> None]
HearingChange(kind, details) == [Change(kind) EXCEPT !.details = details]
MotionChange(kind, motion) == [Change(kind) EXCEPT !.motion = motion]

When(condition, change) == IF condition THEN <<change>> ELSE <<>>

is_replaced(old, new) == old # None /\ new # None /\ old # new

\* Mutant: a detail that is no longer known counts as changed.
detail_changesLost(prior, current) ==
    [name \in {n \in {"judge", "location", "type", "medium"} :
                 prior[n] # None /\ prior[n] # current[n]} |-> <<prior[name], current[name]>>]
detail_changes(prior, current) ==
    [name \in {n \in {"judge", "location", "type", "medium"} : is_replaced(prior[n], current[n])} |->
        <<prior[name], current[name]>>]

\* Two hearings: the date decides, then the time if both are known, then the details.
moved(prior, hearing) ==
    LET details == detail_changes(prior, hearing)
        kind(earlier) == IF earlier THEN "MOVED_EARLIER" ELSE "MOVED_LATER" IN
    IF hearing.date # prior.date
    THEN <<HearingChange(kind(hearing.date < prior.date), details)>>
    ELSE IF is_replaced(prior.time, hearing.time)
    THEN <<HearingChange(kind(hearing.time < prior.time), details)>>
    ELSE When(DOMAIN details # {}, HearingChange("DETAILS_CHANGED", details))

hearing_change(prior, current) ==
    IF prior.hearing # None /\ current.hearing # None
    THEN moved(prior.hearing, current.hearing)
    ELSE When(prior.hearing # None, Change("HEARING_REMOVED"))
         \o When(current.hearing # None, Change("NEW_HEARING"))

case_decided(prior, current) ==
    /\ current.decision # None
    /\ current.decision.date # (IF prior.decision = None THEN None ELSE prior.decision.date)

\* Mutant: as long as the BIA has decided, it decides.
bia_decidedAlways(prior, appeal) == appeal.bia_outcome # None
bia_decided(prior, appeal) ==
    /\ appeal.bia_outcome # None
    /\ prior.bia_outcome = None \/ is_replaced(prior.bia_decision_date, appeal.bia_decision_date)

appeal_filed(prior, appeal) ==
    /\ appeal.filed
    /\ ~prior.filed \/ is_replaced(prior.filed_date, appeal.filed_date)

is_new(prior, current) ==
    /\ current # None
    /\ prior = None \/ is_replaced(prior.filed, current.filed)

\* Mutant: a motion first seen decided is not a decision.
is_decidedFromPending(prior, current) ==
    /\ current # None /\ current.outcome # "pending"
    /\ prior # None
    /\ \/ prior.outcome = "pending"
       \/ is_new(prior, current)
       \/ is_replaced(prior.decided, current.decided)
is_decided(prior, current) ==
    /\ current # None /\ current.outcome # "pending"
    /\ \/ prior = None
       \/ prior.outcome = "pending"
       \/ is_new(prior, current)
       \/ is_replaced(prior.decided, current.decided)

filed(prior, current) == is_new(prior, current) /\ ~is_decided(prior, current)

motion_and_appeal_changes(prior, current) ==
    When(bia_decided(prior.appeal, current.appeal), Change("BIA_DECIDED"))
    \o When(is_decided(prior.motion_to_reopen, current.motion_to_reopen),
            MotionChange("MOTION_DECIDED", current.motion_to_reopen))
    \o When(is_decided(prior.motion_at_bia, current.motion_at_bia),
            MotionChange("MOTION_DECIDED", current.motion_at_bia))
    \o When(appeal_filed(prior.appeal, current.appeal)
               /\ ~bia_decided(prior.appeal, current.appeal), Change("APPEAL_FILED"))
    \o When(filed(prior.motion_to_reopen, current.motion_to_reopen),
            MotionChange("MOTION_FILED", current.motion_to_reopen))
    \o When(filed(prior.motion_at_bia, current.motion_at_bia),
            MotionChange("MOTION_FILED", current.motion_at_bia))

diff(prior, current) ==
    (IF case_decided(prior, current) THEN <<Change("CASE_DECIDED")>>
     ELSE hearing_change(prior, current))
    \o motion_and_appeal_changes(prior, current)

-----------------------------------------------------------------------------
(* The client and ACIS. *)

Times(changes, kind) == Cardinality({i \in DOMAIN changes : changes[i].kind = kind})

Init ==
    /\ page = Blank
    /\ scope \in Scopes
    /\ seen = None /\ first = None
    /\ reported = [kind \in ChangeKind |-> 0]
    /\ amended = 0

SetField(entry, raw) == page' = [page EXCEPT ![entry.section][entry.field] = raw]

\* A field is entered where none could be read, or again in another spelling.
Enter ==
    /\ \E entry \in scope :
         LET raw == page[entry.section][entry.field] IN
         \E text \in entry.texts :
            /\ text # raw
            /\ Reads(raw) = None \/ Reads(text) = Reads(raw)
            /\ SetField(entry, text)
    /\ UNCHANGED <<scope, seen, first, reported, amended>>

\* A field is changed to something else, or taken away.
Amend ==
    /\ amended < Amendments
    /\ \E entry \in scope :
         LET raw == page[entry.section][entry.field] IN
         /\ raw # <<>>
         /\ \E text \in entry.texts \cup {<<>>} :
              text # raw /\ SetField(entry, text)
    /\ amended' = amended + 1
    /\ UNCHANGED <<scope, seen, first, reported>>

\* The first poll has nothing to compare with.
FirstPoll ==
    /\ seen = None
    /\ seen' = from_payload(page)
    /\ first' = from_payload(page)
    /\ UNCHANGED <<page, scope, reported, amended>>

Poll ==
    /\ seen # None
    /\ seen' = from_payload(page)
    /\ reported' = [kind \in ChangeKind |->
                       reported[kind] + Times(diff(seen, from_payload(page)), kind)]
    /\ UNCHANGED <<page, scope, first, amended>>

Next == Enter \/ Amend \/ FirstPoll \/ Poll

Spec == Init /\ [][Next]_vars

-----------------------------------------------------------------------------
(* Properties. *)

Told(kinds) == \E kind \in kinds : reported[kind] > 0
HearingKinds == {"MOVED_EARLIER", "MOVED_LATER", "NEW_HEARING", "HEARING_REMOVED"}

Slots(case) == <<case.motion_to_reopen, case.motion_at_bia>>
Decided(motion) == motion # None /\ motion.outcome # "pending"

TypeOK ==
    /\ amended \in 0..Amendments
    /\ reported \in [ChangeKind -> Nat]
    /\ first = None => seen = None
    /\ seen # None => \A i \in 1..2 :
         LET motion == Slots(seen)[i] IN
         motion # None => (motion.outcome = "pending") = (motion.decided = None)

\* Whatever is entered, amended or taken away between the polls, and however much
\* of it one poll finds at once, what the client sees now and did not see at first
\* it was told of: the decision and its date, the BIA's decision, a motion's, and a
\* filing, at least as the decision that came with it; a hearing's day, at least as
\* the decision of the case that hid it.
NothingMissed ==
    seen # None =>
    /\ case_decided(first, seen) => Told({"CASE_DECIDED"})
    /\ first.appeal.bia_outcome = None /\ seen.appeal.bia_outcome # None => Told({"BIA_DECIDED"})
    /\ ~first.appeal.filed /\ seen.appeal.filed => Told({"APPEAL_FILED", "BIA_DECIDED"})
    /\ \A i \in 1..2 :
         /\ ~Decided(Slots(first)[i]) /\ Decided(Slots(seen)[i]) => Told({"MOTION_DECIDED"})
         /\ Slots(first)[i] = None /\ Slots(seen)[i] # None
              => Told({"MOTION_FILED", "MOTION_DECIDED"})
    /\ \/ first.hearing = None /\ seen.hearing # None
       \/ first.hearing # None /\ seen.hearing = None
       \/ first.hearing # None /\ seen.hearing # None /\ first.hearing.date # seen.hearing.date
       => Told(HearingKinds \cup {"CASE_DECIDED"})

\* The motions of whose decision, or filing, a client knows that did not at first.
NewlyDecided == {i \in 1..2 : ~Decided(Slots(first)[i]) /\ Decided(Slots(seen)[i])}
NewlyFiled == {i \in 1..2 : Slots(first)[i] = None /\ Slots(seen)[i] # None}

\* As long as ACIS only enters what was missing, in whatever order and spelling,
\* nothing is told twice: each decision is reported once, and each filing once
\* unless the decision came with it.  A date that is filled in after its outcome
\* is not a new decision.
ReportedOnce ==
    amended = 0 /\ seen # None =>
    /\ reported["CASE_DECIDED"] = (IF case_decided(first, seen) THEN 1 ELSE 0)
    /\ reported["BIA_DECIDED"] = (IF bia_decided(first.appeal, seen.appeal) THEN 1 ELSE 0)
    /\ reported["MOTION_DECIDED"] = Cardinality(NewlyDecided)
    /\ reported["MOTION_FILED"] <= Cardinality(NewlyFiled)
    /\ reported["APPEAL_FILED"] <= IF appeal_filed(first.appeal, seen.appeal) THEN 1 ELSE 0
    /\ reported["NEW_HEARING"] <= 1
    /\ \A kind \in {"MOVED_EARLIER", "MOVED_LATER", "HEARING_REMOVED", "DETAILS_CHANGED"} :
         reported[kind] = 0

Kinds(changes) == {changes[i].kind : i \in DOMAIN changes}
Mirror(kind) ==
    CASE kind = "MOVED_EARLIER" -> "MOVED_LATER" [] kind = "MOVED_LATER" -> "MOVED_EARLIER"
      [] kind = "NEW_HEARING" -> "HEARING_REMOVED" [] kind = "HEARING_REMOVED" -> "NEW_HEARING"
      [] OTHER -> kind

\* Read backwards, a poll tells the opposite of the hearing, unless a decision
\* hides it: an amendment that is taken back is told of as it was, and no pair of
\* cases moves both ways.
HearingMirrors ==
    seen # None =>
    LET now == from_payload(page)
        hearing == HearingKinds \cup {"DETAILS_CHANGED"}
        there == Kinds(diff(seen, now))
        back == Kinds(diff(now, seen)) IN
    "CASE_DECIDED" \notin there \cup back =>
        back \cap hearing = {Mirror(kind) : kind \in there \cap hearing}
=============================================================================
