--------------------------- MODULE CaseDiffProofs ---------------------------
(***************************************************************************)
(* Proofs about CaseDiff, for every payload ACIS may hold, any scope of the *)
(* changes and any number of amendments.  A list of changes is a            *)
(* concatenation of parts; the lemmas say which kinds are in it, the        *)
(* theorems follow from how two polls compose.                              *)
(***************************************************************************)
EXTENDS CaseDiff, SequenceTheorems, FiniteSetTheorems, TLAPS

-----------------------------------------------------------------------------
(* How often a list of changes has a kind. *)

Once(condition) == IF condition THEN 1 ELSE 0

Reports(changes, kind) == \E i \in DOMAIN changes : changes[i].kind = kind

\* The number of a kind in a list is a natural number, and not zero exactly if the
\* list has it.
LEMMA TimesCount ==
    ASSUME NEW S, NEW s \in Seq(S), NEW kind
    PROVE  /\ Times(s, kind) \in Nat
           /\ Reports(s, kind) <=> Times(s, kind) > 0
<1> DEFINE at == {i \in DOMAIN s : s[i].kind = kind}
<1>1. DOMAIN s = 1..Len(s) /\ Len(s) \in Nat
  BY LenProperties
<1>2. IsFiniteSet(at)
  <2>1. IsFiniteSet(1..Len(s))
    BY <1>1, FS_Interval
  <2>2. at \subseteq 1..Len(s)
    BY <1>1
  <2> QED
    BY <2>1, <2>2, FS_Subset
<1>3. Cardinality(at) \in Nat /\ (Cardinality(at) = 0 <=> at = {})
  BY <1>2, FS_CardinalityType, FS_EmptySet
<1>4. Reports(s, kind) <=> at # {}
  BY DEF Reports
<1> QED
  BY <1>3, <1>4 DEF Times

\* The number of a kind in two lists is the sum of that in each.
LEMMA ConcatTimes ==
    ASSUME NEW S, NEW s \in Seq(S), NEW t \in Seq(S), NEW kind
    PROVE  s \o t \in Seq(S) /\ Times(s \o t, kind) = Times(s, kind) + Times(t, kind)
<1> DEFINE left == {i \in DOMAIN s : s[i].kind = kind}
           right == {i \in DOMAIN t : t[i].kind = kind}
           shifted == {i \in DOMAIN (s \o t) : (s \o t)[i].kind = kind} \ left
           shift == [i \in right |-> Len(s) + i]
<1>1. /\ s \o t \in Seq(S) /\ Len(s \o t) = Len(s) + Len(t)
      /\ \A i \in 1..Len(s) : (s \o t)[i] = s[i]
      /\ \A i \in 1..Len(t) : (s \o t)[Len(s) + i] = t[i]
  BY ConcatProperties
<1>2. /\ DOMAIN s = 1..Len(s) /\ DOMAIN t = 1..Len(t) /\ Len(s) \in Nat /\ Len(t) \in Nat
      /\ DOMAIN (s \o t) = 1..(Len(s) + Len(t))
  BY <1>1, LenProperties
<1>3. IsFiniteSet(left) /\ IsFiniteSet(right) /\ IsFiniteSet(shifted)
  <2>1. /\ IsFiniteSet(1..Len(s)) /\ IsFiniteSet(1..Len(t))
        /\ IsFiniteSet(1..(Len(s) + Len(t)))
    BY <1>2, FS_Interval
  <2>2. /\ left \subseteq 1..Len(s) /\ right \subseteq 1..Len(t)
        /\ shifted \subseteq 1..(Len(s) + Len(t))
    BY <1>2
  <2> QED BY <2>1, <2>2, FS_Subset
<1>4. {i \in DOMAIN (s \o t) : (s \o t)[i].kind = kind} = left \cup shifted
  BY <1>1, <1>2
<1>5. left \cap shifted = {} OBVIOUS
<1>6. shift \in Bijection(right, shifted)
  <2>1. \A i \in right : Len(s) + i \in shifted BY <1>1, <1>2
  <2>2. \A j \in shifted : \E i \in right : j = Len(s) + i
    <3> SUFFICES ASSUME NEW j \in shifted PROVE \E i \in right : j = Len(s) + i OBVIOUS
    <3>1. j \in 1..(Len(s) + Len(t)) /\ (s \o t)[j].kind = kind BY <1>2
    <3>2. j > Len(s) BY <1>1, <1>2, <3>1
    <3>3. j - Len(s) \in 1..Len(t) /\ j = Len(s) + (j - Len(s)) BY <1>2, <3>1, <3>2
    <3>4. j - Len(s) \in right BY <1>1, <1>2, <3>1, <3>3
    <3> QED BY <3>3, <3>4
  <2>3. right \subseteq Int /\ Len(s) \in Int BY <1>2
  <2> HIDE DEF right, shifted
  <2>4. shift \in [right -> shifted] BY <2>1
  <2>5. \A i, j \in right : shift[i] = shift[j] => i = j BY <2>3
  <2>6. \A j \in shifted : \E i \in right : shift[i] = j BY <2>2
  <2> QED BY <2>4, <2>5, <2>6 DEF Bijection, Injection, Surjection, IsInjective
<1>7. Cardinality(shifted) = Cardinality(right)
  <2>1. ExistsBijection(right, shifted) BY <1>6 DEF ExistsBijection
  <2> QED BY <1>3, <2>1, FS_Bijection
<1>8. /\ Cardinality(left \cup shifted) = Cardinality(left) + Cardinality(shifted) - Cardinality({})
      /\ Cardinality(left) \in Nat /\ Cardinality(shifted) \in Nat
  <2> HIDE DEF left, shifted
  <2> QED BY <1>3, <1>5, FS_Union, FS_CardinalityType
<1>9. /\ Times(s, kind) = Cardinality(left) /\ Times(t, kind) = Cardinality(right)
      /\ Times(s \o t, kind) = Cardinality(left \cup shifted)
  BY <1>4 DEF Times
<1> HIDE DEF left, right, shifted
<1> QED BY <1>1, <1>7, <1>8, <1>9, FS_EmptySet

\* A part that depends on a condition has one change, of its kind, or none.
LEMMA WhenTyped ==
    ASSUME NEW S, NEW change \in S, NEW condition
    PROVE  When(condition, change) \in Seq(S)
<1>1. <<>> \in Seq(S) /\ <<change>> \in Seq(S) OBVIOUS
<1> QED BY <1>1 DEF When

LEMMA WhenTimes ==
    ASSUME NEW condition, NEW change, NEW kind
    PROVE  Times(When(condition, change), kind) = Once(condition /\ change.kind = kind)
<1>1. CASE condition /\ change.kind = kind
  <2>1. {i \in DOMAIN <<change>> : <<change>>[i].kind = kind} = {1} BY <1>1
  <2> QED BY <1>1, <2>1, FS_Singleton DEF Times, When, Once
<1>2. CASE ~(condition /\ change.kind = kind)
  <2>1. {i \in DOMAIN When(condition, change) : When(condition, change)[i].kind = kind} = {}
    BY <1>2 DEF When
  <2> QED BY <1>2, <2>1, FS_EmptySet DEF Times, Once
<1> QED BY <1>1, <1>2

-----------------------------------------------------------------------------
(* What a diff reports. *)

\* The changes that a diff of two cases may hold.
Possible(prior, current) ==
    {Change(kind) : kind \in ChangeKind}
    \cup {HearingChange(kind, detail_changes(prior.hearing, current.hearing)) : kind \in ChangeKind}
    \cup {MotionChange(kind, current.motion_to_reopen) : kind \in ChangeKind}
    \cup {MotionChange(kind, current.motion_at_bia) : kind \in ChangeKind}

\* The change keeps the kind it was made with.
LEMMA ChangeKinds ==
    ASSUME NEW kind, NEW details, NEW motion
    PROVE  /\ Change(kind).kind = kind
           /\ HearingChange(kind, details).kind = kind
           /\ MotionChange(kind, motion).kind = kind
BY DEF Change, HearingChange, MotionChange

\* The kind that hearing_change tells of.
HearingTold(prior, current, kind) ==
    IF prior.hearing # None /\ current.hearing # None
    THEN IF current.hearing.date # prior.hearing.date
         THEN kind = IF current.hearing.date < prior.hearing.date
                     THEN "MOVED_EARLIER" ELSE "MOVED_LATER"
         ELSE IF is_replaced(prior.hearing.time, current.hearing.time)
         THEN kind = IF current.hearing.time < prior.hearing.time
                     THEN "MOVED_EARLIER" ELSE "MOVED_LATER"
         ELSE /\ DOMAIN detail_changes(prior.hearing, current.hearing) # {}
              /\ kind = "DETAILS_CHANGED"
    ELSE \/ prior.hearing # None /\ kind = "HEARING_REMOVED"
         \/ current.hearing # None /\ kind = "NEW_HEARING"

\* hearing_change is a list of changes that has that kind once, and no other.
LEMMA HearingTimes ==
    ASSUME NEW prior, NEW current, NEW kind
    PROVE  /\ hearing_change(prior, current) \in Seq(Possible(prior, current))
           /\ Times(hearing_change(prior, current), kind) = Once(HearingTold(prior, current, kind))
<1> DEFINE S == Possible(prior, current)
           details == detail_changes(prior.hearing, current.hearing)
           kindOf(earlier) == IF earlier THEN "MOVED_EARLIER" ELSE "MOVED_LATER"
           move(earlier) == HearingChange(kindOf(earlier), details)
           change == HearingChange("DETAILS_CHANGED", details)
           sooner == current.hearing.date < prior.hearing.date
           before == current.hearing.time < prior.hearing.time
<1>1. /\ \A earlier : move(earlier) \in S
      /\ change \in S /\ Change("HEARING_REMOVED") \in S /\ Change("NEW_HEARING") \in S
  BY DEF Possible, ChangeKind
<1>2. CASE prior.hearing # None /\ current.hearing # None
  <2>1. hearing_change(prior, current) = moved(prior.hearing, current.hearing)
    BY <1>2 DEF hearing_change
  <2>2. CASE current.hearing.date # prior.hearing.date
    <3>1. moved(prior.hearing, current.hearing) = When(TRUE, move(sooner))
      BY <2>2 DEF moved, When
    <3>2. move(sooner).kind = kindOf(sooner) BY ChangeKinds
    <3>3. HearingTold(prior, current, kind) <=> kindOf(sooner) = kind
      BY <1>2, <2>2 DEF HearingTold
    <3> HIDE DEF S, move, kindOf, sooner
    <3>4. When(TRUE, move(sooner)) \in Seq(S) BY <1>1, WhenTyped
    <3>5. Times(When(TRUE, move(sooner)), kind) = Once(TRUE /\ move(sooner).kind = kind)
      BY WhenTimes
    <3> QED BY <2>1, <3>1, <3>2, <3>3, <3>4, <3>5 DEF Once, S
  <2>3. CASE /\ current.hearing.date = prior.hearing.date
             /\ is_replaced(prior.hearing.time, current.hearing.time)
    <3>1. moved(prior.hearing, current.hearing) = When(TRUE, move(before))
      BY <2>3 DEF moved, When
    <3>2. move(before).kind = kindOf(before) BY ChangeKinds
    <3>3. HearingTold(prior, current, kind) <=> kindOf(before) = kind
      BY <1>2, <2>3 DEF HearingTold
    <3> HIDE DEF S, move, kindOf, before
    <3>4. When(TRUE, move(before)) \in Seq(S) BY <1>1, WhenTyped
    <3>5. Times(When(TRUE, move(before)), kind) = Once(TRUE /\ move(before).kind = kind)
      BY WhenTimes
    <3> QED BY <2>1, <3>1, <3>2, <3>3, <3>4, <3>5 DEF Once, S
  <2>4. CASE /\ current.hearing.date = prior.hearing.date
             /\ ~is_replaced(prior.hearing.time, current.hearing.time)
    <3>1. moved(prior.hearing, current.hearing) = When(DOMAIN details # {}, change)
      BY <2>4 DEF moved
    <3>2. change.kind = "DETAILS_CHANGED" BY ChangeKinds
    <3>3. HearingTold(prior, current, kind) <=> DOMAIN details # {} /\ "DETAILS_CHANGED" = kind
      BY <1>2, <2>4 DEF HearingTold
    <3> HIDE DEF S, change, details, move, kindOf
    <3>4. When(DOMAIN details # {}, change) \in Seq(S) BY <1>1, WhenTyped
    <3>5. Times(When(DOMAIN details # {}, change), kind)
            = Once(DOMAIN details # {} /\ change.kind = kind)
      BY WhenTimes
    <3> QED BY <2>1, <3>1, <3>2, <3>3, <3>4, <3>5 DEF Once, S
  <2> QED BY <2>2, <2>3, <2>4
<1>3. CASE ~(prior.hearing # None /\ current.hearing # None)
  <2> DEFINE gone == When(prior.hearing # None, Change("HEARING_REMOVED"))
             new == When(current.hearing # None, Change("NEW_HEARING"))
  <2>1. hearing_change(prior, current) = gone \o new BY <1>3 DEF hearing_change
  <2> HIDE DEF S, change, details, move, kindOf
  <2>2. gone \in Seq(S) /\ new \in Seq(S) BY <1>1, WhenTyped
  <2>3. /\ Times(gone, kind) = Once(prior.hearing # None /\ Change("HEARING_REMOVED").kind = kind)
        /\ Times(new, kind) = Once(current.hearing # None /\ Change("NEW_HEARING").kind = kind)
    BY WhenTimes
  <2>4. Change("HEARING_REMOVED").kind = "HEARING_REMOVED" /\ Change("NEW_HEARING").kind = "NEW_HEARING"
    BY ChangeKinds
  <2>5. HearingTold(prior, current, kind) <=>
          \/ prior.hearing # None /\ kind = "HEARING_REMOVED"
          \/ current.hearing # None /\ kind = "NEW_HEARING"
    BY <1>3 DEF HearingTold
  <2> HIDE DEF gone, new
  <2>6. /\ gone \o new \in Seq(S)
        /\ Times(gone \o new, kind) = Times(gone, kind) + Times(new, kind)
    BY <2>2, ConcatTimes
  <2> QED BY <1>3, <2>1, <2>3, <2>4, <2>5, <2>6 DEF Once, S
<1> QED BY <1>2, <1>3

\* A diff is a list of changes; how often it has a kind, part by part.
LEMMA DiffTimes ==
    ASSUME NEW prior, NEW current, NEW kind
    PROVE  /\ diff(prior, current) \in Seq(Possible(prior, current))
           /\ Times(diff(prior, current), kind)
             = Once(IF case_decided(prior, current) THEN kind = "CASE_DECIDED"
                    ELSE HearingTold(prior, current, kind))
               + Once(bia_decided(prior.appeal, current.appeal) /\ kind = "BIA_DECIDED")
               + Once(is_decided(prior.motion_to_reopen, current.motion_to_reopen)
                        /\ kind = "MOTION_DECIDED")
               + Once(is_decided(prior.motion_at_bia, current.motion_at_bia)
                        /\ kind = "MOTION_DECIDED")
               + Once(appeal_filed(prior.appeal, current.appeal)
                        /\ ~bia_decided(prior.appeal, current.appeal) /\ kind = "APPEAL_FILED")
               + Once(filed(prior.motion_to_reopen, current.motion_to_reopen)
                        /\ kind = "MOTION_FILED")
               + Once(filed(prior.motion_at_bia, current.motion_at_bia)
                        /\ kind = "MOTION_FILED")
<1> DEFINE S == Possible(prior, current)
           q1 == bia_decided(prior.appeal, current.appeal)
           q2 == is_decided(prior.motion_to_reopen, current.motion_to_reopen)
           q3 == is_decided(prior.motion_at_bia, current.motion_at_bia)
           q4 == appeal_filed(prior.appeal, current.appeal) /\ ~q1
           q5 == filed(prior.motion_to_reopen, current.motion_to_reopen)
           q6 == filed(prior.motion_at_bia, current.motion_at_bia)
           c1 == Change("BIA_DECIDED")
           c2 == MotionChange("MOTION_DECIDED", current.motion_to_reopen)
           c3 == MotionChange("MOTION_DECIDED", current.motion_at_bia)
           c4 == Change("APPEAL_FILED")
           c5 == MotionChange("MOTION_FILED", current.motion_to_reopen)
           c6 == MotionChange("MOTION_FILED", current.motion_at_bia)
           head == IF case_decided(prior, current) THEN <<Change("CASE_DECIDED")>>
                   ELSE hearing_change(prior, current)
           told == IF case_decided(prior, current) THEN kind = "CASE_DECIDED"
                   ELSE HearingTold(prior, current, kind)
           w1 == When(q1, c1)
           w2 == When(q2, c2)
           w3 == When(q3, c3)
           w4 == When(q4, c4)
           w5 == When(q5, c5)
           w6 == When(q6, c6)
<1>1. diff(prior, current) = head \o (w1 \o w2 \o w3 \o w4 \o w5 \o w6)
  BY DEF diff, motion_and_appeal_changes
<1>2. /\ {c1, c2, c3, c4, c5, c6, Change("CASE_DECIDED")} \subseteq S
      /\ c1.kind = "BIA_DECIDED" /\ c2.kind = "MOTION_DECIDED" /\ c3.kind = "MOTION_DECIDED"
      /\ c4.kind = "APPEAL_FILED" /\ c5.kind = "MOTION_FILED" /\ c6.kind = "MOTION_FILED"
  <2>1. {"BIA_DECIDED", "MOTION_DECIDED", "APPEAL_FILED", "MOTION_FILED", "CASE_DECIDED"}
          \subseteq ChangeKind
    BY DEF ChangeKind
  <2>2. {c1, c2, c3, c4, c5, c6, Change("CASE_DECIDED")} \subseteq S
    BY <2>1 DEF Possible
  <2> HIDE DEF S
  <2> QED BY <2>2, ChangeKinds
<1>3. head \in Seq(S) /\ Times(head, kind) = Once(told)
  <2>1. CASE case_decided(prior, current)
    <3>1. head = When(TRUE, Change("CASE_DECIDED")) BY <2>1 DEF When
    <3>2. Change("CASE_DECIDED").kind = "CASE_DECIDED" /\ Change("CASE_DECIDED") \in S
      BY <1>2, ChangeKinds
    <3>3. told <=> "CASE_DECIDED" = kind BY <2>1
    <3> HIDE DEF S, head, told
    <3>4. Times(When(TRUE, Change("CASE_DECIDED")), kind)
            = Once(TRUE /\ Change("CASE_DECIDED").kind = kind)
          /\ When(TRUE, Change("CASE_DECIDED")) \in Seq(S)
      BY <3>2, WhenTimes, WhenTyped
    <3> QED BY <3>1, <3>2, <3>3, <3>4 DEF Once
  <2>2. CASE ~case_decided(prior, current)
    <3>1. head = hearing_change(prior, current) /\ (told <=> HearingTold(prior, current, kind))
      BY <2>2
    <3>2. /\ hearing_change(prior, current) \in Seq(S)
          /\ Times(hearing_change(prior, current), kind) = Once(HearingTold(prior, current, kind))
      BY HearingTimes
    <3> HIDE DEF S, head, told
    <3> QED BY <3>1, <3>2 DEF Once
  <2> QED BY <2>1, <2>2
<1> HIDE DEF S, head, told, q1, q2, q3, q4, q5, q6, c1, c2, c3, c4, c5, c6
<1>4. /\ w1 \in Seq(S) /\ w2 \in Seq(S) /\ w3 \in Seq(S)
      /\ w4 \in Seq(S) /\ w5 \in Seq(S) /\ w6 \in Seq(S)
  BY <1>2, WhenTyped
<1>5. /\ Times(w1, kind) = Once(q1 /\ c1.kind = kind)
      /\ Times(w2, kind) = Once(q2 /\ c2.kind = kind)
      /\ Times(w3, kind) = Once(q3 /\ c3.kind = kind)
      /\ Times(w4, kind) = Once(q4 /\ c4.kind = kind)
      /\ Times(w5, kind) = Once(q5 /\ c5.kind = kind)
      /\ Times(w6, kind) = Once(q6 /\ c6.kind = kind)
  BY WhenTimes
<1> DEFINE p2 == w1 \o w2
           p3 == p2 \o w3
           p4 == p3 \o w4
           p5 == p4 \o w5
           p6 == p5 \o w6
<1>6. diff(prior, current) = head \o p6 BY <1>1
<1> HIDE DEF w1, w2, w3, w4, w5, w6
<1>7. p2 \in Seq(S) /\ Times(p2, kind) = Times(w1, kind) + Times(w2, kind)
  BY <1>4, ConcatTimes
<1> HIDE DEF p2
<1>8. p3 \in Seq(S) /\ Times(p3, kind) = Times(p2, kind) + Times(w3, kind)
  BY <1>4, <1>7, ConcatTimes
<1> HIDE DEF p3
<1>9. p4 \in Seq(S) /\ Times(p4, kind) = Times(p3, kind) + Times(w4, kind)
  BY <1>4, <1>8, ConcatTimes
<1> HIDE DEF p4
<1>10. p5 \in Seq(S) /\ Times(p5, kind) = Times(p4, kind) + Times(w5, kind)
  BY <1>4, <1>9, ConcatTimes
<1> HIDE DEF p5
<1>11. p6 \in Seq(S) /\ Times(p6, kind) = Times(p5, kind) + Times(w6, kind)
  BY <1>4, <1>10, ConcatTimes
<1> HIDE DEF p6
<1>12. /\ diff(prior, current) \in Seq(S)
       /\ Times(diff(prior, current), kind) = Times(head, kind) + Times(p6, kind)
  BY <1>3, <1>6, <1>11, ConcatTimes
<1>13. Times(diff(prior, current), kind) = Once(told)
         + Once(q1 /\ kind = "BIA_DECIDED") + Once(q2 /\ kind = "MOTION_DECIDED")
         + Once(q3 /\ kind = "MOTION_DECIDED") + Once(q4 /\ kind = "APPEAL_FILED")
         + Once(q5 /\ kind = "MOTION_FILED") + Once(q6 /\ kind = "MOTION_FILED")
  BY <1>2, <1>3, <1>5, <1>7, <1>8, <1>9, <1>10, <1>11, <1>12 DEF Once
<1> QED BY <1>12, <1>13 DEF S, told, q1, q2, q3, q4, q5, q6

DaysDiffer(prior, current) ==
    \/ prior.hearing = None /\ current.hearing # None
    \/ prior.hearing # None /\ current.hearing = None
    \/ prior.hearing # None /\ current.hearing # None
       /\ prior.hearing.date # current.hearing.date

\* A diff tells of everything that its conditions call for.
LEMMA DiffReports ==
    ASSUME NEW prior, NEW current
    PROVE  /\ diff(prior, current) \in Seq(Possible(prior, current))
           /\ case_decided(prior, current) => Reports(diff(prior, current), "CASE_DECIDED")
           /\ bia_decided(prior.appeal, current.appeal)
                => Reports(diff(prior, current), "BIA_DECIDED")
           /\ appeal_filed(prior.appeal, current.appeal)
                => \E kind \in {"APPEAL_FILED", "BIA_DECIDED"} : Reports(diff(prior, current), kind)
           /\ \/ is_decided(prior.motion_to_reopen, current.motion_to_reopen)
              \/ is_decided(prior.motion_at_bia, current.motion_at_bia)
              => Reports(diff(prior, current), "MOTION_DECIDED")
           /\ \/ filed(prior.motion_to_reopen, current.motion_to_reopen)
              \/ filed(prior.motion_at_bia, current.motion_at_bia)
              => Reports(diff(prior, current), "MOTION_FILED")
           /\ DaysDiffer(prior, current)
                => \E kind \in HearingKinds \cup {"CASE_DECIDED"} :
                      Reports(diff(prior, current), kind)
<1> DEFINE tells(kind) == Reports(diff(prior, current), kind)
           head(kind) == IF case_decided(prior, current) THEN kind = "CASE_DECIDED"
                         ELSE HearingTold(prior, current, kind)
           q1 == bia_decided(prior.appeal, current.appeal)
           q2 == is_decided(prior.motion_to_reopen, current.motion_to_reopen)
           q3 == is_decided(prior.motion_at_bia, current.motion_at_bia)
           q4 == appeal_filed(prior.appeal, current.appeal) /\ ~q1
           q5 == filed(prior.motion_to_reopen, current.motion_to_reopen)
           q6 == filed(prior.motion_at_bia, current.motion_at_bia)
<1>1. ASSUME NEW kind
      PROVE  tells(kind) <=> \/ head(kind)
                             \/ q1 /\ kind = "BIA_DECIDED"
                             \/ (q2 \/ q3) /\ kind = "MOTION_DECIDED"
                             \/ q4 /\ kind = "APPEAL_FILED"
                             \/ (q5 \/ q6) /\ kind = "MOTION_FILED"
  <2>1. tells(kind) <=> Times(diff(prior, current), kind) > 0 BY DiffTimes, TimesCount
  <2>2. Times(diff(prior, current), kind)
          = Once(head(kind)) + Once(q1 /\ kind = "BIA_DECIDED")
            + Once(q2 /\ kind = "MOTION_DECIDED") + Once(q3 /\ kind = "MOTION_DECIDED")
            + Once(q4 /\ kind = "APPEAL_FILED")
            + Once(q5 /\ kind = "MOTION_FILED") + Once(q6 /\ kind = "MOTION_FILED")
    BY DiffTimes
  <2> HIDE DEF tells, head, q1, q2, q3, q4, q5, q6
  <2> QED BY <2>1, <2>2 DEF Once
<1>2. DaysDiffer(prior, current) => \E kind \in HearingKinds : HearingTold(prior, current, kind)
  BY DEF DaysDiffer, HearingTold, HearingKinds
<1>3. diff(prior, current) \in Seq(Possible(prior, current)) BY DiffTimes
<1> HIDE DEF tells, q1, q2, q3, q4, q5, q6
<1>4. /\ case_decided(prior, current) => tells("CASE_DECIDED")
      /\ q1 => tells("BIA_DECIDED")
      /\ q4 => tells("APPEAL_FILED")
      /\ q2 \/ q3 => tells("MOTION_DECIDED")
      /\ q5 \/ q6 => tells("MOTION_FILED")
      /\ DaysDiffer(prior, current) => \E kind \in HearingKinds \cup {"CASE_DECIDED"} : tells(kind)
  BY <1>1, <1>2
<1> QED BY <1>3, <1>4 DEF tells, q1, q2, q3, q4, q5, q6

-----------------------------------------------------------------------------
(* Nothing is missed. *)

\* A poll that finds the case as it was reports nothing, whatever the case is.
THEOREM SameCaseNoChange ==
    ASSUME NEW case
    PROVE  diff(case, case) = <<>>
<1>1. ~case_decided(case, case)
  BY DEF case_decided
<1>2. hearing_change(case, case) = <<>>
  <2>1. CASE case.hearing # None
    <3>1. DOMAIN detail_changes(case.hearing, case.hearing) = {}
      BY DEF detail_changes, is_replaced
    <3>2. moved(case.hearing, case.hearing) = <<>>
      BY <3>1 DEF moved, is_replaced, When
    <3> QED
      BY <2>1, <3>2 DEF hearing_change
  <2>2. CASE case.hearing = None
    BY <2>2 DEF hearing_change, When
  <2> QED
    BY <2>1, <2>2
<1>3. /\ ~bia_decided(case.appeal, case.appeal)
      /\ ~appeal_filed(case.appeal, case.appeal)
      /\ \A motion : ~is_decided(motion, motion) /\ ~filed(motion, motion)
  BY DEF bia_decided, appeal_filed, is_decided, filed, is_new, is_replaced
<1>4. motion_and_appeal_changes(case, case) = <<>>
  BY <1>3 DEF motion_and_appeal_changes, When
<1> QED
  BY <1>1, <1>2, <1>4 DEF diff

\* The invariant that the proofs carry is the property itself, with its types.
IInv == TypeOK /\ NothingMissed

\* A decision that was parsed has a date.
LEMMA DecisionHasDate ==
    ASSUME NEW payload, from_payload(payload).decision # None
    PROVE  from_payload(payload).decision.date # None
BY DEF from_payload, parse_decision

\* The two motions of a case.
LEMMA SlotsAre ==
    ASSUME NEW case
    PROVE  Slots(case)[1] = case.motion_to_reopen /\ Slots(case)[2] = case.motion_at_bia
BY DEF Slots

\* A motion that was parsed is pending exactly if it has no decision date.
LEMMA MotionsWellFormed ==
    ASSUME NEW payload, NEW i \in 1..2, Slots(from_payload(payload))[i] # None
    PROVE  LET motion == Slots(from_payload(payload))[i] IN
           (motion.outcome = "pending") = (motion.decided = None)
<1> DEFINE case == from_payload(payload)
<1>1. \A raw : reopen_outcome(raw) # "pending"
  BY DEF reopen_outcome
<1>2. \A raw : bia_outcome(raw, TRUE) = None \/ bia_outcome(raw, TRUE) # "pending"
  BY DEF bia_outcome, BiaOutcomes
<1>3. CASE i = 1
  <2>1. Slots(case)[i] = parse_motion_to_reopen(payload)
    BY <1>3 DEF Slots, from_payload
  <2> QED
    BY <1>1, <2>1 DEF parse_motion_to_reopen, Motion
<1>4. CASE i = 2
  <2>1. Slots(case)[i] = parse_motion_at_bia(payload)
    BY <1>4 DEF Slots, from_payload
  <2> DEFINE decided == parse_date(payload.MTR.MTRDecisionDate)
             outcome == bia_outcome(payload.MTR.MTRDecision, TRUE)
  <2>2. CASE ~Truthy(payload.Data.MTR_BIA_Appeal)
    BY <2>1, <2>2 DEF parse_motion_at_bia
  <2>3. CASE Truthy(payload.Data.MTR_BIA_Appeal) /\ (decided = None \/ outcome = None)
    <3>1. parse_motion_at_bia(payload) = Motion("pending", motion_type(payload.Data.MTR_BIA_Type),
                                                parse_date(payload.MTR.MTRAppealFiledDate), None)
      BY <2>3 DEF parse_motion_at_bia
    <3>2. Slots(case)[i].outcome = "pending" /\ Slots(case)[i].decided = None
      BY <2>1, <3>1 DEF Motion
    <3> QED
      BY <3>2
  <2>4. CASE Truthy(payload.Data.MTR_BIA_Appeal) /\ ~(decided = None \/ outcome = None)
    <3>1. parse_motion_at_bia(payload) = Motion(outcome, motion_type(payload.Data.MTR_BIA_Type),
                                                parse_date(payload.MTR.MTRAppealFiledDate), decided)
      BY <2>4 DEF parse_motion_at_bia
    <3>2. Slots(case)[i].outcome = outcome /\ Slots(case)[i].decided = decided
      BY <2>1, <3>1 DEF Motion
    <3> QED
      BY <1>2, <2>4, <3>2
  <2> QED
    BY <2>2, <2>3, <2>4
<1> QED
  BY <1>3, <1>4

\* After a poll, what was told stays told, and what the diff reports is told.
LEMMA PollTells ==
    ASSUME TypeOK, Poll
    PROVE  /\ reported' \in [ChangeKind -> Nat]
           /\ \A kind \in ChangeKind :
                reported[kind] > 0 \/ Reports(diff(seen, from_payload(page)), kind)
                  => reported'[kind] > 0
<1> DEFINE changes == diff(seen, from_payload(page))
<1>1. \A kind : Times(changes, kind) \in Nat /\ (Reports(changes, kind) => Times(changes, kind) > 0)
  BY DiffReports, TimesCount
<1> HIDE DEF changes
<1>2. reported' = [kind \in ChangeKind |-> reported[kind] + Times(changes, kind)]
  BY DEF Poll, changes
<1>3. reported \in [ChangeKind -> Nat]
  BY DEF TypeOK
<1> QED
  BY <1>1, <1>2, <1>3 DEF changes

\* The invariant holds at first.
LEMMA InitInvariant == Init => IInv
BY AmendmentsAssumption DEF Init, IInv, TypeOK, NothingMissed

\* A poll keeps it: what is new since the first poll was new before, and told, or is
\* new in this poll.
LEMMA PollInvariant == IInv /\ Poll => IInv'
<1> SUFFICES ASSUME IInv, Poll PROVE IInv'
  OBVIOUS
<1> DEFINE now == from_payload(page)
           changes == diff(seen, now)
<1>1. TypeOK /\ NothingMissed /\ seen # None /\ seen' = now /\ first' = first
      /\ amended' = amended
  BY DEF IInv, Poll
<1>2. /\ reported' \in [ChangeKind -> Nat]
      /\ \A kind \in ChangeKind :
            reported[kind] > 0 \/ Reports(changes, kind) => reported'[kind] > 0
  BY <1>1, PollTells
<1>3. TypeOK'
  <2>1. \A i \in 1..2 : LET motion == Slots(now)[i] IN
          motion # None => (motion.outcome = "pending") = (motion.decided = None)
    BY MotionsWellFormed
  <2> QED
    BY <1>1, <1>2, <2>1 DEF TypeOK, Slots
<1> DEFINE tells(kinds) == \E kind \in kinds : reported'[kind] > 0
<1>4. \A kinds \in SUBSET ChangeKind :
        Told(kinds) \/ (\E kind \in kinds : Reports(changes, kind)) => tells(kinds)
  BY <1>2 DEF Told
<1>5. /\ {"CASE_DECIDED"} \in SUBSET ChangeKind /\ {"BIA_DECIDED"} \in SUBSET ChangeKind
      /\ {"APPEAL_FILED", "BIA_DECIDED"} \in SUBSET ChangeKind
      /\ {"MOTION_DECIDED"} \in SUBSET ChangeKind
      /\ {"MOTION_FILED", "MOTION_DECIDED"} \in SUBSET ChangeKind
      /\ HearingKinds \cup {"CASE_DECIDED"} \in SUBSET ChangeKind
  BY DEF ChangeKind, HearingKinds
<1>6. case_decided(first, now) => tells({"CASE_DECIDED"})
  <2>1. now.decision # None => now.decision.date # None
    BY DecisionHasDate
  <2>2. case_decided(first, now) => case_decided(first, seen) \/ case_decided(seen, now)
    <3> HIDE DEF now
    <3> QED
      BY <2>1 DEF case_decided
  <2>3. case_decided(first, seen) => Told({"CASE_DECIDED"})
    BY <1>1 DEF NothingMissed
  <2>4. case_decided(seen, now) => Reports(changes, "CASE_DECIDED")
    BY DiffReports
  <2> HIDE DEF now, changes, tells
  <2> QED
    BY <1>4, <1>5, <2>2, <2>3, <2>4
<1>7. first.appeal.bia_outcome = None /\ now.appeal.bia_outcome # None => tells({"BIA_DECIDED"})
  <2>1. seen.appeal.bia_outcome = None /\ now.appeal.bia_outcome # None
          => Reports(changes, "BIA_DECIDED")
    BY DiffReports DEF bia_decided
  <2>2. first.appeal.bia_outcome = None /\ seen.appeal.bia_outcome # None
          => Told({"BIA_DECIDED"})
    BY <1>1 DEF NothingMissed
  <2> HIDE DEF now, changes, tells
  <2> QED
    BY <1>4, <1>5, <2>1, <2>2
<1>8. ~first.appeal.filed /\ now.appeal.filed => tells({"APPEAL_FILED", "BIA_DECIDED"})
  <2>1. ~seen.appeal.filed /\ now.appeal.filed
          => \E kind \in {"APPEAL_FILED", "BIA_DECIDED"} : Reports(changes, kind)
    BY DiffReports DEF appeal_filed
  <2>2. ~first.appeal.filed /\ seen.appeal.filed => Told({"APPEAL_FILED", "BIA_DECIDED"})
    BY <1>1 DEF NothingMissed
  <2> HIDE DEF now, changes, tells
  <2> QED
    BY <1>4, <1>5, <2>1, <2>2
<1>9. ASSUME NEW i \in 1..2
      PROVE  /\ ~Decided(Slots(first)[i]) /\ Decided(Slots(now)[i]) => tells({"MOTION_DECIDED"})
             /\ Slots(first)[i] = None /\ Slots(now)[i] # None
                  => tells({"MOTION_FILED", "MOTION_DECIDED"})
  <2>1. is_decided(Slots(seen)[i], Slots(now)[i]) => Reports(changes, "MOTION_DECIDED")
    <3>1. \/ Slots(seen)[i] = seen.motion_to_reopen /\ Slots(now)[i] = now.motion_to_reopen
          \/ Slots(seen)[i] = seen.motion_at_bia /\ Slots(now)[i] = now.motion_at_bia
      BY SlotsAre
    <3>2. \/ is_decided(seen.motion_to_reopen, now.motion_to_reopen)
          \/ is_decided(seen.motion_at_bia, now.motion_at_bia)
          => Reports(changes, "MOTION_DECIDED")
      BY DiffReports
    <3> HIDE DEF now, changes
    <3> QED
      BY <3>1, <3>2
  <2>2. filed(Slots(seen)[i], Slots(now)[i]) => Reports(changes, "MOTION_FILED")
    <3>1. \/ Slots(seen)[i] = seen.motion_to_reopen /\ Slots(now)[i] = now.motion_to_reopen
          \/ Slots(seen)[i] = seen.motion_at_bia /\ Slots(now)[i] = now.motion_at_bia
      BY SlotsAre
    <3>2. \/ filed(seen.motion_to_reopen, now.motion_to_reopen)
          \/ filed(seen.motion_at_bia, now.motion_at_bia)
          => Reports(changes, "MOTION_FILED")
      BY DiffReports
    <3> HIDE DEF now, changes
    <3> QED
      BY <3>1, <3>2
  <2>3. /\ ~Decided(Slots(seen)[i]) /\ Decided(Slots(now)[i])
             => is_decided(Slots(seen)[i], Slots(now)[i])
        /\ Slots(seen)[i] = None /\ Slots(now)[i] # None
             => \/ is_decided(Slots(seen)[i], Slots(now)[i])
                \/ filed(Slots(seen)[i], Slots(now)[i])
    <3> HIDE DEF now
    <3> QED
      BY DEF Decided, is_decided, filed, is_new
  <2>4. /\ ~Decided(Slots(first)[i]) /\ Decided(Slots(seen)[i]) => Told({"MOTION_DECIDED"})
        /\ Slots(first)[i] = None /\ Slots(seen)[i] # None
             => Told({"MOTION_FILED", "MOTION_DECIDED"})
    BY <1>1 DEF NothingMissed
  <2> HIDE DEF now, changes, tells
  <2> QED
    BY <1>4, <1>5, <2>1, <2>2, <2>3, <2>4
<1>10. DaysDiffer(first, now) => tells(HearingKinds \cup {"CASE_DECIDED"})
  <2>1. DaysDiffer(first, now) => DaysDiffer(first, seen) \/ DaysDiffer(seen, now)
    <3> HIDE DEF now
    <3> QED
      BY DEF DaysDiffer
  <2>2. DaysDiffer(first, seen) => Told(HearingKinds \cup {"CASE_DECIDED"})
    BY <1>1 DEF NothingMissed, DaysDiffer
  <2>3. DaysDiffer(seen, now)
          => \E kind \in HearingKinds \cup {"CASE_DECIDED"} : Reports(changes, kind)
    BY DiffReports
  <2> HIDE DEF now, changes, tells
  <2> QED
    BY <1>4, <1>5, <2>1, <2>2, <2>3
<1>11. NothingMissed'
  <2> HIDE DEF now
  <2> QED
    BY <1>1, <1>6, <1>7, <1>8, <1>9, <1>10
       DEF NothingMissed, Told, DaysDiffer, case_decided, Slots, Decided
<1> QED
  BY <1>3, <1>11 DEF IInv

\* Every other step keeps it: there is nothing new at the first poll.
LEMMA StepInvariant == IInv /\ [Next]_vars => IInv'
<1> SUFFICES ASSUME IInv, [Next]_vars PROVE IInv'
  OBVIOUS
<1>1. CASE Enter
  BY <1>1 DEF IInv, TypeOK, NothingMissed, Enter, SetField, Told, Slots, Decided, case_decided
<1>2. CASE Amend
  BY <1>2, AmendmentsAssumption
     DEF IInv, TypeOK, NothingMissed, Amend, SetField, Told, Slots, Decided, case_decided
<1>3. CASE FirstPoll
  <2>1. \A i \in 1..2 : LET motion == Slots(from_payload(page))[i] IN
          motion # None => (motion.outcome = "pending") = (motion.decided = None)
    BY MotionsWellFormed
  <2>2. seen' = from_payload(page) /\ first' = seen' /\ amended' = amended /\ reported' = reported
    BY <1>3 DEF FirstPoll
  <2>3. TypeOK'
    BY <2>1, <2>2 DEF IInv, TypeOK, Slots
  <2>4. NothingMissed'
    <3>1. seen' = first'
      BY <2>2
    <3> QED
      BY <3>1 DEF NothingMissed, case_decided, Slots
  <2> QED
    BY <2>3, <2>4 DEF IInv
<1>4. CASE Poll
  BY <1>4, PollInvariant
<1>5. CASE UNCHANGED vars
  BY <1>5 DEF vars, IInv, TypeOK, NothingMissed, Told, Slots, Decided, case_decided
<1> QED
  BY <1>1, <1>2, <1>3, <1>4, <1>5 DEF Next

\* Type correctness: a parsed motion is pending exactly if it is undecided.
THEOREM TypesHold == Spec => []TypeOK
<1>1. IInv => TypeOK
  BY DEF IInv
<1> QED
  BY <1>1, InitInvariant, StepInvariant, PTL DEF Spec

\* No decision, filing or change of a hearing's day is missed, however the payload
\* changes between the polls.
THEOREM NoNewsIsMissed == Spec => []NothingMissed
<1>1. IInv => NothingMissed
  BY DEF IInv
<1> QED
  BY <1>1, InitInvariant, StepInvariant, PTL DEF Spec

-----------------------------------------------------------------------------
(* A poll read backwards. *)

\* The kinds that tell of a hearing.
OfHearing == HearingKinds \cup {"DETAILS_CHANGED"}

\* As long as no decision hides it, a diff tells of the hearing what hearing_change does.
LEMMA DiffTellsHearing ==
    ASSUME NEW prior, NEW current, NEW kind \in OfHearing, ~case_decided(prior, current)
    PROVE  kind \in Kinds(diff(prior, current)) <=> HearingTold(prior, current, kind)
<1>1. kind \notin {"CASE_DECIDED", "BIA_DECIDED", "MOTION_DECIDED", "APPEAL_FILED", "MOTION_FILED"}
  BY DEF OfHearing, HearingKinds
<1>2. Times(diff(prior, current), kind) = Once(HearingTold(prior, current, kind))
  BY <1>1, DiffTimes DEF Once
<1>3. kind \in Kinds(diff(prior, current)) <=> Reports(diff(prior, current), kind)
  BY DEF Kinds, Reports
<1>4. Reports(diff(prior, current), kind) <=> Times(diff(prior, current), kind) > 0
  BY DiffReports, TimesCount
<1> QED BY <1>2, <1>3, <1>4 DEF Once

\* A hearing has a day, and its time is known or not.
HearingTimely(hearing) ==
    hearing # None => hearing.date \in Int /\ hearing.time \in Int \cup {None}

\* What hearing_change tells of two cases and of the same two backwards.
LEMMA ToldBackwards ==
    ASSUME NEW prior, NEW current, NEW kind \in OfHearing,
           HearingTimely(prior.hearing), HearingTimely(current.hearing)
    PROVE  /\ Mirror(kind) \in OfHearing /\ Mirror(Mirror(kind)) = kind
           /\ HearingTold(current, prior, Mirror(kind)) <=> HearingTold(prior, current, kind)
<1>1. /\ Mirror("MOVED_EARLIER") = "MOVED_LATER" /\ Mirror("MOVED_LATER") = "MOVED_EARLIER"
      /\ Mirror("NEW_HEARING") = "HEARING_REMOVED" /\ Mirror("HEARING_REMOVED") = "NEW_HEARING"
      /\ Mirror("DETAILS_CHANGED") = "DETAILS_CHANGED"
  BY DEF Mirror
<1>2. \/ kind = "MOVED_EARLIER" \/ kind = "MOVED_LATER" \/ kind = "NEW_HEARING"
      \/ kind = "HEARING_REMOVED" \/ kind = "DETAILS_CHANGED"
  BY DEF OfHearing, HearingKinds
<1>3. Mirror(kind) \in OfHearing /\ Mirror(Mirror(kind)) = kind
  BY <1>1, <1>2 DEF OfHearing, HearingKinds
<1>4. HearingTold(current, prior, Mirror(kind)) <=> HearingTold(prior, current, kind)
  <2>1. CASE ~(prior.hearing # None /\ current.hearing # None)
    BY <1>1, <1>2, <2>1 DEF HearingTold
  <2>2. CASE prior.hearing # None /\ current.hearing # None
    <3>1. prior.hearing.date \in Int /\ current.hearing.date \in Int
      BY <2>2 DEF HearingTimely
    <3>2. is_replaced(current.hearing.time, prior.hearing.time)
            <=> is_replaced(prior.hearing.time, current.hearing.time)
      BY DEF is_replaced
    <3>3. DOMAIN detail_changes(current.hearing, prior.hearing)
            = DOMAIN detail_changes(prior.hearing, current.hearing)
      BY DEF detail_changes, is_replaced
    <3>4. CASE current.hearing.date # prior.hearing.date
      BY <1>1, <1>2, <2>2, <3>1, <3>4 DEF HearingTold
    <3>5. CASE /\ current.hearing.date = prior.hearing.date
               /\ is_replaced(prior.hearing.time, current.hearing.time)
      <4>1. /\ prior.hearing.time \in Int /\ current.hearing.time \in Int
            /\ prior.hearing.time # current.hearing.time
        BY <2>2, <3>5 DEF HearingTimely, is_replaced
      <4> QED BY <1>1, <1>2, <2>2, <3>2, <3>5, <4>1 DEF HearingTold
    <3>6. CASE /\ current.hearing.date = prior.hearing.date
               /\ ~is_replaced(prior.hearing.time, current.hearing.time)
      BY <1>1, <1>2, <2>2, <3>2, <3>3, <3>6 DEF HearingTold
    <3> QED BY <3>4, <3>5, <3>6
  <2> QED BY <2>1, <2>2
<1> QED BY <1>3, <1>4

\* The payload has the sections and fields that are read, and times where they are due.
PageTyped ==
    /\ DOMAIN page = DOMAIN Fields
    /\ \A section \in DOMAIN Fields :
         /\ DOMAIN page[section] = Fields[section]
         /\ \A field \in Fields[section] : Timely(section, field, page[section][field])

\* The invariant of what is compared: the page's fields, and the hearing last seen.
Readable ==
    /\ scope \in Scopes
    /\ PageTyped
    /\ seen # None => HearingTimely(seen.hearing)

\* A field that is written leaves the others as they are.
LEMMA FieldSet ==
    ASSUME PageTyped, NEW entry, NEW raw, SetField(entry, raw),
           Timely(entry.section, entry.field, raw)
    PROVE  /\ PageTyped'
           /\ \A section \in DOMAIN Fields : \A field \in Fields[section] :
                page'[section][field] = IF section = entry.section /\ field = entry.field
                                        THEN raw ELSE page[section][field]
<1>1. page' = [page EXCEPT ![entry.section][entry.field] = raw] BY DEF SetField
<1>2. DOMAIN page' = DOMAIN Fields BY <1>1 DEF PageTyped
<1>3. ASSUME NEW section \in DOMAIN Fields
      PROVE  /\ DOMAIN page'[section] = Fields[section]
             /\ \A field \in Fields[section] :
                  page'[section][field] = IF section = entry.section /\ field = entry.field
                                          THEN raw ELSE page[section][field]
  <2>1. DOMAIN page = DOMAIN Fields /\ DOMAIN page[section] = Fields[section]
    BY DEF PageTyped
  <2>2. CASE section = entry.section
    <3>1. page'[section] = [page[section] EXCEPT ![entry.field] = raw] BY <1>1, <2>1, <2>2
    <3> QED BY <2>1, <2>2, <3>1
  <2>3. CASE section # entry.section
    <3>1. page'[section] = page[section] BY <1>1, <2>1, <2>3
    <3> QED BY <2>1, <2>3, <3>1
  <2> QED BY <2>2, <2>3
<1>4. ASSUME NEW section \in DOMAIN Fields, NEW field \in Fields[section]
      PROVE  Timely(section, field, page'[section][field])
  BY <1>3 DEF PageTyped
<1> QED BY <1>2, <1>3, <1>4 DEF PageTyped

\* The hearing of a page that is typed is timely.
LEMMA PageHearing == PageTyped => HearingTimely(from_payload(page).hearing)
<1> SUFFICES ASSUME PageTyped PROVE HearingTimely(from_payload(page).hearing) OBVIOUS
<1>1. /\ Timely("Schedule", "AdjDate", page["Schedule"]["AdjDate"])
      /\ Timely("Schedule", "AdjTime", page["Schedule"]["AdjTime"])
  <2>1. "Schedule" \in DOMAIN Fields /\ {"AdjDate", "AdjTime"} \subseteq Fields["Schedule"]
    BY DEF Fields
  <2> QED BY <2>1 DEF PageTyped
<1>2. from_payload(page).hearing = parse_hearing(page.Schedule) BY DEF from_payload
<1> QED BY <1>1, <1>2 DEF HearingTimely, parse_hearing, parse_date, parse_time, Timely

LEMMA ReadableInit == Init => Readable
<1> SUFFICES ASSUME Init PROVE Readable OBVIOUS
<1>1. PageTyped BY BlankAssumption DEF Init, PageTyped
<1> QED BY <1>1 DEF Init, Readable

LEMMA ReadableStep == Readable /\ [Next]_vars => Readable'
<1> SUFFICES ASSUME Readable, [Next]_vars PROVE Readable' OBVIOUS
<1> USE DEF Readable
<1>1. CASE Enter \/ Amend
  <2>1. PICK entry \in scope : \E text \in entry.texts \cup {<<>>} : SetField(entry, text)
    BY <1>1 DEF Enter, Amend
  <2> PICK raw \in entry.texts \cup {<<>>} : SetField(entry, raw) BY <2>1
  <2>2. Timely(entry.section, entry.field, raw)
    BY ScopesAssumption DEF Timely, Reads
  <2>3. PageTyped' BY <2>2, FieldSet
  <2> QED BY <1>1, <2>3 DEF Enter, Amend
<1>2. CASE FirstPoll \/ Poll
  <2>1. /\ UNCHANGED <<page, scope>> /\ seen' = from_payload(page)
    BY <1>2 DEF FirstPoll, Poll
  <2>2. HearingTimely(seen'.hearing) BY <2>1, PageHearing
  <2> QED BY <2>1, <2>2 DEF PageTyped
<1>3. CASE UNCHANGED vars BY <1>3 DEF vars, PageTyped
<1> QED BY <1>1, <1>2, <1>3 DEF Next

\* Read backwards a poll tells the opposite of the hearing.
THEOREM BackwardsOpposite == Spec => []HearingMirrors
<1>1. Readable => HearingMirrors
  <2> SUFFICES ASSUME Readable PROVE HearingMirrors OBVIOUS
  <2> DEFINE now == from_payload(page)
             there == Kinds(diff(seen, now))
             back == Kinds(diff(now, seen))
  <2> SUFFICES ASSUME seen # None, "CASE_DECIDED" \notin there \cup back
               PROVE  back \cap OfHearing = {Mirror(kind) : kind \in there \cap OfHearing}
    BY DEF HearingMirrors, OfHearing
  <2>1. HearingTimely(seen.hearing) /\ HearingTimely(now.hearing) BY PageHearing DEF Readable
  <2> HIDE DEF now
  <2>2. ~case_decided(seen, now) /\ ~case_decided(now, seen)
    BY DiffReports DEF Kinds, Reports
  <2>3. ASSUME NEW kind \in OfHearing
        PROVE  /\ kind \in there <=> HearingTold(seen, now, kind)
               /\ kind \in back <=> HearingTold(now, seen, kind)
    BY <2>2, DiffTellsHearing
  <2>4. ASSUME NEW kind \in OfHearing
        PROVE  /\ Mirror(kind) \in OfHearing /\ Mirror(Mirror(kind)) = kind
               /\ Mirror(kind) \in back <=> kind \in there
    <3>1. /\ Mirror(kind) \in OfHearing /\ Mirror(Mirror(kind)) = kind
          /\ HearingTold(now, seen, Mirror(kind)) <=> HearingTold(seen, now, kind)
      BY <2>1, ToldBackwards
    <3> QED BY <2>3, <3>1
  <2> HIDE DEF there, back
  <2> QED BY <2>4
<1> QED BY <1>1, ReadableInit, ReadableStep, PTL DEF Spec

-----------------------------------------------------------------------------
(* Nothing is told twice. *)

\* None is Python's: it is no record, so no hearing, no motion and no case.
NoneIsNoRecord == None # [name \in DOMAIN None |-> None[name]]

LEMMA RecordsAreSome ==
    ASSUME NoneIsNoRecord
    PROVE  /\ \A payload : from_payload(payload) # None
           /\ \A schedule : parse_date(schedule.AdjDate) # None => parse_hearing(schedule) # None
           /\ \A payload : parse_date(payload.Proceeding.CompDate) # None
                             => parse_decision(payload) # None
           /\ \A outcome, type, since, decided : Motion(outcome, type, since, decided) # None
<1>1. ASSUME NEW record, record = [name \in DOMAIN record |-> record[name]]
      PROVE  record # None
  BY <1>1 DEF NoneIsNoRecord
<1>2. \A payload : from_payload(payload) # None BY <1>1 DEF from_payload
<1>3. \A schedule : parse_date(schedule.AdjDate) # None => parse_hearing(schedule) # None
  BY <1>1 DEF parse_hearing
<1>4. \A payload : parse_date(payload.Proceeding.CompDate) # None => parse_decision(payload) # None
  BY <1>1 DEF parse_decision
<1>5. \A outcome, type, since, decided : Motion(outcome, type, since, decided) # None
  BY <1>1 DEF Motion
<1> QED BY <1>2, <1>3, <1>4, <1>5

-----------------------------------------------------------------------------
(* What an entered field leaves as it was. *)

Kept(old, now) == old # None => now = old

\* What could be read is still read, and what was set is still set.
RawKept(old, now) == Kept(Reads(old), Reads(now)) /\ (Truthy(old) => Truthy(now))

PageKept(old, now) ==
    \A section \in DOMAIN Fields : \A field \in Fields[section] :
        RawKept(old[section][field], now[section][field])

HearingKept(old, now) ==
    old # None => /\ now # None /\ now.date = old.date
                  /\ Kept(old.time, now.time)
                  /\ \A part \in {"judge", "location", "type", "medium"} :
                        Kept(old[part], now[part])

DecisionKept(old, now) == old # None => now # None /\ now.date = old.date

AppealKept(old, now) ==
    /\ old.filed => now.filed
    /\ Kept(old.filed_date, now.filed_date)
    /\ Kept(old.bia_outcome, now.bia_outcome)
    /\ Kept(old.bia_decision_date, now.bia_decision_date)

MotionKept(old, now) ==
    old # None => /\ now # None
                  /\ Kept(old.filed, now.filed) /\ Kept(old.decided, now.decided)
                  /\ Decided(old) => Decided(now)

CaseKept(old, now) ==
    /\ HearingKept(old.hearing, now.hearing)
    /\ DecisionKept(old.decision, now.decision)
    /\ AppealKept(old.appeal, now.appeal)
    /\ MotionKept(old.motion_to_reopen, now.motion_to_reopen)
    /\ MotionKept(old.motion_at_bia, now.motion_at_bia)

LEMMA CaseKeptItself == ASSUME NEW case PROVE CaseKept(case, case)
BY DEF CaseKept, HearingKept, DecisionKept, AppealKept, MotionKept, Kept

LEMMA CaseKeptOn ==
    ASSUME NEW a, NEW b, NEW c, CaseKept(a, b), CaseKept(b, c) PROVE CaseKept(a, c)
<1>1. HearingKept(a.hearing, c.hearing) BY DEF CaseKept, HearingKept, Kept
<1>2. DecisionKept(a.decision, c.decision) BY DEF CaseKept, DecisionKept
<1>3. AppealKept(a.appeal, c.appeal) BY DEF CaseKept, AppealKept, Kept
<1>4. MotionKept(a.motion_to_reopen, c.motion_to_reopen) BY DEF CaseKept, MotionKept, Kept
<1>5. MotionKept(a.motion_at_bia, c.motion_at_bia) BY DEF CaseKept, MotionKept, Kept
<1> QED BY <1>1, <1>2, <1>3, <1>4, <1>5 DEF CaseKept

\* The code of a field that is kept is that of the field before, or there was none.
LEMMA CodeKept ==
    ASSUME NEW old, NEW now, RawKept(old, now)
    PROVE  Code(old) = "" \/ Code(now) = Code(old)
BY DEF RawKept, Kept, Code, Reads

\* Fields that are kept make a case that is kept.
LEMMA PayloadKept ==
    ASSUME NoneIsNoRecord, NEW old, NEW now, PageKept(old, now)
    PROVE  CaseKept(from_payload(old), from_payload(now))
<1>1. \A section \in DOMAIN Fields : \A field \in Fields[section] :
        RawKept(old[section][field], now[section][field])
  BY DEF PageKept
<1>2. HearingKept(parse_hearing(old.Schedule), parse_hearing(now.Schedule))
  <2> DEFINE s == old.Schedule
             t == now.Schedule
  <2>1. /\ RawKept(s.AdjDate, t.AdjDate) /\ RawKept(s.AdjTime, t.AdjTime)
        /\ RawKept(s.CalType, t.CalType) /\ RawKept(s.HearingMedium, t.HearingMedium)
        /\ RawKept(s.IJ_Name, t.IJ_Name)
        /\ RawKept(s.HearingLocationAddress, t.HearingLocationAddress)
    BY <1>1 DEF Fields
  <2> HIDE DEF s, t
  <2>2. Kept(hearing_type(s.CalType), hearing_type(t.CalType))
    BY <2>1, CodeKept DEF Kept, hearing_type
  <2>3. Kept(hearing_medium(s.HearingMedium), hearing_medium(t.HearingMedium))
    BY <2>1, CodeKept DEF Kept, hearing_medium
  <2>4. Kept(parse_hearing_location(s.HearingLocationAddress),
             parse_hearing_location(t.HearingLocationAddress))
    BY <2>1 DEF RawKept, Kept, parse_hearing_location
  <2>5. /\ Kept(Reads(s.AdjDate), Reads(t.AdjDate)) /\ Kept(Reads(s.AdjTime), Reads(t.AdjTime))
        /\ Kept(Reads(s.IJ_Name), Reads(t.IJ_Name))
    BY <2>1 DEF RawKept
  <2> SUFFICES ASSUME parse_hearing(s) # None
               PROVE  LET a == parse_hearing(s)
                          b == parse_hearing(t) IN
                      /\ b # None /\ b.date = a.date /\ Kept(a.time, b.time)
                      /\ \A part \in {"judge", "location", "type", "medium"} :
                           Kept(a[part], b[part])
    BY DEF HearingKept, s, t
  <2>6. parse_date(s.AdjDate) # None /\ parse_date(t.AdjDate) = parse_date(s.AdjDate)
    BY <2>5 DEF parse_hearing, parse_date, Kept
  <2>7. parse_hearing(t) # None BY <2>6, RecordsAreSome
  <2> QED BY <2>2, <2>3, <2>4, <2>5, <2>6, <2>7 DEF parse_hearing, parse_date, parse_time, Text
<1>3. DecisionKept(parse_decision(old), parse_decision(now))
  <2>1. RawKept(old.Proceeding.CompDate, now.Proceeding.CompDate) BY <1>1 DEF Fields
  <2> SUFFICES ASSUME parse_decision(old) # None
               PROVE  /\ parse_decision(now) # None
                      /\ parse_decision(now).date = parse_decision(old).date
    BY DEF DecisionKept
  <2>2. /\ parse_date(old.Proceeding.CompDate) # None
        /\ parse_date(now.Proceeding.CompDate) = parse_date(old.Proceeding.CompDate)
    BY <2>1 DEF parse_decision, parse_date, RawKept, Kept
  <2>3. parse_decision(now) # None BY <2>2, RecordsAreSome
  <2> QED BY <2>2, <2>3 DEF parse_decision
<1>4. AppealKept(parse_appeal(old), parse_appeal(now))
  <2>1. /\ RawKept(old.Data.AppealFiled, now.Data.AppealFiled)
        /\ RawKept(old.Appeal.FiledDate, now.Appeal.FiledDate)
        /\ RawKept(old.Appeal.BIADecision, now.Appeal.BIADecision)
        /\ RawKept(old.Appeal.BIADecisionDate, now.Appeal.BIADecisionDate)
    BY <1>1 DEF Fields
  <2>2. Kept(bia_outcome(old.Appeal.BIADecision, FALSE), bia_outcome(now.Appeal.BIADecision, FALSE))
    BY <2>1, CodeKept DEF Kept, bia_outcome
  <2> QED BY <2>1, <2>2 DEF AppealKept, parse_appeal, parse_date, RawKept
<1>5. MotionKept(parse_motion_to_reopen(old), parse_motion_to_reopen(now))
  <2>1. /\ RawKept(old.Data.ReopenExists, now.Data.ReopenExists)
        /\ RawKept(old.Reopen.MotionReceivedDate, now.Reopen.MotionReceivedDate)
        /\ RawKept(old.Reopen.CompDate, now.Reopen.CompDate)
    BY <1>1 DEF Fields
  <2>2. \A raw : reopen_outcome(raw) # "pending" BY DEF reopen_outcome
  <2> SUFFICES ASSUME parse_motion_to_reopen(old) # None
               PROVE  LET a == parse_motion_to_reopen(old)
                          b == parse_motion_to_reopen(now) IN
                      /\ b # None /\ Kept(a.filed, b.filed) /\ Kept(a.decided, b.decided)
                      /\ Decided(a) => Decided(b)
    BY DEF MotionKept
  <2>3. Truthy(old.Data.ReopenExists) /\ Truthy(now.Data.ReopenExists)
    BY <2>1 DEF parse_motion_to_reopen, RawKept
  <2>4. parse_motion_to_reopen(now) # None
    BY <2>3, RecordsAreSome DEF parse_motion_to_reopen
  <2>5. /\ Kept(parse_date(old.Reopen.MotionReceivedDate), parse_date(now.Reopen.MotionReceivedDate))
        /\ Kept(parse_date(old.Reopen.CompDate), parse_date(now.Reopen.CompDate))
    BY <2>1 DEF RawKept, parse_date
  <2> QED BY <2>2, <2>3, <2>4, <2>5 DEF parse_motion_to_reopen, Motion, Kept, Decided
<1>6. MotionKept(parse_motion_at_bia(old), parse_motion_at_bia(now))
  <2>1. /\ RawKept(old.Data.MTR_BIA_Appeal, now.Data.MTR_BIA_Appeal)
        /\ RawKept(old.MTR.MTRAppealFiledDate, now.MTR.MTRAppealFiledDate)
        /\ RawKept(old.MTR.MTRDecisionDate, now.MTR.MTRDecisionDate)
        /\ RawKept(old.MTR.MTRDecision, now.MTR.MTRDecision)
    BY <1>1 DEF Fields
  <2> SUFFICES ASSUME parse_motion_at_bia(old) # None
               PROVE  LET a == parse_motion_at_bia(old)
                          b == parse_motion_at_bia(now) IN
                      /\ b # None /\ Kept(a.filed, b.filed) /\ Kept(a.decided, b.decided)
                      /\ Decided(a) => Decided(b)
    BY DEF MotionKept
  <2>2. Truthy(old.Data.MTR_BIA_Appeal) /\ Truthy(now.Data.MTR_BIA_Appeal)
    BY <2>1 DEF parse_motion_at_bia, RawKept
  <2>3. parse_motion_at_bia(now) # None
    BY <2>2, RecordsAreSome DEF parse_motion_at_bia
  <2>4. /\ Kept(parse_date(old.MTR.MTRAppealFiledDate), parse_date(now.MTR.MTRAppealFiledDate))
        /\ Kept(parse_date(old.MTR.MTRDecisionDate), parse_date(now.MTR.MTRDecisionDate))
    BY <2>1 DEF RawKept, parse_date
  <2>5. Kept(bia_outcome(old.MTR.MTRDecision, TRUE), bia_outcome(now.MTR.MTRDecision, TRUE))
    BY <2>1, CodeKept DEF Kept, bia_outcome
  <2>6. \A raw : bia_outcome(raw, TRUE) = None \/ bia_outcome(raw, TRUE) # "pending"
    BY DEF bia_outcome, BiaOutcomes
  <2> QED BY <2>2, <2>3, <2>4, <2>5, <2>6 DEF parse_motion_at_bia, Motion, Kept, Decided
<1> QED BY <1>2, <1>3, <1>4, <1>5, <1>6 DEF CaseKept, from_payload

-----------------------------------------------------------------------------
(* What is told of a case that is kept. *)

Dated(case) == case.decision # None => case.decision.date # None

\* What is there now and was not before.
Gained(old, now) == old = None /\ now # None
MotionDecided(old, now) == ~Decided(old) /\ Decided(now)

\* Of a case that is kept a diff tells what was gained, and nothing else.
LEMMA KeptTells ==
    ASSUME NEW old, NEW now, CaseKept(old, now), Dated(old), Dated(now)
    PROVE  /\ case_decided(old, now) <=> Gained(old.decision, now.decision)
           /\ bia_decided(old.appeal, now.appeal)
                <=> Gained(old.appeal.bia_outcome, now.appeal.bia_outcome)
           /\ appeal_filed(old.appeal, now.appeal) <=> ~old.appeal.filed /\ now.appeal.filed
           /\ \A kind : HearingTold(old, now, kind) <=>
                          Gained(old.hearing, now.hearing) /\ kind = "NEW_HEARING"
<1>1. case_decided(old, now) <=> Gained(old.decision, now.decision)
  BY DEF case_decided, Gained, CaseKept, DecisionKept, Dated
<1>2. bia_decided(old.appeal, now.appeal)
        <=> Gained(old.appeal.bia_outcome, now.appeal.bia_outcome)
  BY DEF bia_decided, is_replaced, Gained, CaseKept, AppealKept, Kept
<1>3. appeal_filed(old.appeal, now.appeal) <=> ~old.appeal.filed /\ now.appeal.filed
  BY DEF appeal_filed, is_replaced, CaseKept, AppealKept, Kept
<1>4. ASSUME NEW kind
      PROVE  HearingTold(old, now, kind) <=>
               Gained(old.hearing, now.hearing) /\ kind = "NEW_HEARING"
  <2>1. CASE old.hearing = None BY <2>1 DEF HearingTold, Gained
  <2>2. CASE old.hearing # None
    <3>1. /\ now.hearing # None /\ now.hearing.date = old.hearing.date
          /\ ~is_replaced(old.hearing.time, now.hearing.time)
          /\ \A part \in {"judge", "location", "type", "medium"} :
               ~is_replaced(old.hearing[part], now.hearing[part])
      BY <2>2 DEF CaseKept, HearingKept, Kept, is_replaced
    <3>2. DOMAIN detail_changes(old.hearing, now.hearing) = {} BY <3>1 DEF detail_changes
    <3> QED BY <2>2, <3>1, <3>2 DEF HearingTold, Gained
  <2> QED BY <2>1, <2>2
<1> QED BY <1>1, <1>2, <1>3, <1>4

LEMMA KeptMotion ==
    ASSUME NEW old, NEW now, MotionKept(old, now)
    PROVE  /\ is_decided(old, now) <=> MotionDecided(old, now)
           /\ filed(old, now) => Gained(old, now)
BY DEF is_decided, filed, is_new, is_replaced, MotionDecided, Gained, Decided, MotionKept, Kept

\* How often it has each kind.
LEMMA KeptTimes ==
    ASSUME NEW old, NEW now, CaseKept(old, now), Dated(old), Dated(now)
    PROVE  LET times(kind) == Times(diff(old, now), kind) IN
           /\ times("CASE_DECIDED") = Once(Gained(old.decision, now.decision))
           /\ times("BIA_DECIDED") = Once(Gained(old.appeal.bia_outcome, now.appeal.bia_outcome))
           /\ times("MOTION_DECIDED")
                = Once(MotionDecided(old.motion_to_reopen, now.motion_to_reopen))
                  + Once(MotionDecided(old.motion_at_bia, now.motion_at_bia))
           /\ times("MOTION_FILED")
                <= Once(Gained(old.motion_to_reopen, now.motion_to_reopen))
                   + Once(Gained(old.motion_at_bia, now.motion_at_bia))
           /\ times("APPEAL_FILED") <= Once(~old.appeal.filed /\ now.appeal.filed)
           /\ times("NEW_HEARING") <= Once(Gained(old.hearing, now.hearing))
           /\ \A kind \in {"MOVED_EARLIER", "MOVED_LATER", "HEARING_REMOVED", "DETAILS_CHANGED"} :
                times(kind) = 0
<1> DEFINE head(kind) == Once(IF case_decided(old, now) THEN kind = "CASE_DECIDED"
                              ELSE HearingTold(old, now, kind))
           q1 == bia_decided(old.appeal, now.appeal)
           q2 == is_decided(old.motion_to_reopen, now.motion_to_reopen)
           q3 == is_decided(old.motion_at_bia, now.motion_at_bia)
           q4 == appeal_filed(old.appeal, now.appeal) /\ ~q1
           q5 == filed(old.motion_to_reopen, now.motion_to_reopen)
           q6 == filed(old.motion_at_bia, now.motion_at_bia)
<1>1. \A kind : Times(diff(old, now), kind)
        = head(kind) + Once(q1 /\ kind = "BIA_DECIDED")
          + Once(q2 /\ kind = "MOTION_DECIDED") + Once(q3 /\ kind = "MOTION_DECIDED")
          + Once(q4 /\ kind = "APPEAL_FILED")
          + Once(q5 /\ kind = "MOTION_FILED") + Once(q6 /\ kind = "MOTION_FILED")
  BY DiffTimes
<1>2. /\ case_decided(old, now) <=> Gained(old.decision, now.decision)
      /\ q1 <=> Gained(old.appeal.bia_outcome, now.appeal.bia_outcome)
      /\ q4 => ~old.appeal.filed /\ now.appeal.filed
      /\ \A kind : HearingTold(old, now, kind) <=>
                     Gained(old.hearing, now.hearing) /\ kind = "NEW_HEARING"
  BY KeptTells
<1>3. /\ q2 <=> MotionDecided(old.motion_to_reopen, now.motion_to_reopen)
      /\ q3 <=> MotionDecided(old.motion_at_bia, now.motion_at_bia)
      /\ q5 => Gained(old.motion_to_reopen, now.motion_to_reopen)
      /\ q6 => Gained(old.motion_at_bia, now.motion_at_bia)
  BY KeptMotion DEF CaseKept
<1>4. \A kind : /\ head(kind) \in {0, 1}
                /\ kind \notin {"CASE_DECIDED", "NEW_HEARING"} => head(kind) = 0
  BY <1>2 DEF Once
<1>5. /\ head("CASE_DECIDED") = Once(Gained(old.decision, now.decision))
      /\ head("NEW_HEARING") <= Once(Gained(old.hearing, now.hearing))
  <2>1. /\ ~HearingTold(old, now, "CASE_DECIDED")
        /\ HearingTold(old, now, "NEW_HEARING") <=> Gained(old.hearing, now.hearing)
    BY <1>2
  <2>2. CASE case_decided(old, now) BY <1>2, <2>2 DEF Once
  <2>3. CASE ~case_decided(old, now) BY <1>2, <2>1, <2>3 DEF Once
  <2> QED BY <2>2, <2>3
<1> HIDE DEF head, q1, q2, q3, q4, q5, q6
<1>6. Times(diff(old, now), "CASE_DECIDED") = Once(Gained(old.decision, now.decision))
  BY <1>1, <1>5 DEF Once
<1>7. Times(diff(old, now), "BIA_DECIDED")
        = Once(Gained(old.appeal.bia_outcome, now.appeal.bia_outcome))
  BY <1>1, <1>2, <1>4 DEF Once
<1>8. Times(diff(old, now), "MOTION_DECIDED")
        = Once(MotionDecided(old.motion_to_reopen, now.motion_to_reopen))
          + Once(MotionDecided(old.motion_at_bia, now.motion_at_bia))
  BY <1>1, <1>3, <1>4 DEF Once
<1>9. Times(diff(old, now), "MOTION_FILED")
        <= Once(Gained(old.motion_to_reopen, now.motion_to_reopen))
           + Once(Gained(old.motion_at_bia, now.motion_at_bia))
  BY <1>1, <1>3, <1>4 DEF Once
<1>10. Times(diff(old, now), "APPEAL_FILED") <= Once(~old.appeal.filed /\ now.appeal.filed)
  BY <1>1, <1>2, <1>4 DEF Once
<1>11. Times(diff(old, now), "NEW_HEARING") <= Once(Gained(old.hearing, now.hearing))
  <2>1. Times(diff(old, now), "NEW_HEARING") = head("NEW_HEARING") BY <1>1, <1>4 DEF Once
  <2> QED BY <1>5, <2>1
<1>12. \A kind \in {"MOVED_EARLIER", "MOVED_LATER", "HEARING_REMOVED", "DETAILS_CHANGED"} :
         Times(diff(old, now), kind) = 0
  BY <1>1, <1>4 DEF Once
<1> QED BY <1>6, <1>7, <1>8, <1>9, <1>10, <1>11, <1>12

-----------------------------------------------------------------------------
(* The invariant of the counts. *)

\* The counts of ReportedOnce, part by part; a decision may have hidden the hearing.
Counted(old, now, told) ==
    /\ told["CASE_DECIDED"] = Once(Gained(old.decision, now.decision))
    /\ told["BIA_DECIDED"] = Once(Gained(old.appeal.bia_outcome, now.appeal.bia_outcome))
    /\ told["MOTION_DECIDED"]
         = Once(MotionDecided(old.motion_to_reopen, now.motion_to_reopen))
           + Once(MotionDecided(old.motion_at_bia, now.motion_at_bia))
    /\ told["MOTION_FILED"]
         <= Once(Gained(old.motion_to_reopen, now.motion_to_reopen))
            + Once(Gained(old.motion_at_bia, now.motion_at_bia))
    /\ told["APPEAL_FILED"] <= Once(~old.appeal.filed /\ now.appeal.filed)
    /\ told["NEW_HEARING"] <= Once(Gained(old.hearing, now.hearing))
    /\ \A kind \in {"MOVED_EARLIER", "MOVED_LATER", "HEARING_REMOVED", "DETAILS_CHANGED"} :
         told[kind] = 0

OnceInv ==
    /\ seen = None => \A kind \in ChangeKind : reported[kind] = 0
    /\ amended = 0 /\ seen # None =>
         /\ Dated(first) /\ Dated(seen)
         /\ CaseKept(first, seen)
         /\ CaseKept(seen, from_payload(page))
         /\ Counted(first, seen, reported)

\* What was counted up to one poll and what the next one tells add up.
LEMMA CountsAdd ==
    ASSUME NEW a, NEW b, NEW c, CaseKept(a, b), CaseKept(b, c), Dated(a), Dated(b), Dated(c),
           NEW told \in [ChangeKind -> Nat], Counted(a, b, told), NEW sum,
           \A kind \in ChangeKind : sum[kind] = told[kind] + Times(diff(b, c), kind)
    PROVE  Counted(a, c, sum)
<1> DEFINE times(kind) == Times(diff(b, c), kind)
<1>1. /\ times("CASE_DECIDED") = Once(Gained(b.decision, c.decision))
      /\ times("BIA_DECIDED") = Once(Gained(b.appeal.bia_outcome, c.appeal.bia_outcome))
      /\ times("MOTION_DECIDED")
           = Once(MotionDecided(b.motion_to_reopen, c.motion_to_reopen))
             + Once(MotionDecided(b.motion_at_bia, c.motion_at_bia))
      /\ times("MOTION_FILED")
           <= Once(Gained(b.motion_to_reopen, c.motion_to_reopen))
              + Once(Gained(b.motion_at_bia, c.motion_at_bia))
      /\ times("APPEAL_FILED") <= Once(~b.appeal.filed /\ c.appeal.filed)
      /\ times("NEW_HEARING") <= Once(Gained(b.hearing, c.hearing))
      /\ \A kind \in {"MOVED_EARLIER", "MOVED_LATER", "HEARING_REMOVED", "DETAILS_CHANGED"} :
           times(kind) = 0
  BY KeptTimes
<1>2. \A kind \in ChangeKind : /\ sum[kind] = told[kind] + times(kind) /\ told[kind] \in Nat
                               /\ times(kind) \in Nat
  BY DiffReports, TimesCount
<1> HIDE DEF times
<1>3. ASSUME NEW x, NEW y, NEW z, x # None => y # None, y # None => z # None
      PROVE  Once(Gained(x, z)) = Once(Gained(x, y)) + Once(Gained(y, z))
  BY <1>3 DEF Once, Gained
<1>4. ASSUME NEW x, NEW y, NEW z, MotionKept(x, y), MotionKept(y, z)
      PROVE  /\ Once(MotionDecided(x, z)) = Once(MotionDecided(x, y)) + Once(MotionDecided(y, z))
             /\ Once(Gained(x, z)) = Once(Gained(x, y)) + Once(Gained(y, z))
  BY <1>4 DEF Once, MotionDecided, Gained, Decided, MotionKept
<1>5. \A x, y : Once(MotionDecided(x, y)) \in Nat /\ Once(Gained(x, y)) \in Nat BY DEF Once
<1>6. /\ MotionKept(a.motion_to_reopen, b.motion_to_reopen)
      /\ MotionKept(b.motion_to_reopen, c.motion_to_reopen)
      /\ MotionKept(a.motion_at_bia, b.motion_at_bia)
      /\ MotionKept(b.motion_at_bia, c.motion_at_bia)
  BY DEF CaseKept
<1>7. sum["CASE_DECIDED"] = Once(Gained(a.decision, c.decision))
  <2>1. /\ a.decision # None => b.decision # None
        /\ b.decision # None => c.decision # None
    BY DEF CaseKept, DecisionKept
  <2>2. Once(Gained(a.decision, c.decision))
          = Once(Gained(a.decision, b.decision)) + Once(Gained(b.decision, c.decision))
    BY <1>3, <2>1
  <2> QED BY <1>1, <1>2, <2>2 DEF Counted, ChangeKind
<1>8. sum["BIA_DECIDED"] = Once(Gained(a.appeal.bia_outcome, c.appeal.bia_outcome))
  <2>1. /\ a.appeal.bia_outcome # None => b.appeal.bia_outcome # None
        /\ b.appeal.bia_outcome # None => c.appeal.bia_outcome # None
    BY DEF CaseKept, AppealKept, Kept
  <2>2. Once(Gained(a.appeal.bia_outcome, c.appeal.bia_outcome))
          = Once(Gained(a.appeal.bia_outcome, b.appeal.bia_outcome))
            + Once(Gained(b.appeal.bia_outcome, c.appeal.bia_outcome))
    BY <1>3, <2>1
  <2> QED BY <1>1, <1>2, <2>2 DEF Counted, ChangeKind
<1>9. /\ sum["MOTION_DECIDED"]
           = Once(MotionDecided(a.motion_to_reopen, c.motion_to_reopen))
             + Once(MotionDecided(a.motion_at_bia, c.motion_at_bia))
      /\ sum["MOTION_FILED"]
           <= Once(Gained(a.motion_to_reopen, c.motion_to_reopen))
              + Once(Gained(a.motion_at_bia, c.motion_at_bia))
  BY <1>1, <1>2, <1>4, <1>5, <1>6 DEF Counted, ChangeKind
<1>10. sum["APPEAL_FILED"] <= Once(~a.appeal.filed /\ c.appeal.filed)
  BY <1>1, <1>2 DEF Counted, Once, CaseKept, AppealKept, ChangeKind
<1>11. sum["NEW_HEARING"] <= Once(Gained(a.hearing, c.hearing))
  <2>1. /\ a.hearing # None => b.hearing # None
        /\ b.hearing # None => c.hearing # None
    BY DEF CaseKept, HearingKept
  <2>2. Once(Gained(a.hearing, c.hearing))
          = Once(Gained(a.hearing, b.hearing)) + Once(Gained(b.hearing, c.hearing))
    BY <1>3, <2>1
  <2> QED BY <1>1, <1>2, <1>5, <2>2 DEF Counted, ChangeKind
<1>12. \A kind \in {"MOVED_EARLIER", "MOVED_LATER", "HEARING_REMOVED", "DETAILS_CHANGED"} :
         sum[kind] = 0
  BY <1>1, <1>2 DEF Counted, ChangeKind
<1> QED BY <1>7, <1>8, <1>9, <1>10, <1>11, <1>12 DEF Counted

\* At first nothing was gained and nothing told.
LEMMA CountsStart ==
    ASSUME NEW case, NEW told, \A kind \in ChangeKind : told[kind] = 0
    PROVE  Counted(case, case, told)
BY DEF Counted, Once, Gained, MotionDecided, ChangeKind

\* An entered field is kept, and so are the others.
LEMMA EnterKeeps == ASSUME Readable, Enter PROVE PageKept(page, page')
<1>1. PICK entry \in scope : \E text \in entry.texts :
        LET raw == page[entry.section][entry.field] IN
        (Reads(raw) = None \/ Reads(text) = Reads(raw)) /\ SetField(entry, text)
  BY DEF Enter
<1> PICK text \in entry.texts :
       LET raw == page[entry.section][entry.field] IN
       (Reads(raw) = None \/ Reads(text) = Reads(raw)) /\ SetField(entry, text)
  BY <1>1
<1>2. text # <<>> /\ Timely(entry.section, entry.field, text)
  BY ScopesAssumption DEF Readable
<1>3. \A section \in DOMAIN Fields : \A field \in Fields[section] :
        page'[section][field] = IF section = entry.section /\ field = entry.field
                                THEN text ELSE page[section][field]
  BY <1>2, FieldSet DEF Readable
<1>4. ASSUME NEW section \in DOMAIN Fields, NEW field \in Fields[section]
      PROVE  RawKept(page[section][field], page'[section][field])
  <2>1. CASE section = entry.section /\ field = entry.field
    <3>1. page'[section][field] = text BY <1>3, <2>1
    <3>2. Reads(page[section][field]) = None \/ Reads(text) = Reads(page[section][field])
      BY <2>1
    <3> QED BY <1>2, <3>1, <3>2 DEF RawKept, Kept, Truthy
  <2>2. CASE ~(section = entry.section /\ field = entry.field)
    <3>1. page'[section][field] = page[section][field] BY <1>3, <2>2
    <3> QED BY <3>1 DEF RawKept, Kept
  <2> QED BY <2>1, <2>2
<1> QED BY <1>4 DEF PageKept

LEMMA OnceInit == Init => OnceInv
BY DEF Init, OnceInv

LEMMA OnceStep ==
    ASSUME NoneIsNoRecord
    PROVE  OnceInv /\ Readable /\ TypeOK /\ [Next]_vars => OnceInv'
<1> SUFFICES ASSUME OnceInv, Readable, TypeOK, [Next]_vars PROVE OnceInv' OBVIOUS
<1>1. CASE Enter
  <2>1. CaseKept(from_payload(page), from_payload(page')) BY <1>1, EnterKeeps, PayloadKept
  <2>2. UNCHANGED <<seen, first, reported, amended>> BY <1>1 DEF Enter
  <2>3. ASSUME amended = 0, seen # None PROVE CaseKept(seen, from_payload(page'))
    <3>1. CaseKept(seen, from_payload(page)) BY <2>3 DEF OnceInv
    <3> QED BY <2>1, <3>1, CaseKeptOn
  <2> QED BY <2>2, <2>3 DEF OnceInv
<1>2. CASE Amend
  <2>1. amended' # 0 /\ UNCHANGED <<seen, reported>> BY <1>2 DEF Amend, TypeOK
  <2> QED BY <2>1 DEF OnceInv
<1>3. CASE FirstPoll
  <2> DEFINE now == from_payload(page)
  <2>1. seen' = now /\ first' = now /\ UNCHANGED <<page, reported>> /\ seen = None
    BY <1>3 DEF FirstPoll
  <2>2. \A kind \in ChangeKind : reported[kind] = 0 BY <2>1 DEF OnceInv
  <2>3. Dated(now) BY DecisionHasDate DEF Dated
  <2> HIDE DEF now
  <2>4. CaseKept(now, now) /\ Counted(now, now, reported)
    BY <2>2, CaseKeptItself, CountsStart
  <2>5. from_payload(page)' = now BY <2>1 DEF now
  <2> QED BY <2>1, <2>2, <2>3, <2>4, <2>5 DEF OnceInv
<1>4. CASE Poll
  <2> DEFINE now == from_payload(page)
  <2>1. /\ seen # None /\ seen' = now /\ UNCHANGED <<page, first, amended>>
        /\ reported' = [kind \in ChangeKind |-> reported[kind] + Times(diff(seen, now), kind)]
    BY <1>4 DEF Poll
  <2>2. now # None BY RecordsAreSome
  <2>3. Dated(now) BY DecisionHasDate DEF Dated
  <2>4. from_payload(page)' = now BY <2>1
  <2> HIDE DEF now
  <2>5. ASSUME amended = 0
        PROVE  /\ Dated(first) /\ CaseKept(first, now) /\ CaseKept(now, now)
               /\ Counted(first, now, reported')
    <3>1. /\ Dated(first) /\ Dated(seen) /\ CaseKept(first, seen) /\ CaseKept(seen, now)
          /\ Counted(first, seen, reported)
      BY <2>1, <2>5 DEF OnceInv, now
    <3>2. reported \in [ChangeKind -> Nat] BY DEF TypeOK
    <3>3. CaseKept(first, now) /\ CaseKept(now, now) BY <3>1, CaseKeptOn, CaseKeptItself
    <3>4. Counted(first, now, reported') BY <2>1, <2>3, <3>1, <3>2, CountsAdd
    <3> QED BY <3>1, <3>3, <3>4
  <2> QED BY <2>1, <2>2, <2>3, <2>4, <2>5 DEF OnceInv
<1>5. CASE UNCHANGED vars BY <1>5 DEF vars, OnceInv
<1> QED BY <1>1, <1>2, <1>3, <1>4, <1>5 DEF Next

\* The number of the two motions of which something holds.
LEMMA OfTwo ==
    ASSUME NEW chosen \in SUBSET (1..2)
    PROVE  Cardinality(chosen) = Once(1 \in chosen) + Once(2 \in chosen)
<1>1. \A i \in chosen : i = 1 \/ i = 2
  <2>1. \A i \in 1..2 : i = 1 \/ i = 2 OBVIOUS
  <2> QED BY <2>1
<1>2. Cardinality({}) = 0 /\ Cardinality({1}) = 1 /\ Cardinality({2}) = 1 /\ IsFiniteSet({1})
  BY FS_EmptySet, FS_Singleton
<1>3. Cardinality({1} \cup {2}) = 2 BY <1>2, FS_AddElement
<1>4. CASE 1 \in chosen /\ 2 \in chosen
  <2>1. chosen = {1} \cup {2} BY <1>1, <1>4
  <2> QED BY <1>3, <1>4, <2>1 DEF Once
<1>5. CASE 1 \in chosen /\ 2 \notin chosen
  <2>1. chosen = {1} BY <1>1, <1>5
  <2> QED BY <1>2, <1>5, <2>1 DEF Once
<1>6. CASE 1 \notin chosen /\ 2 \in chosen
  <2>1. chosen = {2} BY <1>1, <1>6
  <2> QED BY <1>2, <1>6, <2>1 DEF Once
<1>7. CASE 1 \notin chosen /\ 2 \notin chosen
  <2>1. chosen = {} BY <1>1, <1>7
  <2> QED BY <1>2, <1>7, <2>1 DEF Once
<1> QED BY <1>4, <1>5, <1>6, <1>7

\* As long as ACIS only enters what was missing, nothing is told twice.
THEOREM NothingToldTwice == ASSUME NoneIsNoRecord PROVE Spec => []ReportedOnce
<1>1. OnceInv /\ TypeOK => ReportedOnce
  <2> SUFFICES ASSUME OnceInv, TypeOK, amended = 0, seen # None PROVE ReportedOnce
    BY DEF ReportedOnce
  <2>1. /\ Dated(first) /\ Dated(seen) /\ CaseKept(first, seen) /\ Counted(first, seen, reported)
    BY DEF OnceInv
  <2>2. /\ case_decided(first, seen) <=> Gained(first.decision, seen.decision)
        /\ bia_decided(first.appeal, seen.appeal)
             <=> Gained(first.appeal.bia_outcome, seen.appeal.bia_outcome)
        /\ appeal_filed(first.appeal, seen.appeal) <=> ~first.appeal.filed /\ seen.appeal.filed
    BY <2>1, KeptTells
  <2>3. Cardinality(NewlyDecided) = Once(MotionDecided(first.motion_to_reopen, seen.motion_to_reopen))
                               + Once(MotionDecided(first.motion_at_bia, seen.motion_at_bia))
    <3>1. /\ 1 \in NewlyDecided <=> MotionDecided(first.motion_to_reopen, seen.motion_to_reopen)
          /\ 2 \in NewlyDecided <=> MotionDecided(first.motion_at_bia, seen.motion_at_bia)
      BY SlotsAre DEF NewlyDecided, MotionDecided
    <3>2. NewlyDecided \in SUBSET (1..2) BY DEF NewlyDecided
    <3> QED BY <3>1, <3>2, OfTwo DEF Once
  <2>4. Cardinality(NewlyFiled) = Once(Gained(first.motion_to_reopen, seen.motion_to_reopen))
                              + Once(Gained(first.motion_at_bia, seen.motion_at_bia))
    <3>1. /\ 1 \in NewlyFiled <=> Gained(first.motion_to_reopen, seen.motion_to_reopen)
          /\ 2 \in NewlyFiled <=> Gained(first.motion_at_bia, seen.motion_at_bia)
      BY SlotsAre DEF NewlyFiled, Gained
    <3>2. NewlyFiled \in SUBSET (1..2) BY DEF NewlyFiled
    <3> QED BY <3>1, <3>2, OfTwo DEF Once
  <2>5. reported["NEW_HEARING"] <= 1
    <3>1. /\ reported["NEW_HEARING"] <= Once(Gained(first.hearing, seen.hearing))
          /\ Once(Gained(first.hearing, seen.hearing)) \in {0, 1}
      BY <2>1 DEF Counted, Once
    <3>2. reported["NEW_HEARING"] \in Nat BY DEF TypeOK, ChangeKind
    <3> QED BY <3>1, <3>2
  <2>6. /\ reported["CASE_DECIDED"] = Once(case_decided(first, seen))
        /\ reported["BIA_DECIDED"] = Once(bia_decided(first.appeal, seen.appeal))
        /\ reported["APPEAL_FILED"] <= Once(appeal_filed(first.appeal, seen.appeal))
    BY <2>1, <2>2 DEF Counted, Once
  <2> QED BY <2>1, <2>3, <2>4, <2>5, <2>6 DEF ReportedOnce, Counted, Once
<1>2. IInv => TypeOK BY DEF IInv
<1>3. Init => OnceInv /\ Readable /\ IInv BY OnceInit, ReadableInit, InitInvariant
<1>4. OnceInv /\ Readable /\ IInv /\ [Next]_vars => (OnceInv /\ Readable /\ IInv)'
  BY <1>2, OnceStep, ReadableStep, StepInvariant
<1> QED BY <1>1, <1>2, <1>3, <1>4, PTL DEF Spec
=============================================================================
