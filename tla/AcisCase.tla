------------------------------ MODULE AcisCase ------------------------------
(***************************************************************************)
(* The case that an ACIS payload tells of: Case.from_payload and the field  *)
(* parsers and code tables it uses (acis-core, case.py).                    *)
(*                                                                          *)
(* A raw field of a payload is <<>> if it is missing, null or empty, and    *)
(* otherwise a pair: what the parser of its field reads in it (Unread if    *)
(* the text is blank or in no known format) and its spelling: a code in     *)
(* lower case with blanks around it, a date with a time behind it, one of   *)
(* the formats of a time.  A missing section is one of missing fields.      *)
(* Dates and times are numbers, in their order; the address of a hearing is *)
(* the sequence of its segments; None is Python's.  The name, which nothing *)
(* is derived from, is left out.                                            *)
(***************************************************************************)
EXTENDS Integers, Sequences

CONSTANTS None, Unread

\* Python's truth of a raw field: a text that nothing is read in is true too.
Truthy(raw) == raw # <<>>

Reads(raw) == IF raw = <<>> \/ raw[1] = Unread THEN None ELSE raw[1]

parse_date(raw) == Reads(raw)
parse_time(raw) == Reads(raw)
Text(raw) == Reads(raw)

\* Blank segments are dropped, then the first if it is not the only one.
parse_hearing_location(raw) ==
    LET segments == IF Reads(raw) = None THEN <<>>
                    ELSE SelectSeq(Reads(raw), LAMBDA part : part # "") IN
    IF segments = <<>> THEN None
    ELSE IF Len(segments) > 1 THEN Tail(segments) ELSE segments

Code(raw) == IF Reads(raw) = None THEN "" ELSE raw[1]

hearing_medium(raw) ==
    CASE Code(raw) \in {"A", "C", "T", "W"} -> "internet"
      [] Code(raw) \in {"P", "V"} -> "in_person"
      [] OTHER -> None

hearing_type(raw) ==
    CASE Code(raw) = "M" -> "master" [] Code(raw) = "I" -> "individual" [] OTHER -> None

-----------------------------------------------------------------------------
(* Decision tables. *)

\* _DECISIONS: one arm per override, then the fallback of the code.
Decisions(code, case_type) ==
    CASE code = "D" -> ( CASE case_type = "DEP" -> "deportation_ordered"
                           [] case_type = "AOC" -> "application_denied"
                           [] case_type = "NAC" -> "adjustment_denied"
                           [] case_type = "WHO" -> "withholding_denied"
                           [] case_type = "CDR" -> "case_dismissed"
                           [] OTHER -> None )
      [] code = "V" -> IF case_type \in {"DEP", "RMV"} THEN "voluntary_departure_granted" ELSE "vacated"
      [] code = "R" -> IF case_type \in {"DEP", "RMV"} THEN "relief_granted" ELSE "status_rescinded"
      [] code \in {"T", "I"} -> "terminated"
      [] code = "A" -> IF case_type = "EXC" THEN "admitted" ELSE "affirmed"
      [] code = "E" -> IF case_type \in {"RMV", "AOC"} THEN "ina_withholding_granted" ELSE "excluded"
      [] code = "O" -> "proceedings_closed"
      [] code = "S" -> "sustained"
      [] code = "X" -> "removal_ordered"
      [] code = "G" -> IF case_type = "RMV" THEN "cat_deferral_granted" ELSE "relief_granted"
      [] code = "W" -> "application_withdrawn"
      [] code = "J" -> "transferred_to_bia"
      [] code = "C" -> "venue_changed"
      [] code = "Q" -> IF case_type = "RMV" THEN "removal_cancelled" ELSE "deportation_suspended"
      [] code = "Z" -> "cat_withholding_granted"
      [] code = "H" -> "cat_deferral_granted"
      [] code = "U" -> "dismissal_ordered"

DecisionCodes == {"D", "V", "R", "T", "I", "A", "E", "O", "S", "X", "G", "W", "J", "C", "Q",
                  "Z", "H", "U"}

OtherComp(code) ==
    CASE code \in {"K", "A", "O", "Y", "M", "H", "X"} -> "admin_closed"
      [] code = "C" -> "venue_changed"
      [] code = "T" -> "transferred_to_bia"
      [] code = "P" -> "tps_granted"
      [] code = "F" -> "failure_to_prosecute"
      [] OTHER -> None

decision_outcome(payload) ==
    LET code == Code(payload.Proceeding.DecisionCode)
        case_type == Code(payload.Proceeding.CaseType) IN
    CASE ~Truthy(payload.Data.OSC_Date) -> "bond_contact_court"
      [] Truthy(payload.Data.OSC_Date) /\ case_type \in {"CFR", "RFR"} ->
           IF code = "L" THEN "proceedings_closed" ELSE "decision_issued"
      [] OTHER -> IF code \in DecisionCodes THEN Decisions(code, case_type)
                  ELSE OtherComp(Code(payload.Proceeding.OtherComp))

\* _BIA_OUTCOMES; "completed" for a code that it does not have
BiaOutcomes(code) ==
    CASE code \in {"D30", "DIS", "DVD", "DSO", "DUT", "SAD", "SED", "SND", "SOD", "SUD", "SAF",
                   "SAV", "SDG"} -> "dismissed"
      [] code \in {"ABC", "ADM", "APD", "CON", "CTM", "DED", "TPS"} -> "admin_closed"
      [] code \in {"WDL", "WPD"} -> "withdrawn"
      [] code \in {"CFV", "SUS"} -> "sustained"
      [] code \in {"REM", "GRN"} -> "remanded"
      [] code = "DNS" -> "denied"
      [] code \in {"GRS", "CPG", "CFG"} -> "granted"
      [] code \in {"TER", "TPD"} -> "terminated"
      [] code = "REJ" -> "rejected"
      [] OTHER -> "completed"

bia_outcome(raw, for_motion) ==
    CASE Code(raw) = "" -> None
      [] for_motion /\ Code(raw) = "GRN" -> "granted"
      [] for_motion /\ Code(raw) = "DEN" -> "denied"
      [] OTHER -> BiaOutcomes(Code(raw))

reopen_outcome(raw) ==
    CASE Code(raw) = "G" -> "granted"
      [] Code(raw) = "D" -> "denied"
      [] Code(raw) = "X" -> "other"
      [] Code(raw) = "P" -> "unrecognized"
      [] Code(raw) = "J" -> "transferred_to_bia"
      [] OTHER -> "completed"

motion_type(raw) ==
    CASE Code(raw) = "REC" -> "reconsider" [] Code(raw) = "REI" -> "reinstate"
      [] OTHER -> "reopen"

appeal_type(raw) ==
    CASE Code(raw) = "CASE APPEAL" -> "case"
      [] Code(raw) = "CIRCUIT COURT REMAND" -> "circuit_court_remand"
      [] OTHER -> None

-----------------------------------------------------------------------------
(* The sections of the payload. *)

Fields ==
    [Data |-> {"OSC_Date", "ReopenExists", "MTR_BIA_Appeal", "MTR_BIA_Type",
               "AppealFiled", "PendingAtBIA"},
     Schedule |-> {"AdjDate", "AdjTime", "CalType", "HearingMedium", "IJ_Name",
                   "HearingLocationAddress"},
     Proceeding |-> {"CompDate", "DecisionCode", "CaseType", "OtherComp", "DateAppealDue"},
     Reopen |-> {"MotionReceivedDate", "CompDate", "Decision"},
     MTR |-> {"MTRAppealFiledDate", "MTRDecisionDate", "MTRDecision"},
     Appeal |-> {"FiledDate", "AlienBriefDue", "AppealType", "BIADecision",
                 "BIADecisionDate"}]

parse_hearing(schedule) ==
    LET date == parse_date(schedule.AdjDate) IN
    IF date = None THEN None
    ELSE [date |-> date, time |-> parse_time(schedule.AdjTime),
          type |-> hearing_type(schedule.CalType),
          medium |-> hearing_medium(schedule.HearingMedium),
          judge |-> Text(schedule.IJ_Name),
          location |-> parse_hearing_location(schedule.HearingLocationAddress)]

\* The code and the case type stay raw.
parse_decision(payload) ==
    LET date == parse_date(payload.Proceeding.CompDate) IN
    IF date = None THEN None
    ELSE [date |-> date, outcome |-> decision_outcome(payload),
          code |-> payload.Proceeding.DecisionCode, case_type |-> payload.Proceeding.CaseType]

Motion(outcome, type, filed, decided) ==
    [outcome |-> outcome, type |-> type, filed |-> filed, decided |-> decided]

parse_motion_to_reopen(payload) ==
    LET filed == parse_date(payload.Reopen.MotionReceivedDate)
        completed == parse_date(payload.Reopen.CompDate) IN
    CASE ~Truthy(payload.Data.ReopenExists) -> None
      [] Truthy(payload.Data.ReopenExists) /\ completed = None ->
           Motion("pending", "reopen", filed, None)
      [] OTHER -> Motion(reopen_outcome(payload.Reopen.Decision), "reopen", filed, completed)

\* Mutant: the outcome alone makes the motion decided.
parse_motion_at_biaUndated(payload) ==
    LET type == motion_type(payload.Data.MTR_BIA_Type)
        filed == parse_date(payload.MTR.MTRAppealFiledDate)
        decided == parse_date(payload.MTR.MTRDecisionDate)
        outcome == bia_outcome(payload.MTR.MTRDecision, TRUE) IN
    CASE ~Truthy(payload.Data.MTR_BIA_Appeal) -> None
      [] Truthy(payload.Data.MTR_BIA_Appeal) /\ outcome = None ->
           Motion("pending", type, filed, None)
      [] OTHER -> Motion(outcome, type, filed, decided)
parse_motion_at_bia(payload) ==
    LET type == motion_type(payload.Data.MTR_BIA_Type)
        filed == parse_date(payload.MTR.MTRAppealFiledDate)
        decided == parse_date(payload.MTR.MTRDecisionDate)
        outcome == bia_outcome(payload.MTR.MTRDecision, TRUE) IN
    CASE ~Truthy(payload.Data.MTR_BIA_Appeal) -> None
      [] Truthy(payload.Data.MTR_BIA_Appeal) /\ (decided = None \/ outcome = None) ->
           Motion("pending", type, filed, None)
      [] OTHER -> Motion(outcome, type, filed, decided)

parse_appeal(payload) ==
    [filed |-> Truthy(payload.Data.AppealFiled),
     filed_date |-> parse_date(payload.Appeal.FiledDate),
     due |-> parse_date(payload.Proceeding.DateAppealDue),
     brief_due |-> parse_date(payload.Appeal.AlienBriefDue),
     type |-> appeal_type(payload.Appeal.AppealType),
     pending_at_bia |-> Truthy(payload.Data.PendingAtBIA),
     bia_outcome |-> bia_outcome(payload.Appeal.BIADecision, FALSE),
     bia_decision_date |-> parse_date(payload.Appeal.BIADecisionDate)]

from_payload(payload) ==
    [hearing |-> parse_hearing(payload.Schedule),
     decision |-> parse_decision(payload),
     appeal |-> parse_appeal(payload),
     motion_to_reopen |-> parse_motion_to_reopen(payload),
     motion_at_bia |-> parse_motion_at_bia(payload)]
=============================================================================
