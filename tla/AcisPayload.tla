---------------------------- MODULE AcisPayload ----------------------------
(***************************************************************************)
(* What an ACIS response says: Outcome.from_payload (acis-core, outcome.py) *)
(* and raise_for_outcome (acis-browser, browser.py).                        *)
(*                                                                          *)
(* A payload is reduced to what these look at: its Data section ("none" if  *)
(* it is not an object, "case" if it has a name and a case id, "partial" if *)
(* not) and the pinned fragments its message contains.                      *)
(***************************************************************************)
EXTENDS Naturals, Sequences

Fragments == {"Invalid Captcha Provided", "Case information is unavailable",
              "No case info found", "Invalid nationality code"}
Payloads == [data : {"none", "partial", "case"}, message : SUBSET Fragments]

Outcome == {"OK", "CAPTCHA_REJECTED", "UNAVAILABLE", "NOT_FOUND",
            "INVALID_NATIONALITY", "OTHER"}

MESSAGES == <<
    <<"Invalid Captcha Provided", "CAPTCHA_REJECTED">>,
    <<"Case information is unavailable", "UNAVAILABLE">>,
    <<"No case info found", "NOT_FOUND">>,
    <<"Invalid nationality code", "INVALID_NATIONALITY">> >>

\* The first fragment of MESSAGES that the message contains decides.
FromPayload(payload) ==
    LET hits == {i \in 1..Len(MESSAGES) : MESSAGES[i][1] \in payload.message} IN
    IF payload.data = "case" THEN "OK"
    ELSE IF payload.data = "partial" \/ hits = {} THEN "OTHER"
    ELSE MESSAGES[CHOOSE i \in hits : \A j \in hits : i <= j][2]

\* The exception raise_for_outcome raises, "none" for a success.
RaiseForOutcome(outcome) ==
    CASE outcome = "OK" -> "none"
      [] outcome = "CAPTCHA_REJECTED" -> "CaptchaError"
      [] outcome = "NOT_FOUND" -> "CaseNotFoundError"
      [] outcome = "INVALID_NATIONALITY" -> "InvalidNationalityError"
      [] outcome = "UNAVAILABLE" -> "CaseUnavailableError"
      [] OTHER -> "UpstreamError"
=============================================================================
