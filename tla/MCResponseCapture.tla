------------------------- MODULE MCResponseCapture -------------------------
(* Instances of ResponseCapture for TLC. *)
EXTENDS ResponseCapture

Says(fragment) == Body("object", [data |-> "none", message |-> {fragment}])

\* A case, two refusals, a payload of no known kind, and no payload at all.
MCBodies == {
    Body("object", [data |-> "case", message |-> {}]),
    Says("Invalid Captcha Provided"),
    Says("No case info found"),
    Body("object", [data |-> "partial", message |-> {"No case info found"}]),
    Body("not_json", Blank) }
=============================================================================
