----------------------------- MODULE MCCaseDiff -----------------------------
(* Instances of CaseDiff for TLC. *)
EXTENDS CaseDiff

MCBlank == [section \in DOMAIN Fields |-> [field \in Fields[section] |-> <<>>]]

In(section, field, texts) == [section |-> section, field |-> field, texts |-> texts]
Dates == {<<1, "day">>, <<2, "day">>}
Set == {<<"1", "number">>}
Plain(codes) == {<<code, "plain">> : code \in codes}

Hearing ==
    {In("Schedule", "AdjDate", Dates \cup {<<2, "day and time">>}),
     In("Schedule", "AdjTime", {<<1, "12 hours">>, <<2, "24 hours">>, <<Unread, "noon">>}),
     In("Schedule", "HearingLocationAddress",
        {<< <<"court", "street">>, "pipes">>, << <<"", "avenue">>, "pipes">>}),
     In("Proceeding", "CompDate", Dates)}

Appeal ==
    {In("Data", "AppealFiled", Set),
     In("Appeal", "FiledDate", Dates),
     In("Appeal", "BIADecision", Plain({"DIS", "REM"}) \cup {<<Unread, "blanks">>}),
     In("Appeal", "BIADecisionDate", Dates \cup {<<Unread, "soon">>})}

Reopen ==
    {In("Data", "ReopenExists", Set),
     In("Reopen", "MotionReceivedDate", Dates),
     In("Reopen", "CompDate", Dates),
     In("Reopen", "Decision", Plain({"G", "D"}))}

MTR ==
    {In("Data", "MTR_BIA_Appeal", Set),
     In("MTR", "MTRAppealFiledDate", Dates),
     In("MTR", "MTRDecisionDate", Dates),
     In("MTR", "MTRDecision", Plain({"GRN"}) \cup {<<"GRN", "lower case">>})}

MCScopes == {Hearing, Appeal, Reopen, MTR}
=============================================================================
