----------------------------- MODULE MCCommand -----------------------------
(* Values for the constants of Command that a cfg cannot write.            *)
EXTENDS Command

CONSTANTS p, q, report

Token(scope) == [scope |-> scope, grant |-> Before]
MCTokens == {Token("read_only"), Token("m1_write"), Absent}

MCKeys == {Absent, Unreadable}

Config(state, provider, destination) ==
    [state |-> state, provider |-> provider, destination |-> destination]
MCConfigurations ==
    {Config("usable", "gmail", report), Config("usable", "gmail", None),
     Config("usable", "unknown", None), Config("invalid", "gmail", None)}
=============================================================================
