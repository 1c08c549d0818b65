------------------------------ MODULE MCShell -------------------------------
(* The instance of Shell that TLC checks: every line of at most three       *)
(* tokens, and longer ones that combine the operators.                      *)
EXTENDS Shell

Token == {"echo", "|", "&", ";", "<", "(", ")"}
Short == UNION {[1 .. n -> Token] : n \in 0 .. 3}

Longer == {
    <<"cd">>, <<"cd", "f">>,
    <<"echo", "|", "cat", ";", "echo">>,
    <<"echo", "|", "(", "cat", "&", ")">>,
    <<"echo", "|", "cat", "|", "cat">>,
    <<"(", "echo", ";", "echo", ")", "|", "cat">>,
    <<"cat", "|", "cat", "&", ";", "echo">>,
    <<"cat", "<", "f", ">", "g", "|", "cat", ">>", "g">>,
    <<"echo", "|", "cat", "<", "none">>,
    <<"(", "none", "|", "cat", ")", "&">>,
    <<"echo", "f", "g", "f">>}

Pairs == {
    << <<"echo", "&">>, <<"echo", "|", "cat">> >>,
    << <<"cat", "|", "cat", "&">>, <<"echo">> >>}

MCScripts == {<<line>> : line \in Short \cup Longer} \cup Pairs
MCLineName == <<"first", "second">>
=============================================================================
