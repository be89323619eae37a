------------------------------- MODULE MCCli -------------------------------
(* Lines of two characters are edited with a ring of two earlier lines;    *)
(* the shell is also started on every line of up to five characters.       *)
EXTENDS Shell

MCUser == {<<"a">>}
MCBuiltin == {<<"a">>, <<"b">>}
MCLines == UNION {[1 .. n -> {"a", "b", " ", ";", "'", "/"}] : n \in 1 .. 5}
=============================================================================
