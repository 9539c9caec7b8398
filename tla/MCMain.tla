------------------------------- MODULE MCMain -------------------------------
(* One account with two login names, another with one; every way to start. *)
EXTENDS Main

CONSTANTS ann, mail, bob

MCNames == {ann, mail, bob}
MCAccount == [n \in MCNames |-> IF n = mail THEN ann ELSE n]

Line(n, p, c) == [username |-> n, password |-> p, cache |-> c]
MCCommandLines == {Line(n, p, c) : n \in {ann, mail, None}, p \in BOOLEAN, c \in BOOLEAN}
                  \cup {Line(bob, TRUE, TRUE), Line(bob, FALSE, TRUE)}
=============================================================================
