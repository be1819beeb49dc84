----------------------------- MODULE MCSession -----------------------------
(* Programs and instances on which TLC checks Session.                     *)
EXTENDS Session

Rule(head, pos, neg) == [head |-> head, pos |-> pos, neg |-> neg]
Stratum(rel, recursive, rules) ==
    [rel |-> rel, recursive |-> recursive, rules |-> rules]

\* r(x) :- e(x).   r(x + 1) :- r(x), s(x).   t(x) :- s(x).
\* q(2 / x) :- r(x), !t(x).
MixedEDB == {"e", "s"}
MixedPlan ==
    << Stratum("r", TRUE, <<Rule("x", <<"e">>, {}), Rule("x + 1", <<"r", "s">>, {})>>),
       Stratum("t", FALSE, <<Rule("x", <<"s">>, {})>>),
       Stratum("q", FALSE, <<Rule("2 / x", <<"r">>, {"t"})>>) >>
=============================================================================
