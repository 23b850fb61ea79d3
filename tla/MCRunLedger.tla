---------------------------- MODULE MCRunLedger ----------------------------
(* Small instances of RunLedger for TLC: two calls for one run.            *)
EXTENDS RunLedger, TLC

CONSTANTS c1, c2, r1, r2, s1, q1, x1

TwoCalls == {c1, c2}
First == {c1}

\* Each call in a process of its own.
TwoRepos == {r1, r2}
OwnRepo == c1 :> r1 @@ c2 :> r2

\* A seed to read, an optional query, a page either of them may lead to.
OneSeed == {s1}
Query == {q1}
OneCandidate == {x1}
None == {}
=============================================================================
