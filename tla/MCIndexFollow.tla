---------------------------- MODULE MCIndexFollow ----------------------------
(* IndexFollow with two processes and three commits.                       *)
EXTENDS IndexFollow, TLC

CONSTANTS p1, q1, c1, c2, c3

\* c2 and c3 both follow c1: whichever is pushed second rewrites the branch.
Rewritten == c1 :> {c1} @@ c2 :> {c1, c2} @@ c3 :> {c1, c3}
=============================================================================
