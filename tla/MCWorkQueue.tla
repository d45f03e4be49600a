----------------------------- MODULE MCWorkQueue -----------------------------
(* WorkQueue, and the JobBoard it implements, on small instances. *)
EXTENDS WorkQueue, TLC

CONSTANTS j1, j2, w1, w2, t1, t2, t3, k1, k2

(* Priority::Normal, and Priority::High with it. *)
OneScore == {-5}
TwoScores == {-10, -5}

Symmetry == Permutations({j1, j2}) \cup Permutations({w1, w2})
            \cup Permutations({t1, t2, t3}) \cup Permutations({k1, k2})
=============================================================================
