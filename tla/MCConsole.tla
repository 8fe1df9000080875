----------------------------- MODULE MCConsole -----------------------------
(* Instances for the Console: two of everything that can be mixed up.  An   *)
(* area has at most three kinds of things, so that three pairs stand for    *)
(* all of them.                                                             *)
EXTENDS Console, TLC

CONSTANTS i1, i2, u1, u2, x1, x2

Symmetry == Permutations({i1, i2}) \cup Permutations({u1, u2}) \cup Permutations({x1, x2})

MCNewcomers == {[role |-> "viewer", given |-> {}], [role |-> "admin", given |-> Ids]}
=============================================================================
