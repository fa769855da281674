----------------------------- MODULE MCFriends -----------------------------
(* Small instances of Friends for TLC. *)
EXTENDS Friends, TLC

CONSTANTS w1, w2, u1, u2, u3, e1, e2, r1, r2

TwoWorkers == {w1, w2}
TwoUsers   == {u1, u2}
ThreeUsers == {u1, u2, u3}
TwoEmails  == {e1, e2}
TwoRefs    == {r1, r2}

Symmetry == Permutations(TwoWorkers) \cup Permutations(TwoUsers)
            \cup Permutations(TwoEmails) \cup Permutations(TwoRefs)
=============================================================================
