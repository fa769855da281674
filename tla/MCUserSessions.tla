--------------------------- MODULE MCUserSessions ---------------------------
EXTENDS UserSessions, TLC

CONSTANTS w1, w2, u1, u2, s1, s2, s3, unknown

TwoWorkers == {w1, w2}
OneUser    == {u1}
TwoUsers   == {u1, u2}
TwoIds     == {s1, s2}
ThreeIds   == {s1, s2, s3}

\* Workers, users and session ids are interchangeable: the safety runs use it.
Symmetry == Permutations(Workers) \cup Permutations(Users) \cup Permutations(SessionIds)
=============================================================================
