---------------------------- MODULE MCSupervisor ----------------------------
(* Small instances of Supervisor for TLC. *)
EXTENDS Supervisor, TLC

CONSTANTS p1, p2, c1, c2

OnePort   == {p1}
TwoPorts  == {p1, p2}
OneClient  == {c1}
TwoClients == {c1, c2}
=============================================================================
