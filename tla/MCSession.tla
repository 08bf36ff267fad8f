---------------------------- MODULE MCSession ----------------------------
(* A small instance of SessionRepository for TLC, session.cfg: two ids that *)
(* are drawn once at a time and one that may be drawn while it is in use.   *)
EXTENDS SessionRepository, TLC

MCTTLs == {1, 2}
UserSymmetry == Permutations(UserData)
=============================================================================
