--------------------------- MODULE MCEventHistory ---------------------------
(***************************************************************************)
(* TLC instances of EventHistory.                                          *)
(***************************************************************************)
EXTENDS EventHistory, TLC

ActorSymmetry == Permutations(Admins) \cup Permutations(Subscribers)
=============================================================================
