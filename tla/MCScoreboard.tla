--------------------------- MODULE MCScoreboard ---------------------------
(* Instances of Scoreboard for TLC. *)
EXTENDS Scoreboard, TLC

HandlerSymmetry == Permutations(Handlers)
===========================================================================
