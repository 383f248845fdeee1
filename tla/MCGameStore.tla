---------------------------- MODULE MCGameStore ----------------------------
(* Instances of GameStore for TLC. *)
EXTENDS GameStore, TLC

HandlerSymmetry == Permutations(Handlers)

(* An earlier run left a game under way, a lost one, or an empty file. *)
SomeLeftover ==
  {[id |-> 1, trials |-> 1, fin |-> Running], [id |-> 1, trials |-> 1, fin |-> Lost], EmptyFile}

============================================================================
