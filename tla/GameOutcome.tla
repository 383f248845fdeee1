---------------------------- MODULE GameOutcome ----------------------------
(***************************************************************************)
(* What one request may do to one game, seen from outside: the part of a   *)
(* ServGame that decides how later requests are answered.  ServGame.tla    *)
(* has the letters and words behind it and is checked against the result   *)
(* sets below; GameStore.tla uses them as the effect of a handler.         *)
(*                                                                         *)
(* A game is identified by the draw of random_entry that started it, so    *)
(* two games are distinct even when they are about the same word.          *)
(***************************************************************************)
EXTENDS Naturals

(* ServGame.finished: 1 won, 2 lost, 3 quit (command.c:641). *)
Running == 0
Won     == 1
Lost    == 2
Quit    == 3

GameType == [id: Nat \ {0}, trials: Nat, fin: Running..Quit]

(* A zero-length file: StartGame never finds one of these by reading. *)
EmptyFile == [id |-> 0, trials |-> 0, fin |-> Running]

(* StartGame with exists = false: memset, then random_entry. *)
FreshGame(id) == [id |-> id, trials |-> 0, fin |-> Running]

(* The same game with other trials and another status. *)
Moved(g, trials, fin) == [id |-> g.id, trials |-> trials, fin |-> fin]

(* One result of a request: the status in its reply and the game it leaves. *)
Result(tok, g) == [tok |-> tok, game |-> g]

(* INV and DUP leave the game as it was (but for last_was_incremental). *)
Refused(g) == {Result(tok, g) : tok \in {"INV", "DUP"}}

(* GameRegTrial, on a new trial or on one that GameUnregTrial took back. *)
Counted(g) == {g.trials + 1} \union (IF g.trials > 0 THEN {g.trials} ELSE {})

(* A fault of Uncounted: GameUnregTrial also without a trial to take back. *)
Uncounted_Always(g) == {g.trials, g.trials - 1}

(* The last error: the trial in progress is not counted, and a repetition  *)
(* of the last trial has already been taken back.                          *)
Uncounted(g) == {g.trials} \union (IF g.trials > 0 THEN {g.trials - 1} ELSE {})

Missed(g) ==
  {Result("NOK", Moved(g, t, g.fin)) : t \in Counted(g)}
    \union {Result("OVR", Moved(g, t, Lost)) : t \in Uncounted(g)}

(* play_impl past its checks: a letter that wins is not counted. *)
LetterResults(g) ==
  Refused(g) \union Missed(g)
    \union {Result("OK", Moved(g, t, g.fin)) : t \in Counted(g)}
    \union {Result("WIN", Moved(g, g.trials, Won))}

(* guess_impl past its checks: a word that wins is counted. *)
WordResults(g) ==
  Refused(g) \union Missed(g)
    \union {Result("WIN", Moved(g, g.trials + 1, Won))}

(* start_impl on a game that is not over: the reply is NOK once it has trials. *)
StartResult(g) == Result(IF g.trials # 0 THEN "NOK" ELSE "OK", g)

(* quit_impl: whatever the game's state, finished becomes 3. *)
QuitResult(g) == Result("OK", Moved(g, g.trials, Quit))

(* Every game that one request of the protocol may leave behind for g. *)
Successors(g) ==
  {QuitResult(g).game} \union
    (IF g.fin = Running
       THEN {StartResult(g).game}
              \union {r.game : r \in LetterResults(g) \union WordResults(g)}
       ELSE {})
============================================================================
