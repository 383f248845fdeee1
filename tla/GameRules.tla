------------------------------ MODULE GameRules ------------------------------
(***************************************************************************)
(* The rules of one game, as the server applies them to the ServGame record*)
(* of a player: play_impl and guess_impl with the letters and words that   *)
(* were tried, the positions that were revealed, the trial and error       *)
(* counters, and last_was_incremental, by which a repeated request is told *)
(* from a new one.  Operators only: ServGame.tla serves one game by them,  *)
(* Session.tla puts a client and a network before it.                      *)
(*                                                                         *)
(* Sequences start at 1 here and at 0 in the code: slot i of letter_guess  *)
(* is letters[i + 1].                                                      *)
(***************************************************************************)
EXTENDS Naturals, Sequences

CONSTANTS
  Letters,    \* the letters that players try and words are made of
  Word,       \* GetCurWord: the word of this game, a sequence of letters
  Guesses     \* the words that players try

ASSUME GameRulesAssumption ==
  /\ Word \in Seq(Letters) /\ Word # << >>
  /\ Guesses \subseteq Seq(Letters)

(* ServGame.finished *)
Running == 0
Won     == 1
Lost    == 2
QuitByPlayer == 3

(* get_errs, applied to strlen(word) by start_impl *)
get_errs(size) == IF size < 7 THEN 7 ELSE IF size < 11 THEN 8 ELSE 9
max_errors == get_errs(Len(Word))

Positions == DOMAIN Word
Occurrences(ch) == {p \in Positions : Word[p] = ch}

(* cw, counted while a letter is revealed; the fault: only new positions count. *)
Hits_New(g, ch) == Occurrences(ch) \ g.word_state
Hits(g, ch) == Occurrences(ch)

GameRecord == [
  letters            : Seq(Letters),       \* letter_guess
  words              : Seq(Guesses),       \* word_guess
  word_state         : SUBSET Positions,   \* the positions that are not '-'
  trials             : Nat,
  errors             : Nat,
  finished           : Running..QuitByPlayer,
  last_was_incremental : BOOLEAN]

NewGame == [
  letters |-> << >>, words |-> << >>, word_state |-> {},
  trials |-> 0, errors |-> 0, finished |-> Running, last_was_incremental |-> FALSE]

----------------------------------------------------------------------------
(* The search of a request among those before it *)

(* The first slot of seq that holds x; 0 when there is none. *)
FirstSlot(seq, x) ==
  IF \E k \in DOMAIN seq : seq[k] = x
    THEN CHOOSE k \in DOMAIN seq : seq[k] = x /\ \A j \in 1..(k - 1) : seq[j] # x
    ELSE 0

(* The loops over letter_guess and word_guess.  The first match decides: it *)
(* is a duplicate when word_guess has an entry after that slot (play_impl,  *)
(* too, looks into word_guess), and otherwise a repetition of the last      *)
(* request if that one was counted.  A match that is neither is passed over.*)
IsDuplicate(g, k)  == k # 0 /\ Len(g.words) > k
IsRepetition(g, k) == k # 0 /\ ~ IsDuplicate(g, k) /\ g.last_was_incremental

(* Refused requests and requests that end the game go through no_work.      *)
Refuse(g, out) ==
  [tok  |-> IF out # g.trials + 1 THEN "INV" ELSE "DUP",
   game |-> [g EXCEPT !.last_was_incremental = FALSE]]

(* _continue: the entry goes to the slot of the repetition, else to the end.*)
Record(seq, k, x) == IF k = 0 THEN Append(seq, x) ELSE [seq EXCEPT ![k] = x]

(* Faults of TrialsBefore: no trial is taken back; one always is. *)
TrialsBefore_Kept(g, repeated) == g.trials
TrialsBefore_Less(g, repeated) == g.trials - 1

(* GameUnregTrial, when a repetition is played again. *)
TrialsBefore(g, repeated) == IF repeated THEN g.trials - 1 ELSE g.trials

(* One more error; the fault: an error right after a counted trial is free. *)
Missed_Free(g) == [g EXCEPT !.errors = IF g.last_was_incremental THEN @ ELSE @ + 1]
Missed(g) == [g EXCEPT !.errors = @ + 1]

(* The end of a game; the faults: finished is not set, the trial is counted. *)
Over_StillRunning(tok, result, g) ==
  [tok |-> tok, game |-> [g EXCEPT !.last_was_incremental = FALSE]]
Over_Counted(tok, result, g) ==
  [tok |-> tok, game |-> [g EXCEPT !.finished = result, !.trials = @ + 1]]
Over(tok, result, g) ==
  [tok |-> tok, game |-> [g EXCEPT !.finished = result, !.last_was_incremental = FALSE]]

(* A fault of Count: a miss is not a trial. *)
Count_NotMisses(tok, g) ==
  [tok |-> tok,
   game |-> [g EXCEPT !.trials = IF tok = "NOK" THEN @ ELSE @ + 1, !.last_was_incremental = TRUE]]

(* GameRegTrial and a reply that leaves the game running. *)
Count(tok, g) ==
  [tok |-> tok, game |-> [g EXCEPT !.trials = @ + 1, !.last_was_incremental = TRUE]]

----------------------------------------------------------------------------
(* play_impl, from the search to the reply *)
PlayLetter(g, ch, out) ==
  LET k        == FirstSlot(g.letters, ch)
      repeated == IsRepetition(g, k)
      tried    == [g EXCEPT
                     !.letters    = Record(@, IF repeated THEN k ELSE 0, ch),
                     !.word_state = @ \union Occurrences(ch),
                     !.trials     = TrialsBefore(g, repeated)]
      missed   == Missed(tried)
  IN  IF IsDuplicate(g, k) \/ (~ repeated /\ out # g.trials + 1) THEN Refuse(g, out)
      ELSE IF tried.word_state = Positions THEN Over("WIN", Won, tried)
      ELSE IF Hits(g, ch) # {} THEN Count("OK", tried)
      ELSE IF missed.errors > max_errors THEN Over("OVR", Lost, missed)
      ELSE Count("NOK", missed)

(* guess_impl, from the search to the reply: the limit is one error lower   *)
(* than for letters, and met only when it is hit exactly.                   *)
GuessWord(g, w, out) ==
  LET k        == FirstSlot(g.words, w)
      repeated == IsRepetition(g, k)
      tried    == [g EXCEPT
                     !.words  = Record(@, IF repeated THEN k ELSE 0, w),
                     !.trials = TrialsBefore(g, repeated)]
      missed   == Missed(tried)
  IN  IF IsDuplicate(g, k) \/ (~ repeated /\ out # g.trials + 1) THEN Refuse(g, out)
      ELSE IF w = Word THEN Count("WIN", [tried EXCEPT !.finished = Won])
      ELSE IF missed.errors = max_errors THEN Over("OVR", Lost, missed)
      ELSE Count("NOK", missed)

(* quit_impl asks neither whether the game is over nor for a trial number. *)
QuitGame(g) == [tok |-> "OK", game |-> [g EXCEPT !.finished = QuitByPlayer]]

(* start_impl: a game that is over is replaced, one with trials is kept.   *)
StartOver(g) ==
  IF g.finished = Running
    THEN [tok |-> IF g.trials # 0 THEN "NOK" ELSE "OK", game |-> g]
    ELSE [tok |-> "OK", game |-> NewGame]
============================================================================
