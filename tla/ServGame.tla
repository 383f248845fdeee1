------------------------------ MODULE ServGame ------------------------------
(***************************************************************************)
(* One player's game on the server: each step is one request, served from  *)
(* the file as GameStore has it; the network and the handlers are left out.*)
(***************************************************************************)
EXTENDS GameRules, FiniteSets

CONSTANTS
  SlotCap,    \* bound: the entries made in letter_guess and word_guess (40 in the code)
  ErrorCap,   \* bound: no request is made once errors has reached it
  AheadCap,   \* bound: how far the client's trial number runs ahead
  Modulus     \* of a u32; TLC's integers are too short for 2^32

ASSUME ServGameAssumption ==
  /\ SlotCap \in Nat
  /\ ErrorCap \in Nat
  /\ AheadCap \in Nat
  /\ Modulus \in Nat /\ Modulus > ErrorCap + SlotCap

VARIABLES
  game,  \* what the player's file holds
  last   \* the last request and its reply

vars == <<game, last>>

NoRequest == [op |-> "SNG", arg |-> << >>, out |-> 0, tok |-> "OK", trials |-> 0]

Init == game = NewGame /\ last = NoRequest

(* The trial number of the client: it lags, is the next one or runs ahead. *)
TrialNumbers == 0..(game.trials + AheadCap)

Serve(op, arg, out, r) ==
  /\ game' = r.game
  /\ last' = [op |-> op, arg |-> arg, out |-> out, tok |-> r.tok, trials |-> r.game.trials]

Playing_AnyStatus == game.errors < ErrorCap   \* a fault: the status is not asked
Playing == game.finished = Running /\ game.errors < ErrorCap

Play ==
  /\ Playing
  /\ Len(game.letters) < SlotCap
  /\ \E ch \in Letters, out \in TrialNumbers :
       Serve("PLG", <<ch>>, out, PlayLetter(game, ch, out))

Guess ==
  /\ Playing
  /\ Len(game.words) < SlotCap
  /\ \E w \in Guesses, out \in TrialNumbers :
       Serve("PWG", w, out, GuessWord(game, w, out))

(* play_impl and guess_impl fail on a game that is over. *)
TooLate ==
  /\ game.finished # Running
  /\ \E out \in TrialNumbers :
       \/ \E ch \in Letters : Serve("PLG", <<ch>>, out, [tok |-> "ERR", game |-> game])
       \/ \E w \in Guesses : Serve("PWG", w, out, [tok |-> "ERR", game |-> game])

Quit  == Serve("QUT", << >>, 0, QuitGame(game))
Start == Serve("SNG", << >>, 0, StartOver(game))

Next == Play \/ Guess \/ TooLate \/ Quit \/ Start

Spec == Init /\ [][Next]_vars

(* save_score: n_succ is a u32 and wraps. *)
n_succ(g) == (g.trials + Modulus - g.errors) % Modulus

----------------------------------------------------------------------------
(* Properties *)

TypeOK == game \in GameRecord

(* While a game runs, trials is the number of entries made for it: neither  *)
(* the repetitions that GameUnregTrial takes back, nor refused requests,    *)
(* nor letters played twice make the counter and the two tables disagree.   *)
TrialsMatchTables ==
  game.finished = Running => game.trials = Len(game.letters) + Len(game.words)

(* word_state shows exactly the letters in letter_guess, also after the     *)
(* entry of a repetition was written over, and a game goes on just as long  *)
(* as neither they nor a word have solved it: no WIN is missed or taken     *)
(* back, and the word a client sees and the letters that STA lists tell the *)
(* same story.                                                              *)
SolvedByTrials ==
  /\ game.word_state = {p \in Positions : \E k \in DOMAIN game.letters : game.letters[k] = Word[p]}
  /\ game.finished = Running =>
       game.word_state # Positions /\ \A k \in DOMAIN game.words : game.words[k] # Word

Misses ==
  LET tried(seq) == {seq[k] : k \in DOMAIN seq}
  IN  Cardinality(tried(game.letters) \ {Word[p] : p \in Positions}) + Cardinality(tried(game.words) \ {Word})

(* Every distinct letter or word that missed has cost at least one error,   *)
(* whatever was refused, repeated or counted in between; and a game that    *)
(* goes on with more errors than max_errors is one in which words were      *)
(* missed: letters alone end it there.                                      *)
MissesCost ==
  /\ game.errors >= Misses
  /\ game.finished = Running /\ game.errors > max_errors => game.words # << >>

(* The score of a game that was won: score_function does not divide by zero,*)
(* unless the word has one letter only, and the good trials, trials minus   *)
(* errors, are some of the trials when no miss was repeated.                *)
ScoreIsDefined ==
  game.finished = Won =>
    /\ (\E p, q \in Positions : Word[p] # Word[q]) => game.trials > 0
    /\ game.errors = Misses => n_succ(game) <= game.trials

(* Only SNG, on a game that is over, undoes anything: otherwise errors do   *)
(* not drop, revealed positions stay revealed and a game that is over is    *)
(* never played on.                                                         *)
GameOnlyAdvances ==
  [][last'.op # "SNG" =>
       /\ game'.errors >= game.errors
       /\ game.word_state \subseteq game'.word_state
       /\ game.finished # Running =>
            game' = [game EXCEPT !.finished = game'.finished]]_vars

(* What GameStore assumes of a request: the outcomes of GameOutcome.tla.    *)
Outcome == INSTANCE GameOutcome
Abstract(g) == [id |-> 1, trials |-> g.trials, fin |-> g.finished]
OutcomesAsAssumed ==
  [][/\ last'.op = "PLG" /\ last'.tok # "ERR" =>
          Outcome!Result(last'.tok, Abstract(game')) \in Outcome!LetterResults(Abstract(game))
     /\ last'.op = "PWG" /\ last'.tok # "ERR" =>
          Outcome!Result(last'.tok, Abstract(game')) \in Outcome!WordResults(Abstract(game))]_vars

(* "GOOD TRIALS  TOTAL TRIALS" (GS_src/src/command.c:427): the good trials  *)
(* of a game that was won are some of its trials.                           *)
GoodTrialsAreTrials == game.finished = Won => n_succ(game) <= game.trials
============================================================================
