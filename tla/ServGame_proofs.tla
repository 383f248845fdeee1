-------------------------- MODULE ServGame_proofs --------------------------
(***************************************************************************)
(* One player's game keeps its promises for every word, every alphabet and *)
(* any number of requests: the five invariants of ServGame and its two     *)
(* action properties, from one inductive invariant.                        *)
(***************************************************************************)
EXTENDS ServGame, GameRules_proofs

(* The inductive invariant: GameInv of GameRules_proofs.                   *)
Inv == GameInv(game)

----------------------------------------------------------------------------
(* What a request may do, seen from outside *)

(* A refused request, for a reader who knows trials and finished only. *)
LEMMA RefusalOutcome ==
  ASSUME NEW g \in GameRecord, NEW out, NEW r, Refusal(g, out, r)
  PROVE  /\ Outcome!Result(r.tok, Abstract(r.game)) \in Outcome!Refused(Abstract(g))
         /\ r.tok # "ERR" /\ r.game.errors = g.errors /\ r.game.word_state = g.word_state
<1>1. /\ r.game.trials = g.trials /\ r.game.finished = g.finished
      /\ r.game.errors = g.errors /\ r.game.word_state = g.word_state
  BY DEF Refusal, GameRecord
<1>2. Abstract(r.game) = Abstract(g)
  BY <1>1 DEF Abstract
<1> QED BY <1>1, <1>2 DEF Outcome!Result, Outcome!Refused, Refusal

(* The trials of a request that was counted, and of one that was not. *)
LEMMA EnteredTrials ==
  ASSUME NEW g \in GameRecord, NEW old, NEW new, NEW x, NEW t \in Nat, NEW out,
         Entered(g, old, new, x, t, out)
  PROVE  /\ t + 1 \in Outcome!Counted(Abstract(g))
         /\ t \in Outcome!Uncounted(Abstract(g))
<1>1. g.trials \in Nat /\ Abstract(g).trials = g.trials
  BY DEF GameRecord, Abstract
<1>2. t = g.trials \/ t + 1 = g.trials
  BY DEF Entered
<1>3. CASE t = g.trials
  BY <1>1, <1>3 DEF Outcome!Counted, Outcome!Uncounted
<1>4. CASE t + 1 = g.trials
  <2>1. g.trials > 0 /\ t = g.trials - 1
    BY <1>1, <1>4
  <2> QED BY <1>1, <1>4, <2>1 DEF Outcome!Counted, Outcome!Uncounted
<1> QED BY <1>2, <1>3, <1>4

(* What GameStore assumes of play_impl. *)
LEMMA LetterOutcome ==
  ASSUME NEW g, GameInv(g), g.finished = Running,
         NEW ch \in Letters, NEW out \in Nat, NEW r, LetterTaken(g, ch, out, r)
  PROVE  /\ Outcome!Result(r.tok, Abstract(r.game)) \in Outcome!LetterResults(Abstract(g))
         /\ r.game.errors >= g.errors /\ g.word_state \subseteq r.game.word_state
<1> DEFINE wst == g.word_state \union Occurrences(ch)
           a == Abstract(g)
<1>1. PICK ls \in Seq(Letters), t \in Nat :
        /\ Entered(g, g.letters, ls, ch, t, out)
        /\ \/ /\ wst = Positions
              /\ r = [tok |-> "WIN", game |-> After(ls, g.words, wst, t, g.errors, Won, FALSE)]
           \/ /\ wst # Positions /\ Occurrences(ch) # {}
              /\ r = [tok |-> "OK", game |-> After(ls, g.words, wst, t + 1, g.errors, g.finished, TRUE)]
           \/ /\ wst # Positions /\ Occurrences(ch) = {} /\ g.errors + 1 > max_errors
              /\ r = [tok |-> "OVR", game |-> After(ls, g.words, wst, t, g.errors + 1, Lost, FALSE)]
           \/ /\ wst # Positions /\ Occurrences(ch) = {} /\ g.errors + 1 <= max_errors
              /\ r = [tok |-> "NOK", game |-> After(ls, g.words, wst, t + 1, g.errors + 1, g.finished, TRUE)]
  BY DEF LetterTaken
<1>2. g \in GameRecord /\ g.errors \in Nat /\ g.trials \in Nat
  BY DEF GameInv, GameRecord
<1>3. t + 1 \in Outcome!Counted(a) /\ t \in Outcome!Uncounted(a)
  BY <1>1, <1>2, EnteredTrials
<1>4. wst = Positions => t = g.trials
  BY <1>1, WinIsNew
<1>5. /\ a = [id |-> 1, trials |-> g.trials, fin |-> g.finished]
      /\ a.id = 1 /\ a.trials = g.trials /\ a.fin = g.finished
      /\ Won = Outcome!Won /\ Lost = Outcome!Lost
  BY DEF Abstract, Won, Lost, Outcome!Won, Outcome!Lost
<1> HIDE DEF a, wst
<1>6. g.word_state \subseteq wst
  BY DEF wst
<1>7. CASE /\ wst = Positions
           /\ r = [tok |-> "WIN", game |-> After(ls, g.words, wst, t, g.errors, Won, FALSE)]
  <2>1. r.tok = "WIN" /\ r.game = After(ls, g.words, wst, t, g.errors, Won, FALSE)
    BY <1>7
  <2>2. /\ Abstract(r.game) = Outcome!Moved(a, a.trials, Outcome!Won)
        /\ r.game.errors >= g.errors /\ g.word_state \subseteq r.game.word_state
    BY <1>2, <1>4, <1>5, <1>6, <1>7, <2>1 DEF After, Abstract, Outcome!Moved
  <2>3. Outcome!Result("WIN", Outcome!Moved(a, a.trials, Outcome!Won)) \in Outcome!LetterResults(a)
    BY <1>3 DEF Outcome!LetterResults, Outcome!Missed
  <2> QED BY <2>1, <2>2, <2>3 DEF a
<1>8. CASE r = [tok |-> "OK", game |-> After(ls, g.words, wst, t + 1, g.errors, g.finished, TRUE)]
  <2>1. r.tok = "OK" /\ r.game = After(ls, g.words, wst, t + 1, g.errors, g.finished, TRUE)
    BY <1>8
  <2>2. /\ Abstract(r.game) = Outcome!Moved(a, t + 1, a.fin)
        /\ r.game.errors >= g.errors /\ g.word_state \subseteq r.game.word_state
    BY <1>2, <1>4, <1>5, <1>6, <1>8, <2>1 DEF After, Abstract, Outcome!Moved
  <2>3. Outcome!Result("OK", Outcome!Moved(a, t + 1, a.fin)) \in Outcome!LetterResults(a)
    BY <1>3 DEF Outcome!LetterResults, Outcome!Missed
  <2> QED BY <2>1, <2>2, <2>3 DEF a
<1>9. CASE r = [tok |-> "OVR", game |-> After(ls, g.words, wst, t, g.errors + 1, Lost, FALSE)]
  <2>1. r.tok = "OVR" /\ r.game = After(ls, g.words, wst, t, g.errors + 1, Lost, FALSE)
    BY <1>9
  <2>2. /\ Abstract(r.game) = Outcome!Moved(a, t, Outcome!Lost)
        /\ r.game.errors >= g.errors /\ g.word_state \subseteq r.game.word_state
    BY <1>2, <1>4, <1>5, <1>6, <1>9, <2>1 DEF After, Abstract, Outcome!Moved
  <2>3. Outcome!Result("OVR", Outcome!Moved(a, t, Outcome!Lost)) \in Outcome!LetterResults(a)
    BY <1>3 DEF Outcome!LetterResults, Outcome!Missed
  <2> QED BY <2>1, <2>2, <2>3 DEF a
<1>10. CASE r = [tok |-> "NOK", game |-> After(ls, g.words, wst, t + 1, g.errors + 1, g.finished, TRUE)]
  <2>1. r.tok = "NOK" /\ r.game = After(ls, g.words, wst, t + 1, g.errors + 1, g.finished, TRUE)
    BY <1>10
  <2>2. /\ Abstract(r.game) = Outcome!Moved(a, t + 1, a.fin)
        /\ r.game.errors >= g.errors /\ g.word_state \subseteq r.game.word_state
    BY <1>2, <1>4, <1>5, <1>6, <1>10, <2>1 DEF After, Abstract, Outcome!Moved
  <2>3. Outcome!Result("NOK", Outcome!Moved(a, t + 1, a.fin)) \in Outcome!LetterResults(a)
    BY <1>3 DEF Outcome!LetterResults, Outcome!Missed
  <2> QED BY <2>1, <2>2, <2>3 DEF a
<1> QED BY <1>1, <1>7, <1>8, <1>9, <1>10

(* What GameStore assumes of guess_impl. *)
LEMMA WordOutcome ==
  ASSUME NEW g, GameInv(g), g.finished = Running,
         NEW w \in Guesses, NEW out \in Nat, NEW r, WordTaken(g, w, out, r)
  PROVE  /\ Outcome!Result(r.tok, Abstract(r.game)) \in Outcome!WordResults(Abstract(g))
         /\ r.game.errors >= g.errors /\ r.game.word_state = g.word_state
<1> DEFINE a == Abstract(g)
<1>1. PICK gs \in Seq(Guesses), t \in Nat :
        /\ Entered(g, g.words, gs, w, t, out)
        /\ \/ /\ w = Word
              /\ r = [tok |-> "WIN", game |-> After(g.letters, gs, g.word_state, t + 1, g.errors, Won, TRUE)]
           \/ /\ w # Word
              /\ r = [tok |-> "OVR", game |-> After(g.letters, gs, g.word_state, t, g.errors + 1, Lost, FALSE)]
           \/ /\ w # Word
              /\ r = [tok |-> "NOK", game |-> After(g.letters, gs, g.word_state, t + 1, g.errors + 1, g.finished, TRUE)]
  BY DEF WordTaken
<1>2. g \in GameRecord /\ g.errors \in Nat /\ g.trials \in Nat
  BY DEF GameInv, GameRecord
<1>3. t + 1 \in Outcome!Counted(a) /\ t \in Outcome!Uncounted(a)
  BY <1>1, <1>2, EnteredTrials
<1>4. w = Word => t = g.trials
  BY <1>1 DEF GameInv, Unsolved, Entered
<1>5. /\ a = [id |-> 1, trials |-> g.trials, fin |-> g.finished]
      /\ a.id = 1 /\ a.trials = g.trials /\ a.fin = g.finished
      /\ Won = Outcome!Won /\ Lost = Outcome!Lost
  BY DEF Abstract, Won, Lost, Outcome!Won, Outcome!Lost
<1> HIDE DEF a
<1>6. CASE /\ w = Word
           /\ r = [tok |-> "WIN", game |-> After(g.letters, gs, g.word_state, t + 1, g.errors, Won, TRUE)]
  <2>1. r.tok = "WIN" /\ r.game = After(g.letters, gs, g.word_state, t + 1, g.errors, Won, TRUE)
    BY <1>6
  <2>2. /\ Abstract(r.game) = Outcome!Moved(a, a.trials + 1, Outcome!Won)
        /\ r.game.errors >= g.errors /\ r.game.word_state = g.word_state
    BY <1>2, <1>4, <1>5, <1>6, <2>1 DEF After, Abstract, Outcome!Moved
  <2>3. Outcome!Result("WIN", Outcome!Moved(a, a.trials + 1, Outcome!Won)) \in Outcome!WordResults(a)
    BY <1>3 DEF Outcome!WordResults, Outcome!Missed
  <2> QED BY <2>1, <2>2, <2>3 DEF a
<1>7. CASE r = [tok |-> "OVR", game |-> After(g.letters, gs, g.word_state, t, g.errors + 1, Lost, FALSE)]
  <2>1. r.tok = "OVR" /\ r.game = After(g.letters, gs, g.word_state, t, g.errors + 1, Lost, FALSE)
    BY <1>7
  <2>2. /\ Abstract(r.game) = Outcome!Moved(a, t, Outcome!Lost)
        /\ r.game.errors >= g.errors /\ r.game.word_state = g.word_state
    BY <1>2, <1>4, <1>5, <1>7, <2>1 DEF After, Abstract, Outcome!Moved
  <2>3. Outcome!Result("OVR", Outcome!Moved(a, t, Outcome!Lost)) \in Outcome!WordResults(a)
    BY <1>3 DEF Outcome!WordResults, Outcome!Missed
  <2> QED BY <2>1, <2>2, <2>3 DEF a
<1>8. CASE r = [tok |-> "NOK", game |-> After(g.letters, gs, g.word_state, t + 1, g.errors + 1, g.finished, TRUE)]
  <2>1. r.tok = "NOK" /\ r.game = After(g.letters, gs, g.word_state, t + 1, g.errors + 1, g.finished, TRUE)
    BY <1>8
  <2>2. /\ Abstract(r.game) = Outcome!Moved(a, t + 1, a.fin)
        /\ r.game.errors >= g.errors /\ r.game.word_state = g.word_state
    BY <1>2, <1>4, <1>5, <1>8, <2>1 DEF After, Abstract, Outcome!Moved
  <2>3. Outcome!Result("NOK", Outcome!Moved(a, t + 1, a.fin)) \in Outcome!WordResults(a)
    BY <1>3 DEF Outcome!WordResults, Outcome!Missed
  <2> QED BY <2>1, <2>2, <2>3 DEF a
<1> QED BY <1>1, <1>6, <1>7, <1>8

----------------------------------------------------------------------------
(* The theorems *)

(* The requests of Play and Guess, refused or taken. *)
LEMMA PlayStep ==
  ASSUME Inv, Play
  PROVE  /\ GameInv(game')
         /\ game.finished = Running /\ last'.op = "PLG"
         /\ Outcome!Result(last'.tok, Abstract(game')) \in Outcome!LetterResults(Abstract(game))
         /\ game'.errors >= game.errors /\ game.word_state \subseteq game'.word_state
<1>1. PICK ch \in Letters, out \in TrialNumbers : Serve("PLG", <<ch>>, out, PlayLetter(game, ch, out))
  BY DEF Play
<1>2. /\ game \in GameRecord /\ CountsBack(game) /\ GameInv(game)
      /\ game.trials \in Nat /\ game.errors \in Nat
  BY DEF Inv, GameInv, GameRecord
<1>3. out \in Nat
  BY <1>1, <1>2, ServGameAssumption DEF TrialNumbers
<1>4. game.finished = Running
  BY DEF Play, Playing
<1> DEFINE r == PlayLetter(game, ch, out)
<1>5. /\ game' = r.game
      /\ last' = [op |-> "PLG", arg |-> <<ch>>, out |-> out, tok |-> r.tok, trials |-> r.game.trials]
  BY <1>1 DEF Serve
<1>6. Refusal(game, out, r) \/ LetterTaken(game, ch, out, r)
  BY <1>2, <1>3, PlayLetterEffect
<1> HIDE DEF r
<1>7. last'.op = "PLG" /\ last'.tok = r.tok
  BY <1>5
<1>8. CASE Refusal(game, out, r)
  <2>1. GameInv(r.game)
    BY <1>2, <1>8, RefusalKeeps
  <2>2. /\ Outcome!Result(r.tok, Abstract(r.game)) \in Outcome!Refused(Abstract(game))
        /\ r.game.errors = game.errors /\ r.game.word_state = game.word_state
    BY <1>2, <1>8, RefusalOutcome
  <2> QED BY <1>2, <1>4, <1>5, <1>7, <2>1, <2>2 DEF Outcome!LetterResults
<1>9. CASE LetterTaken(game, ch, out, r)
  BY <1>2, <1>3, <1>4, <1>5, <1>7, <1>9, LetterKeeps, LetterOutcome
<1> QED BY <1>6, <1>8, <1>9

(* The same of guess_impl. *)
LEMMA GuessStep ==
  ASSUME Inv, Guess
  PROVE  /\ GameInv(game')
         /\ game.finished = Running /\ last'.op = "PWG"
         /\ Outcome!Result(last'.tok, Abstract(game')) \in Outcome!WordResults(Abstract(game))
         /\ game'.errors >= game.errors /\ game'.word_state = game.word_state
<1>1. PICK w \in Guesses, out \in TrialNumbers : Serve("PWG", w, out, GuessWord(game, w, out))
  BY DEF Guess
<1>2. /\ game \in GameRecord /\ CountsBack(game) /\ GameInv(game)
      /\ game.trials \in Nat /\ game.errors \in Nat
  BY DEF Inv, GameInv, GameRecord
<1>3. out \in Nat
  BY <1>1, <1>2, ServGameAssumption DEF TrialNumbers
<1>4. game.finished = Running
  BY DEF Guess, Playing
<1> DEFINE r == GuessWord(game, w, out)
<1>5. /\ game' = r.game
      /\ last' = [op |-> "PWG", arg |-> w, out |-> out, tok |-> r.tok, trials |-> r.game.trials]
  BY <1>1 DEF Serve
<1>6. Refusal(game, out, r) \/ WordTaken(game, w, out, r)
  BY <1>2, <1>3, GuessWordEffect
<1> HIDE DEF r
<1>7. last'.op = "PWG" /\ last'.tok = r.tok
  BY <1>5
<1>8. CASE Refusal(game, out, r)
  <2>1. GameInv(r.game)
    BY <1>2, <1>8, RefusalKeeps
  <2>2. /\ Outcome!Result(r.tok, Abstract(r.game)) \in Outcome!Refused(Abstract(game))
        /\ r.game.errors = game.errors /\ r.game.word_state = game.word_state
    BY <1>2, <1>8, RefusalOutcome
  <2> QED BY <1>2, <1>4, <1>5, <1>7, <2>1, <2>2 DEF Outcome!WordResults
<1>9. CASE WordTaken(game, w, out, r)
  BY <1>2, <1>3, <1>4, <1>5, <1>7, <1>9, WordKeeps, WordOutcome
<1> QED BY <1>6, <1>8, <1>9

(* Init establishes the invariant and every step keeps it. *)
LEMMA InitInv == Init => Inv
  BY NewGameInv DEF Init, Inv

(* One case per action. *)
LEMMA NextInv == Inv /\ [Next]_vars => Inv'
<1> SUFFICES ASSUME Inv, [Next]_vars
             PROVE  GameInv(game')
  BY DEF Inv
<1>1. CASE Play
  BY <1>1, PlayStep
<1>2. CASE Guess
  BY <1>2, GuessStep
<1>3. CASE TooLate
  <2>1. game' = game
    BY <1>3 DEF TooLate, Serve
  <2> QED BY <2>1 DEF Inv
<1>4. CASE Quit
  <2>1. game' = QuitGame(game).game
    BY <1>4 DEF Quit, Serve
  <2> QED BY <2>1, QuitKeeps DEF Inv
<1>5. CASE Start
  <2>1. game' = StartOver(game).game
    BY <1>5 DEF Start, Serve
  <2> QED BY <2>1, StartKeeps DEF Inv
<1>6. CASE UNCHANGED vars
  BY <1>6 DEF vars, Inv
<1> QED BY <1>1, <1>2, <1>3, <1>4, <1>5, <1>6 DEF Next

(* The inductive invariant holds in every state of the game. *)
THEOREM InvHolds == Spec => []Inv
  BY InitInv, NextInv, PTL DEF Spec

(* play_impl, guess_impl, start_impl and quit_impl leave a record of the   *)
(* type that the file has.                                                 *)
THEOREM TypeCorrect == Spec => []TypeOK
<1>1. Inv => TypeOK
  BY DEF Inv, GameInv, TypeOK
<1> QED BY <1>1, InvHolds, PTL

(* GameRegTrial and GameUnregTrial keep trials equal to the entries of the *)
(* two tables while the game runs.                                         *)
THEOREM TrialsMatch == Spec => []TrialsMatchTables
<1>1. Inv => TrialsMatchTables
  BY DEF Inv, GameInv, Matches, TrialsMatchTables
<1> QED BY <1>1, InvHolds, PTL

(* word_state shows the letters of letter_guess, and a game that is solved *)
(* is over.                                                                *)
THEOREM Solved == Spec => []SolvedByTrials
<1>1. Inv => SolvedByTrials
  BY DEF Inv, GameInv, Shown, Unsolved, Range, SolvedByTrials
<1> QED BY <1>1, InvHolds, PTL

(* The misses that MissesCost and ScoreIsDefined count. *)
LEMMA MissesAre == Misses = MissCount(game)
  BY DEF Misses, MissCount, LetterMisses, WordMisses, WordLetters, Range

(* Every distinct miss costs an error, and letters alone end a game at     *)
(* max_errors.                                                             *)
THEOREM MissesAreErrors == Spec => []MissesCost
<1>1. Inv => MissesCost
  BY MissesAre DEF Inv, GameInv, Costs, MissesCost
<1> QED BY <1>1, InvHolds, PTL

(* The wrapping subtraction of save_score, when it does not go below 0. *)
LEMMA NoWrap ==
  ASSUME NEW d \in Nat, NEW m \in Nat, m > 0
  PROVE  (d + m) % m <= d
<1> DEFINE q == (d + m) \div m
           s == (d + m) % m
<1>1. s < m /\ s >= 0 /\ s \in Int /\ q \in Int /\ d + m = m * q + s
  OBVIOUS
<1> HIDE DEF q, s
<1>2. CASE d >= m
  BY <1>1, <1>2
<1>3. CASE d < m
  <2>1. ~ (q >= 2)
    BY <1>1, <1>3
  <2>2. ~ (q <= 0)
    BY <1>1, <1>3
  <2>3. q = 1
    BY <1>1, <2>1, <2>2
  <2> QED BY <1>1, <2>3
<1> QED BY <1>2, <1>3 DEF s

(* The score of a game that was won has a divisor, and its good trials are *)
(* some of its trials when no miss was repeated.                           *)
THEOREM ScoreDefined == Spec => []ScoreIsDefined
<1>1. Inv => ScoreIsDefined
  <2> SUFFICES ASSUME Inv, game.finished = Won
               PROVE  /\ (\E p, q \in Positions : Word[p] # Word[q]) => game.trials > 0
                      /\ game.errors = MissCount(game) => n_succ(game) <= game.trials
    BY MissesAre DEF ScoreIsDefined
  <2>1. /\ (\E p, q \in Positions : Word[p] # Word[q]) => game.trials > 0
        /\ MissCount(game) <= game.trials
        /\ game.trials \in Nat /\ game.errors \in Nat
    BY DEF Inv, GameInv, Scores, GameRecord
  <2>2. ASSUME game.errors = MissCount(game)
        PROVE  n_succ(game) <= game.trials
    <3> DEFINE d == game.trials - game.errors
    <3>1. d \in Nat /\ d <= game.trials /\ game.trials + Modulus - game.errors = d + Modulus
      BY <2>1, <2>2, ServGameAssumption
    <3>2. Modulus \in Nat /\ Modulus > 0
      BY ServGameAssumption
    <3>3. n_succ(game) = (d + Modulus) % Modulus
      BY <3>1 DEF n_succ
    <3> HIDE DEF d
    <3>4. (d + Modulus) % Modulus <= d /\ (d + Modulus) % Modulus \in Int
      BY <3>1, <3>2, NoWrap
    <3> QED BY <2>1, <3>1, <3>3, <3>4
  <2> QED BY <2>1, <2>2
<1> QED BY <1>1, InvHolds, PTL

(* Only SNG, on a game that is over, undoes anything. *)
THEOREM OnlyAdvances == Spec => GameOnlyAdvances
<1> DEFINE Advances ==
      last'.op # "SNG" =>
         /\ game'.errors >= game.errors
         /\ game.word_state \subseteq game'.word_state
         /\ game.finished # Running => game' = [game EXCEPT !.finished = game'.finished]
<1>1. ASSUME Inv, [Next]_vars
      PROVE  [Advances]_vars
  <2>1. game \in GameRecord /\ game.errors \in Nat
    BY <1>1 DEF Inv, GameInv, GameRecord
  <2>2. CASE Play
    BY <1>1, <2>2, PlayStep
  <2>3. CASE Guess
    BY <1>1, <2>3, GuessStep
  <2>4. CASE TooLate
    <3>1. game' = game
      BY <2>4 DEF TooLate, Serve
    <3>2. game = [game EXCEPT !.finished = game.finished]
      BY <2>1 DEF GameRecord
    <3> QED BY <2>1, <3>1, <3>2
  <2>5. CASE Quit
    <3>1. game' = [game EXCEPT !.finished = QuitByPlayer]
      BY <2>5 DEF Quit, Serve, QuitGame
    <3>2. /\ game'.finished = QuitByPlayer /\ game'.errors = game.errors
          /\ game'.word_state = game.word_state
      BY <2>1, <3>1 DEF GameRecord
    <3> QED BY <2>1, <3>1, <3>2
  <2>6. CASE Start
    BY <2>6 DEF Start, Serve
  <2>7. CASE UNCHANGED vars
    BY <2>7
  <2> QED BY <1>1, <2>2, <2>3, <2>4, <2>5, <2>6, <2>7 DEF Next
<1>2. Spec => [][Advances]_vars
  BY <1>1, InvHolds, PTL DEF Spec
<1> QED BY <1>2 DEF GameOnlyAdvances

(* The outcomes that GameStore assumes of a request are those of the rules.*)
THEOREM Outcomes == Spec => OutcomesAsAssumed
<1> DEFINE Assumed ==
      /\ last'.op = "PLG" /\ last'.tok # "ERR" =>
           Outcome!Result(last'.tok, Abstract(game')) \in Outcome!LetterResults(Abstract(game))
      /\ last'.op = "PWG" /\ last'.tok # "ERR" =>
           Outcome!Result(last'.tok, Abstract(game')) \in Outcome!WordResults(Abstract(game))
<1>1. ASSUME Inv, [Next]_vars
      PROVE  [Assumed]_vars
  <2>1. CASE Play
    BY <1>1, <2>1, PlayStep
  <2>2. CASE Guess
    BY <1>1, <2>2, GuessStep
  <2>3. CASE TooLate
    <3>1. last'.tok = "ERR"
      BY <2>3 DEF TooLate, Serve
    <3> QED BY <3>1
  <2>4. CASE Quit
    <3>1. last'.op = "QUT"
      BY <2>4 DEF Quit, Serve
    <3> QED BY <3>1
  <2>5. CASE Start
    <3>1. last'.op = "SNG"
      BY <2>5 DEF Start, Serve
    <3> QED BY <3>1
  <2>6. CASE UNCHANGED vars
    BY <2>6
  <2> QED BY <1>1, <2>1, <2>2, <2>3, <2>4, <2>5, <2>6 DEF Next
<1>2. Spec => [][Assumed]_vars
  BY <1>1, InvHolds, PTL DEF Spec
<1> QED BY <1>2 DEF OutcomesAsAssumed
=============================================================================
