-------------------------- MODULE GameRules_proofs --------------------------
(***************************************************************************)
(* What the operators of GameRules do to one game, for every word and every*)
(* alphabet.  ServGame_proofs and Session_proofs rest on these lemmas.     *)
(***************************************************************************)
EXTENDS GameRules, FiniteSetTheorems, SequenceTheorems, TLAPS

(* A set of naturals that is not empty has a least element. *)
LEMMA LeastElement ==
  ASSUME NEW T \in SUBSET Nat, T # {}
  PROVE  \E m \in T : \A n \in T : m <= n
<1>1. PICK m \in T : \A n \in T : ~ (<<n, m>> \in OpToRel(<, Nat))
  BY NatLessThanWellFounded, WFMin
<1>2. \A n \in T : <<n, m>> \in OpToRel(<, Nat) <=> n < m
  BY DEF OpToRel
<1>3. \A n \in T : n \in Nat /\ m \in Nat /\ ~ (n < m)
  BY <1>1, <1>2
<1> QED BY <1>3

(* The loop that searches a table finds the entry when there is one. *)
LEMMA FirstSlotFinds ==
  ASSUME NEW S, NEW seq \in Seq(S), NEW x
  PROVE  /\ FirstSlot(seq, x) = 0 => \A k \in 1..Len(seq) : seq[k] # x
         /\ FirstSlot(seq, x) # 0 => FirstSlot(seq, x) \in 1..Len(seq) /\ seq[FirstSlot(seq, x)] = x
<1> DEFINE T == {k \in DOMAIN seq : seq[k] = x}
<1>1. DOMAIN seq = 1..Len(seq) /\ Len(seq) \in Nat
  BY LenProperties
<1>2. CASE T = {}
  BY <1>1, <1>2 DEF FirstSlot
<1>3. CASE T # {}
  <2>1. T \in SUBSET Nat
    BY <1>1
  <2> HIDE DEF T
  <2>2. PICK m \in T : \A n \in T : m <= n
    BY <1>3, <2>1, LeastElement
  <2> USE DEF T
  <2>3. \A j \in 1..(m - 1) : seq[j] # x
    BY <1>1, <2>2
  <2>4. \E k \in DOMAIN seq : seq[k] = x /\ \A j \in 1..(k - 1) : seq[j] # x
    BY <2>2, <2>3
  <2>5. FirstSlot(seq, x) = CHOOSE k \in DOMAIN seq : seq[k] = x /\ \A j \in 1..(k - 1) : seq[j] # x
    BY <1>3 DEF FirstSlot
  <2>6. FirstSlot(seq, x) \in DOMAIN seq /\ seq[FirstSlot(seq, x)] = x
    BY <2>4, <2>5
  <2> QED BY <1>1, <2>6
<1> QED BY <1>2, <1>3

----------------------------------------------------------------------------
(* The effect of a request that was accepted, without the search: the table *)
(* now holds x, as a new entry or where it was when the last request was    *)
(* counted; t is the number of trials before this one is counted.           *)
Entered(g, old, new, x, t, out) ==
  /\ Range(new) = Range(old) \union {x}
  /\ \/ /\ t = g.trials /\ Len(new) = Len(old) + 1 /\ out = g.trials + 1
        /\ ~ (x \in Range(old) /\ g.last_was_incremental)
     \/ /\ t + 1 = g.trials /\ Len(new) = Len(old)
        /\ x \in Range(old) /\ g.last_was_incremental

Refusal(g, out, r) ==
  /\ r.tok = IF out # g.trials + 1 THEN "INV" ELSE "DUP"
  /\ r.game = [g EXCEPT !.last_was_incremental = FALSE]

(* A game by its fields.                                                     *)
After(letters, words, word_state, trials, errors, finished, counted) ==
  [letters |-> letters, words |-> words, word_state |-> word_state, trials |-> trials,
   errors |-> errors, finished |-> finished, last_was_incremental |-> counted]

LetterTaken(g, ch, out, r) ==
  \E ls \in Seq(Letters), t \in Nat :
    /\ Entered(g, g.letters, ls, ch, t, out)
    /\ LET ws == g.word_state \union Occurrences(ch) IN
         \/ /\ ws = Positions
            /\ r = [tok |-> "WIN", game |-> After(ls, g.words, ws, t, g.errors, Won, FALSE)]
         \/ /\ ws # Positions /\ Occurrences(ch) # {}
            /\ r = [tok |-> "OK", game |-> After(ls, g.words, ws, t + 1, g.errors, g.finished, TRUE)]
         \/ /\ ws # Positions /\ Occurrences(ch) = {} /\ g.errors + 1 > max_errors
            /\ r = [tok |-> "OVR", game |-> After(ls, g.words, ws, t, g.errors + 1, Lost, FALSE)]
         \/ /\ ws # Positions /\ Occurrences(ch) = {} /\ g.errors + 1 <= max_errors
            /\ r = [tok |-> "NOK", game |-> After(ls, g.words, ws, t + 1, g.errors + 1, g.finished, TRUE)]

WordTaken(g, w, out, r) ==
  \E ws \in Seq(Guesses), t \in Nat :
    /\ Entered(g, g.words, ws, w, t, out)
    /\ \/ /\ w = Word
          /\ r = [tok |-> "WIN", game |-> After(g.letters, ws, g.word_state, t + 1, g.errors, Won, TRUE)]
       \/ /\ w # Word
          /\ r = [tok |-> "OVR", game |-> After(g.letters, ws, g.word_state, t, g.errors + 1, Lost, FALSE)]
       \/ /\ w # Word
          /\ r = [tok |-> "NOK", game |-> After(g.letters, ws, g.word_state, t + 1, g.errors + 1, g.finished, TRUE)]

(* A trial is taken back only when there is one: what TLC checks as a part  *)
(* of TypeOK.                                                               *)
CountsBack(g) == g.last_was_incremental => g.trials > 0

(* An entry that is no repetition goes into its table, and the trials and  *)
(* errors count it.                                                        *)
LEMMA RecordEnters ==
  ASSUME NEW S, NEW old \in Seq(S), NEW x \in S, NEW g \in GameRecord, CountsBack(g), NEW out \in Nat,
         NEW repeated \in BOOLEAN, repeated = IsRepetition(g, FirstSlot(old, x)),
         ~ IsDuplicate(g, FirstSlot(old, x)), repeated \/ out = g.trials + 1
  PROVE  LET new == Record(old, IF repeated THEN FirstSlot(old, x) ELSE 0, x)
         IN  new \in Seq(S) /\ TrialsBefore(g, repeated) \in Nat
               /\ Entered(g, old, new, x, TrialsBefore(g, repeated), out)
<1> DEFINE k == FirstSlot(old, x)
           new == Record(old, IF repeated THEN k ELSE 0, x)
<1>1. g.trials \in Nat /\ g.last_was_incremental \in BOOLEAN
  BY DEF GameRecord
<1>2. CASE repeated
  <2>1. k # 0 /\ g.last_was_incremental /\ g.trials > 0
    BY <1>2 DEF IsRepetition, CountsBack
  <2>2. k \in 1..Len(old) /\ old[k] = x
    BY <2>1, FirstSlotFinds
  <2>3. new = [old EXCEPT ![k] = x]
    BY <1>2, <2>1 DEF Record
  <2>4. new = old
    BY <2>2, <2>3, LenProperties, ExceptSeq, SeqEqual
  <2>5. x \in Range(old)
    BY <2>2, LenProperties DEF Range
  <2> QED BY <1>1, <1>2, <2>1, <2>4, <2>5 DEF TrialsBefore, Entered
<1>3. CASE ~ repeated
  <2>1. new = Append(old, x)
    BY <1>3 DEF Record
  <2>2. /\ new \in Seq(S) /\ Len(new) = Len(old) + 1
        /\ \A i \in 1..Len(old) : new[i] = old[i]
        /\ new[Len(old) + 1] = x
    BY <2>1, AppendProperties
  <2>3. Range(new) = Range(old) \union {x}
    <3>1. /\ DOMAIN old = 1..Len(old) /\ Len(old) \in Nat
          /\ DOMAIN new = 1..(Len(old) + 1)
      BY <2>2, LenProperties
    <3> QED BY <2>2, <3>1 DEF Range
  <2>4. ~ (x \in Range(old) /\ g.last_was_incremental)
    <3>1. CASE FirstSlot(old, x) = 0
      BY <3>1, FirstSlotFinds, LenProperties DEF Range
    <3>2. CASE FirstSlot(old, x) # 0
      BY <1>1, <1>3, <3>2 DEF IsRepetition
    <3> QED BY <3>1, <3>2
  <2> QED BY <1>1, <1>3, <2>2, <2>3, <2>4 DEF TrialsBefore, Entered
<1> QED BY <1>2, <1>3

(* Two games with the same fields are the same. *)
LEMMA ByFields ==
  ASSUME NEW g \in GameRecord
  PROVE  g = After(g.letters, g.words, g.word_state, g.trials, g.errors, g.finished, g.last_was_incremental)
  BY DEF GameRecord, After

(* What the steps that play_impl and guess_impl share do to the fields. *)
LEMMA MissedByField ==
  ASSUME NEW g \in GameRecord
  PROVE  Missed(g) = After(g.letters, g.words, g.word_state, g.trials, g.errors + 1,
                           g.finished, g.last_was_incremental)
  BY DEF Missed, GameRecord, After

(* A counted request adds one trial and may be repeated. *)
LEMMA CountByField ==
  ASSUME NEW g \in GameRecord, NEW tok
  PROVE  Count(tok, g) = [tok |-> tok, game |-> After(g.letters, g.words, g.word_state, g.trials + 1,
                                                      g.errors, g.finished, TRUE)]
<1> DEFINE n == g.trials + 1
           h == [g EXCEPT !.trials = n, !.last_was_incremental = TRUE]
<1>1. n \in Nat
  BY DEF GameRecord
<1>2. Count(tok, g) = [tok |-> tok, game |-> h]
  BY DEF Count
<1> HIDE DEF n
<1>3. h \in GameRecord
  BY <1>1 DEF GameRecord
<1>4. /\ h.letters = g.letters /\ h.words = g.words /\ h.word_state = g.word_state
      /\ h.trials = n /\ h.errors = g.errors
      /\ h.finished = g.finished /\ h.last_was_incremental = TRUE
  BY DEF GameRecord
<1> HIDE DEF h
<1>5. h = After(g.letters, g.words, g.word_state, n, g.errors, g.finished, TRUE)
  BY <1>3, <1>4, ByFields
<1> QED BY <1>2, <1>5 DEF n

(* A request that ends the game sets finished and cannot be repeated. *)
LEMMA OverByField ==
  ASSUME NEW g \in GameRecord, NEW tok, NEW result \in Running..QuitByPlayer
  PROVE  Over(tok, result, g) = [tok |-> tok, game |-> After(g.letters, g.words, g.word_state, g.trials,
                                                             g.errors, result, FALSE)]
<1> DEFINE h == [g EXCEPT !.finished = result, !.last_was_incremental = FALSE]
<1>1. h \in GameRecord
  BY DEF GameRecord
<1>2. /\ h.letters = g.letters /\ h.words = g.words /\ h.word_state = g.word_state
      /\ h.trials = g.trials /\ h.errors = g.errors
      /\ h.finished = result /\ h.last_was_incremental = FALSE
  BY DEF GameRecord
<1>3. Over(tok, result, g) = [tok |-> tok, game |-> h]
  BY DEF Over
<1> HIDE DEF h
<1> QED BY <1>1, <1>2, <1>3, ByFields

(* A reply and a game that still has the fields of the record. *)
LEMMA AfterIsGame ==
  ASSUME NEW ls \in Seq(Letters), NEW gs \in Seq(Guesses), NEW ws \in SUBSET Positions,
         NEW t \in Nat, NEW e \in Nat, NEW f \in Running..QuitByPlayer, NEW c \in BOOLEAN
  PROVE  /\ After(ls, gs, ws, t, e, f, c) \in GameRecord
         /\ After(ls, gs, ws, t, e, f, c).letters = ls
         /\ After(ls, gs, ws, t, e, f, c).words = gs
         /\ After(ls, gs, ws, t, e, f, c).word_state = ws
         /\ After(ls, gs, ws, t, e, f, c).trials = t
         /\ After(ls, gs, ws, t, e, f, c).errors = e
         /\ After(ls, gs, ws, t, e, f, c).finished = f
         /\ After(ls, gs, ws, t, e, f, c).last_was_incremental = c
  BY DEF After, GameRecord

(* Revealed positions are positions of the word. *)
LEMMA OccurrencesType ==
  ASSUME NEW g \in GameRecord, NEW ch
  PROVE  g.word_state \union Occurrences(ch) \in SUBSET Positions
  BY DEF GameRecord, Occurrences

(* play_impl refuses a letter or takes it. *)
LEMMA PlayLetterEffect ==
  ASSUME NEW g \in GameRecord, CountsBack(g), NEW ch \in Letters, NEW out \in Nat
  PROVE  Refusal(g, out, PlayLetter(g, ch, out)) \/ LetterTaken(g, ch, out, PlayLetter(g, ch, out))
<1> DEFINE k == FirstSlot(g.letters, ch)
           rep == IsRepetition(g, k)
           ls == Record(g.letters, IF rep THEN k ELSE 0, ch)
           t == TrialsBefore(g, rep)
           ws == g.word_state \union Occurrences(ch)
           tried == [g EXCEPT !.letters = ls, !.word_state = ws, !.trials = t]
           missed == Missed(tried)
           r == PlayLetter(g, ch, out)
<1>1. /\ g.letters \in Seq(Letters) /\ g.words \in Seq(Guesses) /\ g.errors \in Nat
      /\ g.trials \in Nat /\ g.last_was_incremental \in BOOLEAN
      /\ g = After(g.letters, g.words, g.word_state, g.trials, g.errors, g.finished, g.last_was_incremental)
  BY DEF GameRecord, After
<1>2. rep \in BOOLEAN
  BY <1>1 DEF IsRepetition, IsDuplicate
<1>3. CASE IsDuplicate(g, k) \/ (~ rep /\ out # g.trials + 1)
  <2>1. r = Refuse(g, out)
    BY <1>3 DEF PlayLetter
  <2> QED BY <2>1 DEF Refuse, Refusal
<1>4. CASE ~ IsDuplicate(g, k) /\ (rep \/ out = g.trials + 1)
  <2>1. ls \in Seq(Letters) /\ t \in Nat /\ Entered(g, g.letters, ls, ch, t, out)
    BY <1>1, <1>2, <1>4, RecordEnters
  <2>2. r = IF tried.word_state = Positions THEN Over("WIN", Won, tried)
            ELSE IF Hits(g, ch) # {} THEN Count("OK", tried)
            ELSE IF missed.errors > max_errors THEN Over("OVR", Lost, missed)
            ELSE Count("NOK", missed)
    BY <1>4 DEF PlayLetter
  <2>3. /\ tried = After(ls, g.words, ws, t, g.errors, g.finished, g.last_was_incremental)
        /\ tried \in GameRecord
    <3>1. tried \in GameRecord
      BY <2>1, OccurrencesType DEF GameRecord
    <3>2. /\ tried.letters = ls /\ tried.words = g.words /\ tried.word_state = ws
          /\ tried.trials = t /\ tried.errors = g.errors
          /\ tried.finished = g.finished /\ tried.last_was_incremental = g.last_was_incremental
      BY DEF GameRecord
    <3> HIDE DEF tried, ls, ws, t
    <3> QED BY <3>1, <3>2, ByFields
  <2>4. /\ ls \in Seq(Letters) /\ g.words \in Seq(Guesses) /\ ws \in SUBSET Positions
        /\ t \in Nat /\ g.errors \in Nat /\ g.errors + 1 \in Nat
        /\ g.finished \in Running..QuitByPlayer /\ g.last_was_incremental \in BOOLEAN
        /\ Won \in Running..QuitByPlayer /\ Lost \in Running..QuitByPlayer
    BY <2>1, OccurrencesType DEF GameRecord, Running, Won, Lost, QuitByPlayer
  <2> HIDE DEF k, rep, ls, t, ws, tried
  <2>5. /\ tried.letters = ls /\ tried.words = g.words /\ tried.word_state = ws
        /\ tried.trials = t /\ tried.errors = g.errors
        /\ tried.finished = g.finished /\ tried.last_was_incremental = g.last_was_incremental
    BY <2>3, <2>4, AfterIsGame
  <2>6. missed = After(ls, g.words, ws, t, g.errors + 1, g.finished, g.last_was_incremental)
    BY <2>3, <2>5, MissedByField
  <2>7. missed \in GameRecord
    BY <2>4, <2>6, AfterIsGame
  <2> HIDE DEF missed, r
  <2>8. /\ missed.letters = ls /\ missed.words = g.words /\ missed.word_state = ws
        /\ missed.trials = t /\ missed.errors = g.errors + 1
        /\ missed.finished = g.finished /\ missed.last_was_incremental = g.last_was_incremental
    BY <2>4, <2>6, AfterIsGame
  <2>9. /\ tried.word_state = ws /\ missed.errors = g.errors + 1
    BY <2>5, <2>8
  <2>10. /\ Over("WIN", Won, tried) = [tok |-> "WIN", game |-> After(ls, g.words, ws, t, g.errors, Won, FALSE)]
        /\ Count("OK", tried) = [tok |-> "OK", game |-> After(ls, g.words, ws, t + 1, g.errors, g.finished, TRUE)]
        /\ Over("OVR", Lost, missed) = [tok |-> "OVR", game |-> After(ls, g.words, ws, t, g.errors + 1, Lost, FALSE)]
        /\ Count("NOK", missed) = [tok |-> "NOK", game |-> After(ls, g.words, ws, t + 1, g.errors + 1, g.finished, TRUE)]
    <3>1. Over("WIN", Won, tried) = [tok |-> "WIN", game |-> After(ls, g.words, ws, t, g.errors, Won, FALSE)]
      <4>1. tried \in GameRecord /\ Won \in Running..QuitByPlayer
        BY <2>3, <2>4
      <4> QED BY <2>5, <4>1, OverByField
    <3>2. Count("OK", tried) = [tok |-> "OK", game |-> After(ls, g.words, ws, t + 1, g.errors, g.finished, TRUE)]
      BY <2>3, <2>5, CountByField
    <3>3. Over("OVR", Lost, missed) = [tok |-> "OVR", game |-> After(ls, g.words, ws, t, g.errors + 1, Lost, FALSE)]
      BY <2>7, <2>4, <2>8, OverByField
    <3>4. Count("NOK", missed) = [tok |-> "NOK", game |-> After(ls, g.words, ws, t + 1, g.errors + 1, g.finished, TRUE)]
      BY <2>7, <2>8, CountByField
    <3> QED BY <3>1, <3>2, <3>3, <3>4
  <2>11. max_errors \in Nat
    BY DEF max_errors, get_errs
  <2>12. \/ /\ ws = Positions
           /\ r = Over("WIN", Won, tried)
        \/ /\ ws # Positions /\ Occurrences(ch) # {}
           /\ r = Count("OK", tried)
        \/ /\ ws # Positions /\ Occurrences(ch) = {} /\ g.errors + 1 > max_errors
           /\ r = Over("OVR", Lost, missed)
        \/ /\ ws # Positions /\ Occurrences(ch) = {} /\ g.errors + 1 <= max_errors
           /\ r = Count("NOK", missed)
    BY <1>1, <2>2, <2>9, <2>11 DEF Hits
  <2>13. LetterTaken(g, ch, out, r)
    BY <2>1, <2>10, <2>12 DEF LetterTaken, ws
  <2> QED BY <2>13 DEF r
<1> QED BY <1>3, <1>4

(* guess_impl refuses a word or takes it. *)
LEMMA GuessWordEffect ==
  ASSUME NEW g \in GameRecord, CountsBack(g), NEW w \in Guesses, NEW out \in Nat
  PROVE  Refusal(g, out, GuessWord(g, w, out)) \/ WordTaken(g, w, out, GuessWord(g, w, out))
<1> DEFINE k == FirstSlot(g.words, w)
           rep == IsRepetition(g, k)
           ws == Record(g.words, IF rep THEN k ELSE 0, w)
           t == TrialsBefore(g, rep)
           tried == [g EXCEPT !.words = ws, !.trials = t]
           missed == Missed(tried)
           r == GuessWord(g, w, out)
<1>1. /\ g.letters \in Seq(Letters) /\ g.words \in Seq(Guesses) /\ g.errors \in Nat
      /\ g.trials \in Nat /\ g.last_was_incremental \in BOOLEAN
      /\ g = After(g.letters, g.words, g.word_state, g.trials, g.errors, g.finished, g.last_was_incremental)
  BY DEF GameRecord, After
<1>2. rep \in BOOLEAN
  BY <1>1 DEF IsRepetition, IsDuplicate
<1>3. CASE IsDuplicate(g, k) \/ (~ rep /\ out # g.trials + 1)
  <2>1. r = Refuse(g, out)
    BY <1>3 DEF GuessWord
  <2> QED BY <2>1 DEF Refuse, Refusal
<1>4. CASE ~ IsDuplicate(g, k) /\ (rep \/ out = g.trials + 1)
  <2>1. ws \in Seq(Guesses) /\ t \in Nat /\ Entered(g, g.words, ws, w, t, out)
    BY <1>1, <1>2, <1>4, RecordEnters
  <2>2. r = IF w = Word THEN Count("WIN", [tried EXCEPT !.finished = Won])
            ELSE IF missed.errors = max_errors THEN Over("OVR", Lost, missed)
            ELSE Count("NOK", missed)
    BY <1>4 DEF GuessWord
  <2>3. /\ tried = After(g.letters, ws, g.word_state, t, g.errors, g.finished, g.last_was_incremental)
        /\ tried \in GameRecord
    <3>1. tried \in GameRecord
      BY <2>1 DEF GameRecord
    <3>2. /\ tried.letters = g.letters /\ tried.words = ws /\ tried.word_state = g.word_state
          /\ tried.trials = t /\ tried.errors = g.errors
          /\ tried.finished = g.finished /\ tried.last_was_incremental = g.last_was_incremental
      BY DEF GameRecord
    <3> HIDE DEF tried, ws, t
    <3> QED BY <3>1, <3>2, ByFields
  <2>4. /\ g.letters \in Seq(Letters) /\ ws \in Seq(Guesses) /\ g.word_state \in SUBSET Positions
        /\ t \in Nat /\ g.errors \in Nat /\ g.errors + 1 \in Nat
        /\ g.finished \in Running..QuitByPlayer /\ g.last_was_incremental \in BOOLEAN
        /\ Won \in Running..QuitByPlayer /\ Lost \in Running..QuitByPlayer
    BY <2>1 DEF GameRecord, Running, Won, Lost, QuitByPlayer
  <2> HIDE DEF k, rep, ws, t, tried
  <2>5. /\ tried.letters = g.letters /\ tried.words = ws /\ tried.word_state = g.word_state
        /\ tried.trials = t /\ tried.errors = g.errors
        /\ tried.finished = g.finished /\ tried.last_was_incremental = g.last_was_incremental
    BY <2>3, <2>4, AfterIsGame
  <2>6. /\ missed = After(g.letters, ws, g.word_state, t, g.errors + 1, g.finished, g.last_was_incremental)
        /\ missed \in GameRecord
    <3>1. missed = After(g.letters, ws, g.word_state, t, g.errors + 1, g.finished, g.last_was_incremental)
      BY <2>3, <2>5, MissedByField
    <3> QED BY <3>1, <2>4, AfterIsGame
  <2> HIDE DEF missed, r
  <2>7. /\ missed.letters = g.letters /\ missed.words = ws /\ missed.word_state = g.word_state
        /\ missed.trials = t /\ missed.errors = g.errors + 1
        /\ missed.finished = g.finished /\ missed.last_was_incremental = g.last_was_incremental
    BY <2>4, <2>6, AfterIsGame
  <2> DEFINE won == [tried EXCEPT !.finished = Won]
  <2>8. won = After(g.letters, ws, g.word_state, t, g.errors, Won, g.last_was_incremental)
    BY <2>3 DEF After
  <2> HIDE DEF won
  <2>9. /\ won \in GameRecord
        /\ won.letters = g.letters /\ won.words = ws /\ won.word_state = g.word_state
        /\ won.trials = t /\ won.errors = g.errors /\ won.finished = Won
    BY <2>4, <2>8, AfterIsGame
  <2>10. /\ Count("WIN", won)
             = [tok |-> "WIN", game |-> After(g.letters, ws, g.word_state, t + 1, g.errors, Won, TRUE)]
        /\ Over("OVR", Lost, missed)
             = [tok |-> "OVR", game |-> After(g.letters, ws, g.word_state, t, g.errors + 1, Lost, FALSE)]
        /\ Count("NOK", missed)
             = [tok |-> "NOK", game |-> After(g.letters, ws, g.word_state, t + 1, g.errors + 1, g.finished, TRUE)]
    <3>1. Count("WIN", won) = [tok |-> "WIN", game |-> After(g.letters, ws, g.word_state, t + 1, g.errors, Won, TRUE)]
      BY <2>9, CountByField
    <3>2. Over("OVR", Lost, missed)
             = [tok |-> "OVR", game |-> After(g.letters, ws, g.word_state, t, g.errors + 1, Lost, FALSE)]
      <4>1. missed \in GameRecord /\ Lost \in Running..QuitByPlayer
        BY <2>6, <2>4
      <4> QED BY <2>7, <4>1, OverByField
    <3>3. Count("NOK", missed)
             = [tok |-> "NOK", game |-> After(g.letters, ws, g.word_state, t + 1, g.errors + 1, g.finished, TRUE)]
      BY <2>6, <2>7, CountByField
    <3> QED BY <3>1, <3>2, <3>3
  <2>11. WordTaken(g, w, out, r)
    BY <2>1, <2>2, <2>10 DEF WordTaken, won
  <2> QED BY <2>11 DEF r
<1> QED BY <1>3, <1>4

----------------------------------------------------------------------------
(* What every request keeps true of a game *)

(* The entries of the two tables that miss.                                *)
WordLetters == {Word[p] : p \in Positions}
LetterMisses(g) == Range(g.letters) \ WordLetters
WordMisses(g) == Range(g.words) \ {Word}
MissCount(g) == Cardinality(LetterMisses(g)) + Cardinality(WordMisses(g))

(* The parts of the inductive invariant, of the game that the file holds.  *)
Matches(g) == g.finished = Running => g.trials = Len(g.letters) + Len(g.words)

Shown(g) == g.word_state = {p \in Positions : Word[p] \in Range(g.letters)}

Unsolved(g) == g.finished = Running => g.word_state # Positions /\ Word \notin Range(g.words)

Costs(g) ==
  /\ g.errors >= MissCount(g)
  /\ g.finished = Running /\ g.errors > max_errors => g.words # << >>

(* A game that was won has as many trials as distinct misses, and one at   *)
(* least when the word has two different letters.                          *)
Scores(g) ==
  g.finished = Won =>
    /\ (\E p, q \in Positions : Word[p] # Word[q]) => g.trials > 0
    /\ MissCount(g) <= g.trials

GameInv(g) ==
  /\ g \in GameRecord
  /\ CountsBack(g)
  /\ Matches(g)
  /\ Shown(g)
  /\ Unsolved(g)
  /\ Costs(g)
  /\ Scores(g)

----------------------------------------------------------------------------
(* Lemmas about tables and misses *)

(* A table has no more distinct entries than entries. *)
LEMMA DistinctEntries ==
  ASSUME NEW S, NEW seq \in Seq(S)
  PROVE  /\ IsFiniteSet(Range(seq)) /\ Range(seq) \subseteq S
         /\ Cardinality(Range(seq)) \in Nat /\ Cardinality(Range(seq)) <= Len(seq)
<1>1. DOMAIN seq = 1..Len(seq) /\ Len(seq) \in Nat /\ seq \in [1..Len(seq) -> S]
  BY LenProperties
<1>2. seq \in Surjection(1..Len(seq), Range(seq))
  BY <1>1 DEF Surjection, Range
<1>3. IsFiniteSet(1..Len(seq)) /\ Cardinality(1..Len(seq)) = Len(seq)
  BY <1>1, FS_Interval
<1>4. IsFiniteSet(Range(seq)) /\ Cardinality(Range(seq)) <= Cardinality(1..Len(seq))
  BY <1>2, <1>3, FS_Surjection DEF ExistsSurjection
<1> QED BY <1>1, <1>3, <1>4, FS_CardinalityType DEF Range

(* The misses of a table are among its entries. *)
LEMMA MissesBounded ==
  ASSUME NEW g \in GameRecord
  PROVE  /\ IsFiniteSet(LetterMisses(g)) /\ IsFiniteSet(WordMisses(g))
         /\ Cardinality(LetterMisses(g)) \in Nat /\ Cardinality(WordMisses(g)) \in Nat
         /\ Len(g.letters) \in Nat /\ Len(g.words) \in Nat
         /\ Cardinality(LetterMisses(g)) <= Len(g.letters)
         /\ Cardinality(WordMisses(g)) <= Len(g.words)
<1>1. g.letters \in Seq(Letters) /\ g.words \in Seq(Guesses)
  BY DEF GameRecord
<1>2. /\ IsFiniteSet(Range(g.letters)) /\ Cardinality(Range(g.letters)) <= Len(g.letters)
      /\ IsFiniteSet(Range(g.words)) /\ Cardinality(Range(g.words)) <= Len(g.words)
      /\ Cardinality(Range(g.letters)) \in Nat /\ Cardinality(Range(g.words)) \in Nat
  BY <1>1, DistinctEntries
<1>3. /\ LetterMisses(g) \in SUBSET Range(g.letters)
      /\ WordMisses(g) \in SUBSET Range(g.words)
  BY DEF LetterMisses, WordMisses
<1>4. /\ IsFiniteSet(LetterMisses(g)) /\ Cardinality(LetterMisses(g)) <= Cardinality(Range(g.letters))
      /\ IsFiniteSet(WordMisses(g)) /\ Cardinality(WordMisses(g)) <= Cardinality(Range(g.words))
  BY <1>2, <1>3, FS_Subset
<1>5. Cardinality(LetterMisses(g)) \in Nat /\ Cardinality(WordMisses(g)) \in Nat
  BY <1>4, FS_CardinalityType
<1>6. Len(g.letters) \in Nat /\ Len(g.words) \in Nat
  BY <1>1, LenProperties
<1> QED BY <1>2, <1>4, <1>5, <1>6

(* There are no more misses than entries. *)
LEMMA MissesCounted ==
  ASSUME NEW g \in GameRecord
  PROVE  MissCount(g) \in Nat /\ MissCount(g) <= Len(g.letters) + Len(g.words)
<1>1. \A a, b, c, d \in Nat : a <= c /\ b <= d => a + b \in Nat /\ a + b <= c + d
  OBVIOUS
<1> QED BY <1>1, MissesBounded DEF MissCount

(* One more entry is at most one more miss, and none when it is a hit. *)
LEMMA OneMoreMiss ==
  ASSUME NEW R1, NEW R2, NEW Hit, NEW x, R2 = R1 \union {x}, IsFiniteSet(R1 \ Hit)
  PROVE  /\ IsFiniteSet(R2 \ Hit)
         /\ Cardinality(R2 \ Hit) <= Cardinality(R1 \ Hit) + 1
         /\ x \in Hit => R2 \ Hit = R1 \ Hit
<1>1. CASE x \in Hit
  <2>1. R2 \ Hit = R1 \ Hit
    BY <1>1
  <2>2. Cardinality(R1 \ Hit) \in Nat
    BY FS_CardinalityType
  <2>3. Cardinality(R2 \ Hit) = Cardinality(R1 \ Hit)
    BY <2>1
  <2>4. IsFiniteSet(R2 \ Hit)
    BY <2>1
  <2> QED BY <2>1, <2>2, <2>3, <2>4
<1>2. CASE x \notin Hit
  <2>1. R2 \ Hit = (R1 \ Hit) \union {x}
    BY <1>2
  <2>2. Cardinality(R1 \ Hit) \in Nat
    BY FS_CardinalityType
  <2> QED BY <1>2, <2>1, <2>2, FS_AddElement
<1> QED BY <1>1, <1>2

(* A letter has occurrences just when the word has it. *)
LEMMA OccurrencesOfHit ==
  ASSUME NEW ch
  PROVE  Occurrences(ch) # {} <=> ch \in WordLetters
  BY DEF Occurrences, WordLetters

----------------------------------------------------------------------------
(* Every request keeps the invariant *)

(* A refused request changes nothing that the invariant is about. *)
LEMMA RefusalKeeps ==
  ASSUME NEW g, GameInv(g), NEW out, NEW r, Refusal(g, out, r)
  PROVE  GameInv(r.game)
<1> DEFINE h == r.game
<1>1. g \in GameRecord /\ h = [g EXCEPT !.last_was_incremental = FALSE]
  BY DEF GameInv, Refusal
<1>2. /\ h \in GameRecord
      /\ h.letters = g.letters /\ h.words = g.words /\ h.word_state = g.word_state
      /\ h.trials = g.trials /\ h.errors = g.errors /\ h.finished = g.finished
      /\ h.last_was_incremental = FALSE
  BY <1>1 DEF GameRecord
<1> HIDE DEF h
<1> QED BY <1>2 DEF GameInv, CountsBack, Matches, Shown, Unsolved, Costs, Scores,
                    MissCount, LetterMisses, WordMisses, h

(* A letter that was tried before reveals nothing: it does not win. *)
LEMMA WinIsNew ==
  ASSUME NEW g, GameInv(g), g.finished = Running, NEW ls, NEW ch, NEW t, NEW out,
         Entered(g, g.letters, ls, ch, t, out),
         g.word_state \union Occurrences(ch) = Positions
  PROVE  t = g.trials /\ Len(ls) = Len(g.letters) + 1 /\ Occurrences(ch) # {}
<1>1. /\ g.word_state = {p \in Positions : Word[p] \in Range(g.letters)}
      /\ g.word_state # Positions
  BY DEF GameInv, Shown, Unsolved
<1>2. \/ t = g.trials /\ Len(ls) = Len(g.letters) + 1
      \/ ch \in Range(g.letters)
  BY DEF Entered
<1>3. ch \in Range(g.letters) => g.word_state \union Occurrences(ch) = g.word_state
  BY <1>1 DEF Occurrences
<1> QED BY <1>1, <1>2, <1>3

(* A letter that is taken: its occurrences are revealed. *)
LEMMA LetterKeeps ==
  ASSUME NEW g, GameInv(g), g.finished = Running,
         NEW ch \in Letters, NEW out \in Nat, NEW r, LetterTaken(g, ch, out, r)
  PROVE  GameInv(r.game)
<1> DEFINE h == r.game
           wst == g.word_state \union Occurrences(ch)
<1>1. PICK ls \in Seq(Letters), t \in Nat :
        /\ Entered(g, g.letters, ls, ch, t, out)
        /\ \/ /\ wst = Positions
              /\ r = [tok |-> "WIN", game |-> After(ls, g.words, wst, t, g.errors, Won, FALSE)]
           \/ /\ wst # Positions /\ Occurrences(ch) # {}
              /\ r = [tok |-> "OK", game |-> After(ls, g.words, wst, t + 1, g.errors, g.finished, TRUE)]
           \/ /\ wst # Positions /\ Occurrences(ch) = {} /\ g.errors + 1 > max_errors
              /\ r = [tok |-> "OVR", game |-> After(ls, g.words, wst, t, g.errors + 1, Lost, FALSE)]
           \/ /\ wst # Positions /\ Occurrences(ch) = {} /\ g.errors + 1 <= max_errors
              /\ r = [tok |-> "NOK", game |-> After(ls, g.words, wst, t + 1, g.errors + 1, g.finished, TRUE)]
  BY DEF LetterTaken
<1>2. /\ g \in GameRecord
      /\ g.words \in Seq(Guesses) /\ g.letters \in Seq(Letters)
      /\ g.trials \in Nat /\ g.errors \in Nat /\ g.errors + 1 \in Nat /\ t + 1 \in Nat
      /\ wst \in SUBSET Positions
      /\ g.finished \in Running..QuitByPlayer
      /\ Won \in Running..QuitByPlayer /\ Lost \in Running..QuitByPlayer
      /\ Running # Won /\ Running # Lost /\ Won # Lost
      /\ max_errors \in Nat
  BY OccurrencesType DEF GameInv, GameRecord, Running, Won, Lost, QuitByPlayer, max_errors, get_errs
<1> DEFINE f == IF wst = Positions THEN Won
                ELSE IF Occurrences(ch) = {} /\ g.errors + 1 > max_errors THEN Lost ELSE g.finished
           e == IF wst # Positions /\ Occurrences(ch) = {} THEN g.errors + 1 ELSE g.errors
           c == ~ (wst = Positions \/ (Occurrences(ch) = {} /\ g.errors + 1 > max_errors))
           n == IF c THEN t + 1 ELSE t
<1>3. h = After(ls, g.words, wst, n, e, f, c)
  <2>1. CASE /\ wst = Positions
             /\ r = [tok |-> "WIN", game |-> After(ls, g.words, wst, t, g.errors, Won, FALSE)]
    <3>1. f = Won /\ e = g.errors /\ c = FALSE /\ n = t
      BY <2>1
    <3> HIDE DEF f, e, c, n, wst
    <3> QED BY <2>1, <3>1
  <2>2. CASE /\ wst # Positions /\ Occurrences(ch) # {}
             /\ r = [tok |-> "OK", game |-> After(ls, g.words, wst, t + 1, g.errors, g.finished, TRUE)]
    <3>1. f = g.finished /\ e = g.errors /\ c = TRUE /\ n = t + 1
      BY <2>2
    <3> HIDE DEF f, e, c, n, wst
    <3> QED BY <2>2, <3>1
  <2>3. CASE /\ wst # Positions /\ Occurrences(ch) = {} /\ g.errors + 1 > max_errors
             /\ r = [tok |-> "OVR", game |-> After(ls, g.words, wst, t, g.errors + 1, Lost, FALSE)]
    <3>1. f = Lost /\ e = g.errors + 1 /\ c = FALSE /\ n = t
      BY <2>3
    <3> HIDE DEF f, e, c, n, wst
    <3> QED BY <2>3, <3>1
  <2>4. CASE /\ wst # Positions /\ Occurrences(ch) = {} /\ g.errors + 1 <= max_errors
             /\ r = [tok |-> "NOK", game |-> After(ls, g.words, wst, t + 1, g.errors + 1, g.finished, TRUE)]
    <3>1. f = g.finished /\ e = g.errors + 1 /\ c = TRUE /\ n = t + 1
      BY <1>2, <2>4
    <3> HIDE DEF f, e, c, n, wst
    <3> QED BY <2>4, <3>1
  <2> QED BY <1>1, <2>1, <2>2, <2>3, <2>4
<1>4. f \in Running..QuitByPlayer /\ e \in Nat /\ c \in BOOLEAN /\ n \in Nat
  BY <1>2
<1>5. c => n = t + 1 /\ f = g.finished /\ f = Running
  OBVIOUS
<1>6. ~ c => n = t /\ f \in {Won, Lost}
  OBVIOUS
<1>7. /\ f = Won <=> wst = Positions
      /\ f = Running <=> c
  BY <1>2
<1>8. e >= g.errors /\ (e = g.errors \/ (e = g.errors + 1 /\ Occurrences(ch) = {} /\ wst # Positions))
  BY <1>2
<1>9. c => (e = g.errors \/ e <= max_errors)
  BY <1>2
<1>10. wst # Positions /\ Occurrences(ch) = {} => e = g.errors + 1
  OBVIOUS
<1> HIDE DEF f, e, c, n
<1>11. /\ h \in GameRecord
       /\ h.letters = ls /\ h.words = g.words /\ h.word_state = wst
       /\ h.trials = n /\ h.errors = e /\ h.finished = f
       /\ h.last_was_incremental = c
  <2>1. g.words \in Seq(Guesses) /\ wst \in SUBSET Positions
    BY <1>2
  <2>2. h = After(ls, g.words, wst, n, e, f, c)
    BY <1>3
  <2> HIDE DEF h, wst
  <2> QED BY <1>4, <2>1, <2>2, AfterIsGame
<1> HIDE DEF h
<1>12. /\ g.trials = Len(g.letters) + Len(g.words)
       /\ g.word_state = {p \in Positions : Word[p] \in Range(g.letters)}
       /\ g.word_state # Positions /\ Word \notin Range(g.words)
       /\ g.errors >= MissCount(g)
       /\ g.errors > max_errors => g.words # << >>
  BY DEF GameInv, Matches, Shown, Unsolved, Costs
<1>13. /\ Range(ls) = Range(g.letters) \union {ch}
       /\ Len(ls) \in Nat /\ Len(g.letters) \in Nat /\ Len(g.words) \in Nat
       /\ \/ t = g.trials /\ Len(ls) = Len(g.letters) + 1
          \/ t + 1 = g.trials /\ Len(ls) = Len(g.letters) /\ ch \in Range(g.letters)
  BY <1>1, <1>2, LenProperties DEF Entered
<1>14. t + 1 = Len(ls) + Len(g.words) /\ g.trials = Len(g.letters) + Len(g.words)
  <2>1. g.trials = Len(g.letters) + Len(g.words)
    BY <1>12
  <2>2. t + 1 = g.trials + Len(ls) - Len(g.letters)
    BY <1>2, <1>13
  <2>3. Len(ls) \in Nat /\ Len(g.letters) \in Nat /\ Len(g.words) \in Nat /\ g.trials \in Nat
    BY <1>2, <1>13
  <2>4. \A l, l0, w, m \in Nat : m = l0 + w /\ t + 1 = m + l - l0 => t + 1 = l + w
    OBVIOUS
  <2> QED BY <2>1, <2>2, <2>3, <2>4
<1>15. wst = {p \in Positions : Word[p] \in Range(ls)}
  BY <1>12, <1>13 DEF Occurrences
<1>16. wst = Positions => t = g.trials /\ Len(ls) = Len(g.letters) + 1 /\ Occurrences(ch) # {}
  BY <1>1, WinIsNew
<1>17. /\ IsFiniteSet(LetterMisses(g)) /\ IsFiniteSet(WordMisses(g))
       /\ Cardinality(LetterMisses(g)) \in Nat /\ Cardinality(WordMisses(g)) \in Nat
       /\ Cardinality(LetterMisses(g)) <= Len(g.letters)
       /\ Cardinality(WordMisses(g)) <= Len(g.words)
  BY <1>2, MissesBounded
<1>18. /\ WordMisses(h) = WordMisses(g)
       /\ Cardinality(LetterMisses(h)) \in Nat
       /\ Cardinality(LetterMisses(h)) <= Cardinality(LetterMisses(g)) + 1
       /\ Occurrences(ch) # {} => LetterMisses(h) = LetterMisses(g)
  <2>1. /\ IsFiniteSet(LetterMisses(h))
        /\ Cardinality(LetterMisses(h)) <= Cardinality(LetterMisses(g)) + 1
        /\ ch \in WordLetters => LetterMisses(h) = LetterMisses(g)
    BY <1>11, <1>13, <1>17, OneMoreMiss DEF LetterMisses
  <2>2. Cardinality(LetterMisses(h)) \in Nat
    BY <2>1, FS_CardinalityType
  <2> QED BY <1>11, <2>1, <2>2, OccurrencesOfHit DEF WordMisses
<1>19. CountsBack(h)
  BY <1>4, <1>5, <1>11 DEF CountsBack
<1>20. Matches(h)
  BY <1>5, <1>7, <1>11, <1>14 DEF Matches
<1>21. Shown(h)
  BY <1>11, <1>15 DEF Shown
<1>22. Unsolved(h)
  BY <1>2, <1>7, <1>11, <1>12 DEF Unsolved
<1>23. Costs(h)
  <2>1. h.errors >= MissCount(h)
    <3>1. CASE Occurrences(ch) # {}
      <4>1. MissCount(h) = MissCount(g)
        BY <1>18, <3>1 DEF MissCount
      <4>2. MissCount(g) \in Nat
        BY <1>17 DEF MissCount
      <4> QED BY <1>2, <1>4, <1>8, <1>11, <1>12, <4>1, <4>2
    <3>2. CASE Occurrences(ch) = {}
      <4>1. e = g.errors + 1
        BY <1>10, <1>16, <3>2
      <4>2. MissCount(h) <= MissCount(g) + 1 /\ MissCount(h) \in Nat /\ MissCount(g) \in Nat
        BY <1>17, <1>18 DEF MissCount
      <4> QED BY <1>2, <1>11, <1>12, <4>1, <4>2
    <3> QED BY <3>1, <3>2
  <2>2. h.finished = Running /\ h.errors > max_errors => h.words # << >>
    BY <1>2, <1>4, <1>7, <1>9, <1>11, <1>12
  <2> QED BY <2>1, <2>2 DEF Costs
<1>24. Scores(h)
  <2> SUFFICES ASSUME f = Won
               PROVE  /\ (\E p, q \in Positions : Word[p] # Word[q]) => n > 0
                      /\ MissCount(h) <= n
    BY <1>11 DEF Scores
  <2>1. wst = Positions /\ n = t /\ t = g.trials /\ Occurrences(ch) # {}
    BY <1>2, <1>5, <1>6, <1>7, <1>16
  <2>2. MissCount(h) <= n
    <3>1. MissCount(h) = MissCount(g)
      BY <1>18, <2>1 DEF MissCount
    <3>2. MissCount(g) <= Len(g.letters) + Len(g.words)
      BY <1>2, MissesCounted
    <3> QED BY ONLY <1>14, <2>1, <3>1, <3>2
  <2>3. ASSUME NEW p \in Positions, NEW q \in Positions, Word[p] # Word[q]
        PROVE  n > 0
    <3>1. PICK s \in Positions : Word[s] # ch
      BY <2>3
    <3>2. s \in g.word_state
      BY <2>1, <3>1 DEF Occurrences
    <3>3. Word[s] \in Range(g.letters)
      BY <1>12, <3>2
    <3>4. Len(g.letters) # 0
      BY <1>2, <3>3, DistinctEntries, LenProperties DEF Range
    <3>5. Len(g.letters) \in Nat /\ Len(g.words) \in Nat
      BY <1>2, MissesBounded
    <3>6. \A a, b \in Nat : a # 0 => a + b > 0
      OBVIOUS
    <3>7. n = Len(g.letters) + Len(g.words)
      BY <1>14, <2>1
    <3> QED BY <3>4, <3>5, <3>6, <3>7
  <2> QED BY <2>2, <2>3
<1> QED BY <1>11, <1>19, <1>20, <1>21, <1>22, <1>23, <1>24 DEF GameInv, h

(* A word that is taken: it wins, or it costs an error. *)
LEMMA WordKeeps ==
  ASSUME NEW g, GameInv(g), g.finished = Running,
         NEW w \in Guesses, NEW out \in Nat, NEW r, WordTaken(g, w, out, r)
  PROVE  GameInv(r.game)
<1> DEFINE h == r.game
<1>1. /\ g \in GameRecord
      /\ g.letters \in Seq(Letters) /\ g.words \in Seq(Guesses) /\ g.word_state \in SUBSET Positions
      /\ g.trials \in Nat /\ g.errors \in Nat /\ g.errors + 1 \in Nat
      /\ g.finished \in Running..QuitByPlayer
      /\ Won \in Running..QuitByPlayer /\ Lost \in Running..QuitByPlayer
      /\ Running # Won /\ Running # Lost /\ Won # Lost
      /\ max_errors \in Nat
  BY DEF GameInv, GameRecord, Running, Won, Lost, QuitByPlayer, max_errors, get_errs
<1>2. PICK gs \in Seq(Guesses), t \in Nat, f \in {Running, Won, Lost}, c \in BOOLEAN :
        /\ Entered(g, g.words, gs, w, t, out)
        /\ f = Won <=> w = Word
        /\ f = Lost <=> ~ c
        /\ h = After(g.letters, gs, g.word_state, IF c THEN t + 1 ELSE t,
                     IF w = Word THEN g.errors ELSE g.errors + 1, f, c)
  <2>1. PICK gs \in Seq(Guesses), t \in Nat :
          /\ Entered(g, g.words, gs, w, t, out)
          /\ \/ /\ w = Word
                /\ r = [tok |-> "WIN", game |-> After(g.letters, gs, g.word_state, t + 1, g.errors, Won, TRUE)]
             \/ /\ w # Word
                /\ r = [tok |-> "OVR", game |-> After(g.letters, gs, g.word_state, t, g.errors + 1, Lost, FALSE)]
             \/ /\ w # Word
                /\ r = [tok |-> "NOK", game |-> After(g.letters, gs, g.word_state, t + 1, g.errors + 1, g.finished, TRUE)]
    BY DEF WordTaken
  <2>2. CASE /\ w = Word
             /\ r = [tok |-> "WIN", game |-> After(g.letters, gs, g.word_state, t + 1, g.errors, Won, TRUE)]
    <3>1. h = After(g.letters, gs, g.word_state, IF TRUE THEN t + 1 ELSE t,
                    IF w = Word THEN g.errors ELSE g.errors + 1, Won, TRUE)
      BY <2>2
    <3> QED BY <1>1, <2>1, <2>2, <3>1
  <2>3. CASE /\ w # Word
             /\ r = [tok |-> "OVR", game |-> After(g.letters, gs, g.word_state, t, g.errors + 1, Lost, FALSE)]
    <3>1. h = After(g.letters, gs, g.word_state, IF FALSE THEN t + 1 ELSE t,
                    IF w = Word THEN g.errors ELSE g.errors + 1, Lost, FALSE)
      BY <2>3
    <3> QED BY <1>1, <2>1, <2>3, <3>1
  <2>4. CASE /\ w # Word
             /\ r = [tok |-> "NOK", game |-> After(g.letters, gs, g.word_state, t + 1, g.errors + 1, g.finished, TRUE)]
    <3>1. h = After(g.letters, gs, g.word_state, IF TRUE THEN t + 1 ELSE t,
                    IF w = Word THEN g.errors ELSE g.errors + 1, Running, TRUE)
      BY <2>4
    <3> QED BY <1>1, <2>1, <2>4, <3>1
  <2> QED BY <2>1, <2>2, <2>3, <2>4
<1> DEFINE e == IF w = Word THEN g.errors ELSE g.errors + 1
           n == IF c THEN t + 1 ELSE t
<1>3. /\ e \in Nat /\ n \in Nat /\ e >= g.errors
      /\ w # Word => e = g.errors + 1
      /\ w = Word => e = g.errors
      /\ c => n = t + 1
  BY <1>1
<1>4. h = After(g.letters, gs, g.word_state, n, e, f, c)
  BY <1>2
<1> HIDE DEF e, n
<1>5. /\ h \in GameRecord
      /\ h.letters = g.letters /\ h.words = gs /\ h.word_state = g.word_state
      /\ h.trials = n /\ h.errors = e /\ h.finished = f
      /\ h.last_was_incremental = c
  <2>1. f \in Running..QuitByPlayer
    BY <1>2 DEF Running, Won, Lost, QuitByPlayer
  <2>2. /\ g.letters \in Seq(Letters) /\ g.word_state \in SUBSET Positions
        /\ gs \in Seq(Guesses) /\ n \in Nat /\ e \in Nat /\ c \in BOOLEAN
    BY <1>1, <1>3
  <2> HIDE DEF h
  <2> QED BY <1>4, <2>1, <2>2, AfterIsGame
<1> HIDE DEF h
<1>6. /\ g.trials = Len(g.letters) + Len(g.words)
      /\ g.word_state = {p \in Positions : Word[p] \in Range(g.letters)}
      /\ g.word_state # Positions /\ Word \notin Range(g.words)
      /\ g.errors >= MissCount(g)
  BY DEF GameInv, Matches, Shown, Unsolved, Costs
<1>7. /\ Range(gs) = Range(g.words) \union {w}
      /\ \/ t = g.trials /\ Len(gs) = Len(g.words) + 1
         \/ t + 1 = g.trials /\ Len(gs) = Len(g.words) /\ w \in Range(g.words)
  BY <1>2 DEF Entered
<1>8. Len(gs) \in Nat /\ Len(g.letters) \in Nat /\ Len(g.words) \in Nat
  BY <1>1, LenProperties
<1>9. t + 1 = Len(g.letters) + Len(gs)
  <2>1. \A l, w0, w1 \in Nat :
          \/ t = l + w0 /\ w1 = w0 + 1
          \/ t + 1 = l + w0 /\ w1 = w0
          => t + 1 = l + w1
    OBVIOUS
  <2>2. \/ t = Len(g.letters) + Len(g.words) /\ Len(gs) = Len(g.words) + 1
        \/ t + 1 = Len(g.letters) + Len(g.words) /\ Len(gs) = Len(g.words)
    BY <1>6, <1>7
  <2> QED BY <1>8, <2>1, <2>2
<1>10. /\ IsFiniteSet(WordMisses(g))
       /\ Cardinality(LetterMisses(g)) \in Nat /\ Cardinality(WordMisses(g)) \in Nat
       /\ MissCount(g) \in Nat /\ MissCount(g) <= Len(g.letters) + Len(g.words)
  BY <1>1, MissesBounded, MissesCounted
<1>11. /\ LetterMisses(h) = LetterMisses(g)
       /\ Cardinality(WordMisses(h)) \in Nat
       /\ Cardinality(WordMisses(h)) <= Cardinality(WordMisses(g)) + 1
       /\ w = Word => WordMisses(h) = WordMisses(g)
  <2>1. /\ IsFiniteSet(WordMisses(h))
        /\ Cardinality(WordMisses(h)) <= Cardinality(WordMisses(g)) + 1
        /\ w \in {Word} => WordMisses(h) = WordMisses(g)
    <3>1. Range(h.words) = Range(g.words) \union {w}
      BY <1>5, <1>7
    <3>2. IsFiniteSet(Range(g.words) \ {Word})
      BY <1>10 DEF WordMisses
    <3> QED BY <3>1, <3>2, OneMoreMiss DEF WordMisses
  <2>2. Cardinality(WordMisses(h)) \in Nat
    BY <2>1, FS_CardinalityType
  <2> QED BY <1>5, <2>1, <2>2 DEF LetterMisses
<1>12. CountsBack(h)
  BY <1>3, <1>5 DEF CountsBack
<1>13. Matches(h)
  BY <1>1, <1>2, <1>3, <1>5, <1>9 DEF Matches
<1>14. Shown(h)
  BY <1>5, <1>6 DEF Shown
<1>15. Unsolved(h)
  BY <1>1, <1>2, <1>5, <1>6, <1>7 DEF Unsolved
<1>16. Costs(h)
  <2>1. h.errors >= MissCount(h)
    <3>1. CASE w = Word
      <4>1. MissCount(h) = MissCount(g)
        BY <1>11, <3>1 DEF MissCount
      <4> QED BY <1>1, <1>3, <1>5, <1>6, <1>10, <3>1, <4>1
    <3>2. CASE w # Word
      <4>1. MissCount(h) <= MissCount(g) + 1 /\ MissCount(h) \in Nat
        BY <1>10, <1>11 DEF MissCount
      <4> QED BY <1>1, <1>3, <1>5, <1>6, <1>10, <3>2, <4>1
    <3> QED BY <3>1, <3>2
  <2>2. h.words # << >>
    <3>1. w \in Range(gs)
      BY <1>7
    <3> QED BY <1>5, <3>1 DEF Range
  <2> QED BY <2>1, <2>2 DEF Costs
<1>17. Scores(h)
  <2> SUFFICES ASSUME f = Won
               PROVE  n > 0 /\ MissCount(h) <= n
    BY <1>5 DEF Scores
  <2>1. w = Word /\ c
    BY <1>1, <1>2
  <2>2. t = g.trials /\ n = t + 1
    BY <1>3, <1>6, <1>7, <2>1
  <2>3. MissCount(h) = MissCount(g)
    BY <1>11, <2>1 DEF MissCount
  <2>4. MissCount(h) <= g.trials
    BY <1>6, <1>10, <2>3
  <2> QED BY <1>10, <2>2, <2>3, <2>4
<1> QED BY <1>5, <1>12, <1>13, <1>14, <1>15, <1>16, <1>17 DEF GameInv, h

(* A new game. *)
LEMMA NewGameInv == GameInv(NewGame)
<1>1. /\ NewGame \in GameRecord
      /\ NewGame.letters = << >> /\ NewGame.words = << >> /\ NewGame.word_state = {}
      /\ NewGame.trials = 0 /\ NewGame.errors = 0 /\ NewGame.finished = Running
      /\ NewGame.last_was_incremental = FALSE
  BY EmptySeq DEF NewGame, GameRecord, Running, QuitByPlayer
<1>2. Range(<< >>) = {}
  <2>1. \A s \in Seq(Letters) : s = << >> => DOMAIN s = {}
    BY EmptySeq, LenProperties
  <2>2. DOMAIN << >> = {}
    BY <2>1, EmptySeq
  <2> QED BY <2>2 DEF Range
<1>3. Positions # {}
  <2>1. Word \in Seq(Letters) /\ Word # << >>
    BY GameRulesAssumption
  <2>2. Len(Word) \in Nat \ {0}
    BY <2>1, EmptySeq
  <2>3. 1 \in 1..Len(Word)
    BY <2>2
  <2> QED BY <2>1, <2>3, LenProperties DEF Positions
<1>4. MissCount(NewGame) = 0
  <2>1. LetterMisses(NewGame) = {} /\ WordMisses(NewGame) = {}
    BY <1>1, <1>2 DEF LetterMisses, WordMisses
  <2> QED BY <2>1, FS_EmptySet DEF MissCount
<1>5. max_errors \in Nat /\ Running # Won
  BY DEF max_errors, get_errs, Running, Won
<1> QED BY <1>1, <1>2, <1>3, <1>4, <1>5
     DEF GameInv, CountsBack, Matches, Shown, Unsolved, Costs, Scores

(* quit_impl. *)
LEMMA QuitKeeps ==
  ASSUME NEW g, GameInv(g)
  PROVE  GameInv(QuitGame(g).game)
<1> DEFINE h == QuitGame(g).game
<1>1. g \in GameRecord /\ h = [g EXCEPT !.finished = QuitByPlayer]
  BY DEF GameInv, QuitGame
<1>2. QuitByPlayer \in Running..QuitByPlayer /\ QuitByPlayer # Running /\ QuitByPlayer # Won
  BY DEF Running, Won, QuitByPlayer
<1>3. /\ h \in GameRecord
      /\ h.letters = g.letters /\ h.words = g.words /\ h.word_state = g.word_state
      /\ h.trials = g.trials /\ h.errors = g.errors /\ h.finished = QuitByPlayer
      /\ h.last_was_incremental = g.last_was_incremental
  BY <1>1, <1>2 DEF GameRecord
<1> HIDE DEF h
<1> QED BY <1>2, <1>3 DEF GameInv, CountsBack, Matches, Shown, Unsolved, Costs, Scores,
                    MissCount, LetterMisses, WordMisses, h

(* start_impl keeps the game or makes a new one. *)
LEMMA StartKeeps ==
  ASSUME NEW g, GameInv(g)
  PROVE  GameInv(StartOver(g).game)
  BY NewGameInv DEF StartOver

----------------------------------------------------------------------------
(* Requests by their replies *)

(* A request that was served leaves a game that is over just when the reply*)
(* says so, one trial more at most, and that one only for the number that  *)
(* follows.  A request that is made again right after it was counted adds  *)
(* no trial.                                                               *)
Served(g, table, x, out, r) ==
  /\ GameInv(r.game)
  /\ r.tok \in {"WIN", "OVR"} <=> r.game.finished # Running
  /\ r.tok \in {"DUP", "INV"} =>
       /\ r.game.trials = g.trials
       /\ r.tok = "INV" => out # g.trials + 1
  /\ r.tok \in {"OK", "NOK"} => r.game.last_was_incremental
  /\ r.game.trials <= g.trials \/ (r.game.trials = g.trials + 1 /\ out = g.trials + 1)
  /\ g.last_was_incremental /\ x \in Range(table) => r.game.trials <= g.trials
  /\ r.game.errors <= g.errors + 1

(* play_impl on a game that runs. *)
LEMMA PlayServed ==
  ASSUME NEW g, GameInv(g), g.finished = Running, NEW ch \in Letters, NEW out \in Nat,
         NEW r, r = PlayLetter(g, ch, out)
  PROVE  /\ Served(g, g.letters, ch, out, r)
         /\ r.tok \in {"OK", "NOK", "WIN", "OVR", "DUP", "INV"}
         /\ r.tok \in {"OK", "NOK"} => ch \in Range(r.game.letters)
         /\ Len(r.game.letters) <= Len(g.letters) + 1 /\ r.game.words = g.words
         /\ r.tok \in {"OK", "WIN"} => r.game.word_state = g.word_state \union Occurrences(ch)
         /\ r.tok \notin {"OK", "WIN"} => r.game.word_state = g.word_state
         /\ r.tok = "NOK" => Occurrences(ch) = {}
         /\ r.tok = "WIN" => r.game.word_state = Positions
<1>1. /\ g \in GameRecord /\ CountsBack(g)
      /\ g.letters \in Seq(Letters) /\ g.words \in Seq(Guesses) /\ g.word_state \in SUBSET Positions
      /\ g.errors \in Nat /\ g.errors + 1 \in Nat /\ g.trials \in Nat
      /\ Len(g.letters) \in Nat
      /\ Running # Won /\ Running # Lost
  BY LenProperties DEF GameInv, GameRecord, Running, Won, Lost
<1>2. CASE Refusal(g, out, r)
  <2>1. GameInv(r.game)
    BY <1>2, RefusalKeeps
  <2>2. /\ r.game.letters = g.letters /\ r.game.words = g.words /\ r.game.word_state = g.word_state
        /\ r.game.trials = g.trials /\ r.game.errors = g.errors /\ r.game.finished = g.finished
    BY <1>1, <1>2 DEF Refusal, GameRecord
  <2>3. r.tok = IF out # g.trials + 1 THEN "INV" ELSE "DUP"
    BY <1>2 DEF Refusal
  <2>4. r.tok \in {"INV", "DUP"} /\ (r.tok = "INV" => out # g.trials + 1)
    BY <2>3
  <2> QED BY <1>1, <2>1, <2>2, <2>4 DEF Served
<1>3. CASE LetterTaken(g, ch, out, r)
  <2> DEFINE wst == g.word_state \union Occurrences(ch)
  <2>1. PICK ls \in Seq(Letters), t \in Nat :
          /\ Entered(g, g.letters, ls, ch, t, out)
          /\ \/ /\ wst = Positions
                /\ r = [tok |-> "WIN", game |-> After(ls, g.words, wst, t, g.errors, Won, FALSE)]
             \/ /\ wst # Positions /\ Occurrences(ch) # {}
                /\ r = [tok |-> "OK", game |-> After(ls, g.words, wst, t + 1, g.errors, g.finished, TRUE)]
             \/ /\ wst # Positions /\ Occurrences(ch) = {} /\ g.errors + 1 > max_errors
                /\ r = [tok |-> "OVR", game |-> After(ls, g.words, wst, t, g.errors + 1, Lost, FALSE)]
             \/ /\ wst # Positions /\ Occurrences(ch) = {} /\ g.errors + 1 <= max_errors
                /\ r = [tok |-> "NOK", game |-> After(ls, g.words, wst, t + 1, g.errors + 1, g.finished, TRUE)]
    BY <1>3 DEF LetterTaken
  <2>2. GameInv(r.game)
    BY <1>3, LetterKeeps
  <2>3. /\ ch \in Range(ls)
        /\ Len(ls) <= Len(g.letters) + 1
        /\ \/ t = g.trials /\ out = g.trials + 1 /\ ~ (ch \in Range(g.letters) /\ g.last_was_incremental)
           \/ t + 1 = g.trials
    BY <1>1, <2>1 DEF Entered
  <2>4. Occurrences(ch) = {} => wst = g.word_state
    OBVIOUS
  <2> HIDE DEF wst
  <2>5. CASE /\ wst = Positions
             /\ r = [tok |-> "WIN", game |-> After(ls, g.words, wst, t, g.errors, Won, FALSE)]
    <3>1. /\ r.tok = "WIN" /\ r.game.letters = ls /\ r.game.words = g.words /\ r.game.word_state = wst
          /\ r.game.trials = t /\ r.game.errors = g.errors /\ r.game.finished = Won
      BY <2>5 DEF After
    <3>2. Served(g, g.letters, ch, out, r)
      BY <1>1, <2>2, <2>3, <3>1 DEF Served
    <3> QED BY <2>3, <2>5, <3>1, <3>2 DEF wst
  <2>6. CASE /\ wst # Positions /\ Occurrences(ch) # {}
             /\ r = [tok |-> "OK", game |-> After(ls, g.words, wst, t + 1, g.errors, g.finished, TRUE)]
    <3>1. /\ r.tok = "OK" /\ r.game.letters = ls /\ r.game.words = g.words /\ r.game.word_state = wst
          /\ r.game.trials = t + 1 /\ r.game.errors = g.errors /\ r.game.finished = Running
          /\ r.game.last_was_incremental = TRUE
      BY <2>6 DEF After
    <3>2. Served(g, g.letters, ch, out, r)
      BY <1>1, <2>2, <2>3, <3>1 DEF Served
    <3> QED BY <2>3, <2>6, <3>1, <3>2 DEF wst
  <2>7. CASE /\ wst # Positions /\ Occurrences(ch) = {}
             /\ r = [tok |-> "OVR", game |-> After(ls, g.words, wst, t, g.errors + 1, Lost, FALSE)]
    <3>1. /\ r.tok = "OVR" /\ r.game.letters = ls /\ r.game.words = g.words /\ r.game.word_state = g.word_state
          /\ r.game.trials = t /\ r.game.errors = g.errors + 1 /\ r.game.finished = Lost
      BY <2>4, <2>7 DEF After
    <3>2. Served(g, g.letters, ch, out, r)
      BY <1>1, <2>2, <2>3, <3>1 DEF Served
    <3> QED BY <2>3, <2>7, <3>1, <3>2
  <2>8. CASE /\ wst # Positions /\ Occurrences(ch) = {}
             /\ r = [tok |-> "NOK", game |-> After(ls, g.words, wst, t + 1, g.errors + 1, g.finished, TRUE)]
    <3>1. /\ r.tok = "NOK" /\ r.game.letters = ls /\ r.game.words = g.words /\ r.game.word_state = g.word_state
          /\ r.game.trials = t + 1 /\ r.game.errors = g.errors + 1 /\ r.game.finished = Running
          /\ r.game.last_was_incremental = TRUE
      BY <2>4, <2>8 DEF After
    <3>2. Served(g, g.letters, ch, out, r)
      BY <1>1, <2>2, <2>3, <3>1 DEF Served
    <3> QED BY <2>3, <2>8, <3>1, <3>2
  <2> QED BY <2>1, <2>5, <2>6, <2>7, <2>8
<1> QED BY <1>1, <1>2, <1>3, PlayLetterEffect

(* The same of guess_impl. *)
LEMMA GuessServed ==
  ASSUME NEW g, GameInv(g), g.finished = Running, NEW w \in Guesses, NEW out \in Nat,
         NEW r, r = GuessWord(g, w, out)
  PROVE  /\ Served(g, g.words, w, out, r)
         /\ r.tok \in {"NOK", "WIN", "OVR", "DUP", "INV"}
         /\ r.tok = "NOK" => w \in Range(r.game.words)
         /\ Len(r.game.words) <= Len(g.words) + 1 /\ r.game.letters = g.letters
         /\ r.game.word_state = g.word_state
<1>1. /\ g \in GameRecord /\ CountsBack(g)
      /\ g.letters \in Seq(Letters) /\ g.words \in Seq(Guesses)
      /\ g.errors \in Nat /\ g.errors + 1 \in Nat /\ g.trials \in Nat
      /\ Len(g.words) \in Nat
      /\ Running # Won /\ Running # Lost
  BY LenProperties DEF GameInv, GameRecord, Running, Won, Lost
<1>2. CASE Refusal(g, out, r)
  <2>1. GameInv(r.game)
    BY <1>2, RefusalKeeps
  <2>2. /\ r.game.letters = g.letters /\ r.game.words = g.words /\ r.game.word_state = g.word_state
        /\ r.game.trials = g.trials /\ r.game.errors = g.errors /\ r.game.finished = g.finished
    BY <1>1, <1>2 DEF Refusal, GameRecord
  <2>3. r.tok = IF out # g.trials + 1 THEN "INV" ELSE "DUP"
    BY <1>2 DEF Refusal
  <2>4. r.tok \in {"INV", "DUP"} /\ (r.tok = "INV" => out # g.trials + 1)
    BY <2>3
  <2> QED BY <1>1, <2>1, <2>2, <2>4 DEF Served
<1>3. CASE WordTaken(g, w, out, r)
  <2>1. PICK gs \in Seq(Guesses), t \in Nat :
          /\ Entered(g, g.words, gs, w, t, out)
          /\ \/ /\ w = Word
                /\ r = [tok |-> "WIN", game |-> After(g.letters, gs, g.word_state, t + 1, g.errors, Won, TRUE)]
             \/ /\ w # Word
                /\ r = [tok |-> "OVR", game |-> After(g.letters, gs, g.word_state, t, g.errors + 1, Lost, FALSE)]
             \/ /\ w # Word
                /\ r = [tok |-> "NOK", game |-> After(g.letters, gs, g.word_state, t + 1, g.errors + 1, g.finished, TRUE)]
    BY <1>3 DEF WordTaken
  <2>2. GameInv(r.game)
    BY <1>3, WordKeeps
  <2>3. /\ w \in Range(gs)
        /\ Len(gs) <= Len(g.words) + 1
        /\ \/ t = g.trials /\ out = g.trials + 1 /\ ~ (w \in Range(g.words) /\ g.last_was_incremental)
           \/ t + 1 = g.trials
    BY <1>1, <2>1 DEF Entered
  <2>4. CASE r = [tok |-> "WIN", game |-> After(g.letters, gs, g.word_state, t + 1, g.errors, Won, TRUE)]
    <3>1. /\ r.tok = "WIN" /\ r.game.letters = g.letters /\ r.game.words = gs /\ r.game.word_state = g.word_state
          /\ r.game.trials = t + 1 /\ r.game.errors = g.errors /\ r.game.finished = Won
      BY <2>4 DEF After
    <3> QED BY <1>1, <2>2, <2>3, <3>1 DEF Served
  <2>5. CASE r = [tok |-> "OVR", game |-> After(g.letters, gs, g.word_state, t, g.errors + 1, Lost, FALSE)]
    <3>1. /\ r.tok = "OVR" /\ r.game.letters = g.letters /\ r.game.words = gs /\ r.game.word_state = g.word_state
          /\ r.game.trials = t /\ r.game.errors = g.errors + 1 /\ r.game.finished = Lost
      BY <2>5 DEF After
    <3> QED BY <1>1, <2>2, <2>3, <3>1 DEF Served
  <2>6. CASE r = [tok |-> "NOK", game |-> After(g.letters, gs, g.word_state, t + 1, g.errors + 1, g.finished, TRUE)]
    <3>1. /\ r.tok = "NOK" /\ r.game.letters = g.letters /\ r.game.words = gs /\ r.game.word_state = g.word_state
          /\ r.game.trials = t + 1 /\ r.game.errors = g.errors + 1 /\ r.game.finished = Running
          /\ r.game.last_was_incremental = TRUE
      BY <2>6 DEF After
    <3> QED BY <1>1, <2>2, <2>3, <3>1 DEF Served
  <2> QED BY <2>1, <2>4, <2>5, <2>6
<1> QED BY <1>1, <1>2, <1>3, GuessWordEffect
=============================================================================
