----------------------------- MODULE MCSession -----------------------------
(* Instances of Session for TLC. *)
EXTENDS Session

(* A word with a letter that occurs twice, the word itself among the guesses. *)
ThreeLetterWord == <<"a", "b", "a">>
SomeGuesses == {ThreeLetterWord, <<"x", "x", "x">>}
OneGuess == {<<"x", "x", "x">>}
============================================================================
