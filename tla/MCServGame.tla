---------------------------- MODULE MCServGame ----------------------------
(* Instances of ServGame for TLC. *)
EXTENDS ServGame

(* A word with a letter that occurs twice, the word itself among the guesses. *)
ThreeLetterWord == <<"a", "b", "a">>
SomeGuesses == {ThreeLetterWord, <<"x", "y", "x">>}
============================================================================
