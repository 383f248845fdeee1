\* An answer is lost: the word announced at the end is wrong.
SPECIFICATION Spec
CONSTANTS
  Letters = {"a", "b", "x"}
  Word <- ThreeLetterWord
  Guesses <- SomeGuesses
  Lossy = TRUE
  Late = FALSE
  CanCrash = FALSE
  AttemptCap = 5
  SlotCap = 3
  ErrorCap = 8
  FlightCap = 0
INVARIANT WonWord
