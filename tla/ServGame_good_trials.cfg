\* The count of good trials in the score table.
SPECIFICATION Spec
CONSTANTS
  Letters = {"a", "b", "x", "y"}
  Word <- ThreeLetterWord
  Guesses <- SomeGuesses
  SlotCap = 3
  ErrorCap = 10
  AheadCap = 2
  Modulus = 65536
INVARIANT GoodTrialsAreTrials
