\* Datagrams are lost, late and out of order.
SPECIFICATION Spec
CONSTANTS
  Letters = {"a", "b", "x"}
  Word <- ThreeLetterWord
  Guesses <- OneGuess
  Lossy = TRUE
  Late = TRUE
  CanCrash = FALSE
  AttemptCap = 2
  SlotCap = 2
  ErrorCap = 2
  FlightCap = 1
PROPERTY ServerPlaysByRules
