\* Datagrams may be lost and the client ended and started again.
SPECIFICATION Spec
CONSTANTS
  Letters = {"a", "b", "x"}
  Word <- ThreeLetterWord
  Guesses <- SomeGuesses
  Lossy = TRUE
  Late = FALSE
  CanCrash = TRUE
  AttemptCap = 4
  SlotCap = 3
  ErrorCap = 8
  FlightCap = 0
INVARIANTS
  TypeOK
  InStep
  NeverBehind
  NoOrphan
  ToldIsTrue
PROPERTIES
  RetryNotCounted
