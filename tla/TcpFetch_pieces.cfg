\* Answers that come in pieces, one command after the other; handlers may die.
SPECIFICATION Spec
CONSTANTS
  Name <- TwoLetters
  Files <- SomeFiles
  OldFiles <- OldSome
  Big = 11
  CanDie = TRUE
INVARIANTS
  TypeOK
  SavedIsSent
  FailureHasCause
  NoFileIsTold
PROPERTIES
  FetchEnds
\* a client whose handler was killed waits for ever
CHECK_DEADLOCK FALSE
