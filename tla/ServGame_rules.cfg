\* Two letters of the word and two that miss, one right and two wrong words.
SPECIFICATION Spec
CONSTANTS
  Letters = {"a", "b", "x", "y"}
  Word <- ThreeLetterWord
  Guesses <- SomeGuesses
  SlotCap = 3
  ErrorCap = 10
  AheadCap = 2
  Modulus = 65536
INVARIANTS
  TypeOK
  TrialsMatchTables
  SolvedByTrials
  MissesCost
  ScoreIsDefined
PROPERTIES
  GameOnlyAdvances
  OutcomesAsAssumed
