\* Overlapping calls on a table of two scores, with interrupts.
SPECIFICATION Spec
CONSTANTS
  Handlers = {h1, h2, h3}
  Names = {1, 2, 3, 4, 5}
  OldNames = {1, 3, 4}
  TOP_SCORE = 2
  None = None
  CanInterrupt = TRUE
SYMMETRY HandlerSymmetry
INVARIANTS
  TypeOK
  LinesAreScores
  EmptyIsUnfinished
  LossIsBounded
PROPERTIES
  AnswersAreBest
