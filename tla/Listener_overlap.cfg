\* Every small dictionary; handlers that overlap, wait for later datagrams and die.
SPECIFICATION Spec
CONSTANTS
  MinWord = 3
  MaxWord = 4
  Procs = {p1, p2, p3}
  Texts <- SomeTexts
  QueueCap = 2
  CanInterrupt = TRUE
INVARIANTS
  TypeOK
  NeverAhead
  InTurn
PROPERTIES
  LoadsDictionary
  EveryDatagramTaken
\* a server that has no process left, or no dictionary, stops
CHECK_DEADLOCK FALSE
