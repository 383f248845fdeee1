\* Three overlapping requests, failing sends, interrupts.
SPECIFICATION Spec
CONSTANTS
  Handlers = {h1, h2, h3}
  MaxInodes = 4
  Leftover <- SomeLeftover
  None = None
  SendCanFail = TRUE
  CanInterrupt = TRUE
SYMMETRY HandlerSymmetry
INVARIANTS
  TypeOK
  LockCoversWork
  NoLostUpdate
  ReadFindsGame
  LocksInOrder
  IndInv
PROPERTIES
  AnsweredIsStored
  AtomicRequests
