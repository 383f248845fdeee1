\* Two overlapping requests: a game under way can be lost.
SPECIFICATION Spec
CONSTANTS
  Handlers = {h1, h2, h3}
  MaxInodes = 4
  Leftover <- SomeLeftover
  None = None
  SendCanFail = FALSE
  CanInterrupt = FALSE
PROPERTY ActiveGameKept
