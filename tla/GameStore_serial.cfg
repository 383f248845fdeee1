\* Requests one at a time, with failing sends and interrupts.
SPECIFICATION SerialSpec
CONSTANTS
  Handlers = {h1, h2, h3, h4, h5}
  MaxInodes = 6
  Leftover <- SomeLeftover
  None = None
  SendCanFail = TRUE
  CanInterrupt = TRUE
SYMMETRY HandlerSymmetry
PROPERTY SerialRequests
