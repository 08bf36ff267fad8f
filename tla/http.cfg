\* Every client may stall, close, reset or stop reading, and the answer of c1 is
\* larger than the buffers; the handler of c2 throws. The run ends
\* when every connection has ended, so the server may stop in accept.
SPECIFICATION Spec
CONSTANTS
  c1 = c1
  c2 = c2
  c3 = c3
  Conns = {c1, c2, c3}
  HeaderLen = 2
  Announced <- Announced3
  BadLength = {c3}
  Throwing = {c2}
  Extra = 1
  Large = {c1}
  MayQuit = {c1, c2, c3}
  MaxFds = 2
  Backlog = 2
  None = None
CHECK_DEADLOCK FALSE
INVARIANTS
  TypeOK
  OpenFdsAccounted
  HandledWhole
  DiesOnlyInService
PROPERTIES
  ServesInOrder
  ServedUnlessHeld
  EveryRequestAnswered
