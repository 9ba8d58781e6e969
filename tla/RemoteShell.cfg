SPECIFICATION Spec
CONSTANTS
  MaxId = 2
  MaxPeers = 1
  Window = 2
  MaxEvents = 1
  Sessions <- All
  Pty = 1
  Queue = 2
  Credits = 1
  Socket = 1
  Nil = Nil
CHECK_DEADLOCK FALSE
INVARIANT EndsAgree
INVARIANT EndsComeLast
INVARIANT NobodyIsStuck
