SPECIFICATION Spec
CONSTANTS
  Command = {c1}
  MaxRun = 1
  MaxSlow = 1
  Nil = Nil
CHECK_DEADLOCK FALSE
INVARIANT StoppedRunsNothing
INVARIANT DoneIsShown
