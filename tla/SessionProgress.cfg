SPECIFICATION Spec
CONSTANTS
  Run = {r1}
  Msg = {}
  Ask = {}
  MaxCalls = 1
  MaxInbox = 1
  Others <- Both
  NoRun = NoRun
  NoActor = NoActor
CHECK_DEADLOCK FALSE
INVARIANT NoLiveWithoutChat
PROPERTY AllEnds
