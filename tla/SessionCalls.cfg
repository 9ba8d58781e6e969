SPECIFICATION Spec
CONSTANTS
  Run = {r1, r2}
  Msg = {m1}
  Ask = {q1}
  MaxCalls = 2
  MaxInbox = 1
  Others <- ACanceller
  NoRun = NoRun
  NoActor = NoActor
CHECK_DEADLOCK FALSE
INVARIANT AsksAreKept
INVARIANT StopIsFinal
INVARIANT SettledAtRest
PROPERTY OverStaysOver
SYMMETRY Interchangeable
INVARIANT TextIsWhole
CONSTRAINT TalkOrStop
