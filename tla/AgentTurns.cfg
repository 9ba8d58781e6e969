SPECIFICATION AgentSpec
CONSTANTS
  Session = {s1}
  Turn = {t1, t2}
  Call = {c1, c2}
  MaxRounds = 2
  MaxCalls = 1
  Window = 4
  MaxFaults = 1
  NoTurn = NoTurn
  Nothing = Nothing
CHECK_DEADLOCK FALSE
INVARIANT RequestsAreWhole
PROPERTY PromptsAnswered
 
