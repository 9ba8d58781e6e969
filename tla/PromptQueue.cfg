SPECIFICATION Spec
CONSTANTS
  c1 = c1
  j1 = j1
  j2 = j2
  j3 = j3
  w1 = w1
  w2 = w2
  Chat <- Chats
  Job <- Jobs
  ChatOf <- AllInOne
  Text = {"a"}
  Worker <- Workers
  MaxOpen = 2
  MaxFaults = 1
  NoText = NoText
  NoJob = NoJob
  NoChat = NoChat
  NoWorker = NoWorker
INVARIANTS
  RunsInOneHand
  HeldUntilResumed
PROPERTIES
  DeliversInOrder
  WorkIsServed
