SPECIFICATION Spec
CONSTANTS
  l1 = l1
  l2 = l2
  Listeners <- MCTwoListeners
  QueueCap = 2
  MaxCtx = 3
  MaxCommands = 2
  MaxSentences = 2
INVARIANTS TypeOK AtMostOneLateFrame FewLateSentences DeviceNotLeftSpeaking
PROPERTY SpeaksInOrder
CHECK_DEADLOCK FALSE
