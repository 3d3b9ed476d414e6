SPECIFICATION FairSpec
CONSTANTS
  l1 = l1
  l2 = l2
  Listeners <- MCOneListener
  QueueCap = 1
  MaxCtx = 2
  MaxCommands = 2
  MaxSentences = 1
PROPERTIES ReplyEnds SessionEnds CancelledSpeechDrains
CHECK_DEADLOCK FALSE
