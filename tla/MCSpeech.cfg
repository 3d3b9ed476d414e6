SPECIFICATION MCSpec
CONSTANTS
  s1 = s1
  s2 = s2
  p1 = p1
  None = None
  Streams <- MCStreams
  Quitters = {s1}
  Providers = {p1}
  ProviderOf <- MCProviderOf
  NumIds = 2
  MaxPoolSize = 2
  MaxRetries = 1
  OutCap = 1
  MaxConns = 2
  MaxFrames = 1
  Aborted = {s1}
  Setups <- MCSetups
  Answers <- MCAnswers
  MaxAudio = 1
  Replies <- MCReplies
  ToolCalls = {"t1", "t2", "t3"}
  MinLen = 5
  MsgCap = 2
  SentenceCap = 2
INVARIANTS TypesOK PoolKeepsTrack SentencesInOrder
PROPERTY EveryStreamEnds
CHECK_DEADLOCK FALSE
