SPECIFICATION MCSpec
CONSTANTS
  s1 = s1
  s2 = s2
  b1 = b1
  vad1 = vad1
  vad2 = vad2
  vad3 = vad3
  A = A
  B = B
  VadGoroutines = {vad1, vad2, vad3}
  VadSessions = {A, B}
  VadSessionOf <- MCVadSessionOf
  MaxVads = 2
  WsHandlers = {ws1}
  IotHandlers = {iot1}
  Closers = {end1}
  Checker = checker
  MaxSessions = 2
  Monitor = monitor
  Checks = {check1, check2}
  Callers = {caller1}
  Lists = {list1, list2}
  MaxAttempts = 1
  MaxClients = 3
  None = None
  Streams <- MCStreams
  Batches = {b1}
  MaxConnections = 2
  ResultCap = 1
  MaxConns = 2
INVARIANTS OneHolder AllAccountedFor DetectorInOnePlace CancelledIsRemoved TablesAgree
PROPERTY QuietLeaves
CHECK_DEADLOCK FALSE
