SPECIFICATION Spec
CONSTANTS
  d1 = d1
  d2 = d2
  a1 = a1
  a2 = a2
  n1 = n1
  n2 = n2
  NoDevice = NoDevice
  NoId = NoId
  NoAddr = NoAddr
  Devices <- MCDevices
  Addrs <- MCAddrs
  ConnIds <- MCConnIds
  MsgCap = 1
  CmdCap = 1
  AudioCap = 1
  MaxMessages = 2
SYMMETRY Symmetry
INVARIANTS ClosedOnce OwnAudioOnly RetiredTogether
CHECK_DEADLOCK FALSE
