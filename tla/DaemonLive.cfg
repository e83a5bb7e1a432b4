SPECIFICATION FairSpec
CONSTANTS
  Client = {c1, c2}
  Daemon = {d1}
  NoBlk = NoBlk
  NoPid = NoPid
  CmdLens = {1, 2}
  BufInit = 1
  HandleMod = 8
  HandleLimit = 3
  QueueBound = 3
  Faults = {"oomAdd"}
  Smp = FALSE
  Boot = TRUE
INVARIANTS
  NoMissedWakeup NoReplyLost
PROPERTIES
  EveryCallReturns ExecutedInOrder
CHECK_DEADLOCK FALSE
