SPECIFICATION FairSpec
CONSTANTS
  Client = {c1, c2}
  Daemon = {d1}
  NoBlk = NoBlk
  NoPid = NoPid
  CmdLens = {1}
  BufInit = 1
  HandleMod = 8
  HandleLimit = 3
  QueueBound = 3
  Faults = {"kill"}
  Smp = TRUE
  Boot = TRUE
PROPERTIES
  NextCommandRecovers CloseAnswersQueued
CHECK_DEADLOCK FALSE
