SPECIFICATION Spec
CONSTANTS
  Client = {c1, c2}
  Daemon = {d1, d2}
  NoBlk = NoBlk
  NoPid = NoPid
  CmdLens = {1, 2}
  BufInit = 1
  HandleMod = 8
  HandleLimit = 2
  QueueBound = 2
  Faults = {"kill", "signal", "oomAdd", "oomDone", "oomIncrease"}
  Smp = TRUE
  Boot = FALSE
SYMMETRY Symmetry
INVARIANTS
  TypeOK
  HandleUnique
  BufferOwner
  AtMostOnce
  ReplyIsOwn
  AnsweredMeansExecuted
  DataFits
PROPERTIES
  NoStrayWrite
  ImplementsCall
CHECK_DEADLOCK FALSE
