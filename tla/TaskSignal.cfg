SPECIFICATION SignalSpec
CONSTANTS
  Kernel = {init, k1}
  init = init
  Visitor = {v1}
  idle = idle
  None = None
INVARIANT CurrentQueued
