SPECIFICATION Spec
CONSTANTS
  Kernel = {init, k1}
  init = init
  Visitor = {v1}
  idle = idle
  None = None
INVARIANTS TypeOK QueueExact NothingFreed
PROPERTY WokenRuns
