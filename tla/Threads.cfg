SPECIFICATION Spec
CONSTANTS
  Task = {init, t1, t2}
  Boot = {init}
  MaxThread = 3
  CreateFails = FALSE
INVARIANTS TypeOK OwnTask RequestAlive
PROPERTIES EveryTaskRuns SoftirqRuns
