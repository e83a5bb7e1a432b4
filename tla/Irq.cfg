SPECIFICATION Spec
CONSTANTS
  Driver = {d1, d2, d3}
  Shirq = {d1, d2}
  Fast = {d2}
  Cpu = {c1, c2}
  None = None
  IrqSetFails = FALSE
  MaxDepth = 2
INVARIANTS TypeOK NoReentry ActionsAlive QuietAfterDisable HookedWhileUsed
PROPERTY EveryInterruptHandled
