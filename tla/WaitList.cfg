SPECIFICATION FairSpec
CONSTANTS
  Waiter = {w1, w2, w3}
  Id = {i1, i2}
INVARIANTS
  MigrationComplete
PROPERTIES
  NoSpuriousReturn
  ReschedEnds
  WakeEndsWait
