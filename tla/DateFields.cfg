SPECIFICATION Spec
CONSTANTS
  FirstDay = 3652
  LastDay = 24836
  SecsOfDay = {0, 43199, 86399}
  TzMinutesWest = 300
INVARIANTS
  FieldsRight
PROPERTIES
  DaysFollow
CHECK_DEADLOCK FALSE
