SPECIFICATION MaintenanceSpec
CONSTANTS
  HoursOfDay = 4
  SlotsPerHour = 2
  WeekLength = 3
  LastDay = 3
  ChangeHour = 2
CHECK_DEADLOCK FALSE
INVARIANT WindowOpensAtStart
