\* Two posts check two vehicles in, around midnight, beside administrators who reopen.
SPECIFICATION LiveSpec
CONSTANTS
  p1 = p1
  p2 = p2
  v1 = v1
  v2 = v2
  v3 = v3
  Posts <- TwoPosts
  Standard <- TwoStandard
  Special <- None
  Reopens = TRUE
  MaxDay = 2
  MaxRows = 3
CHECK_DEADLOCK FALSE
INVARIANTS
  TypeOK
  OneAdmissionPerVehicle
  NextNumberFree
PROPERTIES
  BusyOnlyWhenOvertaken
  EveryCheckInAnswered
