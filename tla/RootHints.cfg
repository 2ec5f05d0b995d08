CONSTANTS
  OneHour = 4
  OneDay = 8
  TwoDays = 16
  Round = 2
  Outcomes = {"valid", "no_name_servers", "rejected", "none", "error"}
SPECIFICATION HintsSpec
INVARIANTS
  RootAvailable
  AskedDaily
CHECK_DEADLOCK FALSE
