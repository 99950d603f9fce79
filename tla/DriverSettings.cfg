SPECIFICATION Spec
CONSTANTS
  Workers = {"w1", "w2"}
  Bodies <- MCBodies
  MaxRequests = 2
  MaxSaves = 1
INVARIANTS SettingsAreSerial 
CHECK_DEADLOCK FALSE
