SPECIFICATION LiveSpec
CONSTANTS
  Workers = {w1}
  ControllerPath <- MCControllerPath
  Headset <- NoMatrix
  Settings <- MCSettings
  MaxPresses = 1
  MaxRequests = 2
  MaxPosts = 1
  MaxRestarts = 1
INVARIANTS TypeOK HandStaysWhereFrozen AtMostOneLateReport CalibrationSticks SavedIsInForce
PROPERTIES SessionsKeepTheirOwner ButtonEndsCalibration
CHECK_DEADLOCK FALSE
