SPECIFICATION Spec
CONSTANTS
  Workers = {w1}
  ControllerPath <- MCControllerPath
  Headset <- Upright
  Settings <- MCSettings
  MaxPresses = 1
  MaxRequests = 1
  MaxPosts = 0
  MaxRestarts = 0
PROPERTIES OffsetsNeedAController
CHECK_DEADLOCK FALSE
