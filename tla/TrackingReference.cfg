SPECIFICATION LiveSpec
CONSTANTS
  Hands = {"left", "right"}
  Drivers = {"left", "right"}
  Ids = {1, 2}
  MaxChanges = 2
INVARIANTS EveryReferenceReachesItsHand
PROPERTIES ControllerIsReported OverlayEnds
CHECK_DEADLOCK FALSE
