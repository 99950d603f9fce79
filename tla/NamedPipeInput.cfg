SPECIFICATION Spec
CONSTANTS
  Hands = {"left"}
  Versions = 2
  Period = 2
  MaxDelay = 1
INVARIANTS CrashNeedsDestruction AnnouncedOncePerPipe SkeletonsAreWhole RepeatsNeedARace
PROPERTIES OneBundlePerPeriod
CHECK_DEADLOCK FALSE
