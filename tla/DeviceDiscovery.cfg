SPECIFICATION GloveSpec
CONSTANTS
  Hands = {"left", "right"}
  Drivers = {"left"}
  Transports = {"serial", "bluetooth"}
  NamedPipe = TRUE
  MaxFound <- MCMaxFound
INVARIANTS DevicesAreOwned CrashNeedsARace
  
CHECK_DEADLOCK FALSE
