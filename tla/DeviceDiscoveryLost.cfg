SPECIFICATION GloveSpec
CONSTANTS
  Hands = {"left", "right"}
  Drivers = {"left", "right"}
  Transports = {"serial"}
  NamedPipe = FALSE
  MaxFound <- MCMaxFound
PROPERTIES EveryGloveIsFound
CHECK_DEADLOCK FALSE
