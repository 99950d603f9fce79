SPECIFICATION GloveSpec
CONSTANTS
  Streams <- MCStreams
  MaxPieces = 3
  MaxAnalogValue = 4
  Bones <- MCBones
  Nodes <- MCNodes
  Channels <- MCChannels
  KeyframeTimes <- MCKeyframeTimes
  Closed = 16
  MaxSplay = 4
INVARIANTS OnlyEmptyIsEmpty
CHECK_DEADLOCK FALSE
