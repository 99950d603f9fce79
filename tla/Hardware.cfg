SPECIFICATION LiveSpec
CONSTANTS
  pipe = pipe
  http = http
  LF = LF
  NUL = NUL
  Writers <- MCWriters
  PipeWriters <- MCPipeWriters
  Transports = {"serial", "bluetooth"}
  MaxOutputs <- MCMaxOutputs
  MaxRx = 1
INVARIANTS FreshInOrder NoLossUnlessRaced
PROPERTIES  ImplementsListener DestructorReturns QueueIsFlushed
CHECK_DEADLOCK FALSE
