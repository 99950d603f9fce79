----------------------- MODULE MCHardwareCommunication -----------------------
(* Small instances of HardwareCommunication for TLC.                          *)
EXTENDS HardwareCommunication, TLC

CONSTANTS pipe, http       \* the force feedback pipe and the web server's thread

MCWriters     == {pipe, http}
MCPipeWriters == {pipe}
MCMaxOutputs  == [w \in Writers |-> IF w = pipe THEN 2 ELSE 1]

==============================================================================
