---------------------------- MODULE DeviceListener ----------------------------
(* What the listener of a device and the owner of the device may expect of one *)
(* another.  The listener makes one callback after another, may end by itself, *)
(* and once it is told to stop makes one callback more at most.  The owner     *)
(* starts it once, never after telling it to stop, and is done with it when it *)
(* has returned.                                                               *)

VARIABLES
  thread,     \* "off" before the start and after the join
  stopping    \* the listener was told to stop

Init == thread = "off" /\ stopping = FALSE

Move(from, to) == thread = from /\ thread' = to

\* The owner.
Start == Move("off", "receive") /\ ~stopping /\ UNCHANGED stopping
Stop  == ~stopping /\ stopping' = TRUE /\ UNCHANGED thread
Join  == Move("returned", "off") /\ stopping /\ UNCHANGED stopping

\* The listener.
Call   == Move("receive", "callback") /\ UNCHANGED stopping
Return == Move("callback", IF stopping THEN "returned" ELSE "receive") /\ UNCHANGED stopping
End    == Move("receive", "returned") /\ UNCHANGED stopping

Next == Start \/ Stop \/ Join \/ Call \/ Return \/ End

Spec == Init /\ [][Next]_<<thread, stopping>>
================================================================================
