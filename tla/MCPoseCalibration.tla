-------------------------- MODULE MCPoseCalibration ---------------------------
(* PoseCalibration for TLC: two controller poses turned about axes that do not *)
(* commute, a headset that has a pose or, as NoMatrix, none, and an offset     *)
(* that is turned itself.                                                      *)
EXTENDS PoseCalibration

Upright == <<<<1, 0, 0, 0>>, <<0, 1, 0, 2>>, <<0, 0, 1, 0>>>>
Rolled  == <<<<1, 0, 0, 1>>, <<0, 0, -1, 1>>, <<0, 1, 0, 0>>>>      \* about x
Tilted  == <<<<0, 0, 1, -2>>, <<1, 0, 0, 1>>, <<0, 1, 0, 0>>>>      \* about a diagonal

MCControllerPath == <<Rolled, Tilted>>
MCSettings == {[position |-> <<-1, 2, 0>>, degrees |-> [roll |-> 0, pitch |-> 0, yaw |-> 1]]}

================================================================================
