---------------------------- MODULE PoseCalibration ----------------------------
(* How the offset between a hand and its tracked controller is calibrated.     *)
(*                                                                             *)
(* While a calibration is in progress the pose thread reports the frozen       *)
(* maintain_pose_, and completing it takes the offset that puts the hand there *)
(* at the controller's new pose.  A glove's calibrate button (the device's     *)
(* listener thread) and the user interface (worker threads of the external     *)
(* server) start and complete calibrations of the same DevicePose, which has   *)
(* no lock: every access to its fields is a step of its own.                   *)
(*                                                                             *)
(* Poses and offsets are those of DriverMath's exact arithmetic, velocities    *)
(* are left out.  The offset is stored in SteamVR's settings as a position and *)
(* three angles, and read from there when the driver starts again, which it    *)
(* may at any moment.                                                          *)
EXTENDS DriverMath, Sequences

CONSTANTS
  Workers,          \* worker threads of the external server
  ControllerPath,   \* bound: the matrices of the poses the controller takes in turn
  Headset,          \* the matrix of device 0
  Settings,         \* the offsets SteamVR's settings may hold without a calibration
  MaxPresses,       \* bound: times the calibrate button is pressed
  MaxRequests,      \* bound: requests of the user interface
  MaxPosts,         \* bound: times the settings page posts an offset
  MaxRestarts       \* bound: times the driver ends and starts again

Angles  == [roll : -1 .. 2, pitch : -1 .. 2, yaw : -1 .. 2]
Offsets == [position : Vectors, degrees : Angles]    \* as SteamVR's settings hold them

Listener == "listener"    \* the device's listener thread
ASSUME WorkersAssumption  == Listener \notin Workers
ASSUME PathAssumption     == ControllerPath \in Seq(TurnMatrices) \ {<<>>}
ASSUME HeadsetAssumption  == Headset \in TurnMatrices
ASSUME SettingsAssumption == Settings \subseteq Offsets
ASSUME BoundAssumption    == {MaxPresses, MaxRequests, MaxPosts, MaxRestarts} \subseteq Nat

Threads == {Listener} \cup Workers
Poses   == [position : Vectors, orientation : Quaternions]
NoPose  == [position |-> <<0, 0, 0>>, orientation |-> Zero]    \* vr::DriverPose_t{}
Methods == {"Hardware", "Ui"}    \* kCalibrationMethod_None is never used

VARIABLES
  is_calibrating, calibration_method, maintain_pose,   \* PoseCalibration
  configuration, controller_id,                        \* DevicePose
  saved,         \* the offset in SteamVR's settings
  moves,         \* the tracked controller's moves along its path
  pressed,       \* the glove's calibrate button
  pc,            \* pc[t]: what thread t does next
  pose,          \* pose[t]: the pose t has taken
  offset,        \* offset[t]: the offset t is about to store or to save
  reporter,      \* the pose thread: what it is about to report
  late,          \* live poses reported since the calibration began
  raced,         \* two threads have been inside a start or a completion at once
  outdated,      \* an offset was stored while another thread held the old one
  result,        \* the offset of the last completion that did something
  posted,        \* the settings page has posted an offset since the last save
  overlapped,    \* the last save began while another was going on
  presses, requests, posts, restarts    \* counters of the bounds

fields == <<is_calibrating, calibration_method, maintain_pose>>
locals == <<pose, offset>>
ghosts == <<late, raced, outdated, result, posted, overlapped>>
inputs == <<controller_id, moves, pressed, presses, requests, posts, restarts>>
vars == <<is_calibrating, calibration_method, maintain_pose, configuration, controller_id, saved,
          moves, pressed, pc, pose, offset, reporter, late, raced, outdated, result, posted,
          overlapped, presses, requests, posts, restarts>>

Starting   == {"start", "method", "maintain", "begin"}
Completing == {"complete", "match", "end", "compute", "store", "putback"}
Saving     == {"save", "position", "degrees"}

TypeOK ==
  /\ is_calibrating \in BOOLEAN /\ calibration_method \in Methods /\ maintain_pose \in Poses
  /\ configuration \in Poses /\ result \in Poses
  /\ saved \in Offsets
  /\ controller_id \in {0, 1} /\ moves \in 0 .. Len(ControllerPath) - 1 /\ pressed \in BOOLEAN
  /\ pc \in [Threads -> {"idle"} \cup Starting \cup Completing \cup Saving]
  /\ pose \in [Threads -> Poses] /\ offset \in [Threads -> Poses]
  /\ reporter \in {"test", "live"} /\ late \in Nat
  /\ {raced, outdated, posted, overlapped} \subseteq BOOLEAN
  /\ {presses, requests, posts, restarts} \subseteq Nat

Method(t) == IF t = Listener THEN "Hardware" ELSE "Ui"

(* The pose of a controller from its matrix, the pose of a hand at offset o to *)
(* a controller at c, and the offset that puts a hand at h when its controller *)
(* is at c.                                                                    *)
PoseOf(m) == [position |-> MatrixToPosition(m), orientation |-> MatrixToOrientation(m)]
Place(c, o) ==
  [position    |-> Plus(c.position, Rotated(o.position, c.orientation)),
   orientation |-> Unit[Product(c.orientation, o.orientation)]]

\* Mutant: the offset is not turned into the controller's frame.
OffsetToUnturned(h, c) ==
  [position    |-> Minus(h.position, c.position),
   orientation |-> Unit[Product(Conjugate(c.orientation), h.orientation)]]

OffsetTo(h, c) ==
  [position    |-> Rotated(Minus(h.position, c.position), Conjugate(c.orientation)),
   orientation |-> Unit[Product(Conjugate(c.orientation), h.orientation)]]

\* Mutant: the angles about x and z mixed up.
LoadedSwapped(settings) ==
  [position    |-> settings.position,
   orientation |-> EulerToQuaternion(settings.degrees.roll, settings.degrees.pitch, settings.degrees.yaw)]

(* GetPoseConfiguration: the offset of what is in SteamVR's settings.          *)
Loaded(settings) ==
  [position    |-> settings.position,
   orientation |-> EulerToQuaternion(settings.degrees.yaw, settings.degrees.pitch, settings.degrees.roll)]

(* GetControllerPose: until a controller is reported it is that of device 0.   *)
Controller     == ControllerPath[moves + 1]
ControllerPose == PoseOf(IF controller_id = 0 THEN Headset ELSE Controller)

(* A pose that is not valid is a matrix of zeros.                              *)
NoMatrix == [row \in 1 .. 3 |-> <<0, 0, 0, 0>>]

LivePose ==
  IF controller_id = 0 \/ Controller = NoMatrix THEN NoPose ELSE Place(ControllerPose, configuration)
UpdatePose == IF is_calibrating THEN maintain_pose ELSE LivePose

(* The fields of a driver that has just been started.                          *)
Fresh ==
  /\ is_calibrating' = FALSE /\ calibration_method' = "Hardware" /\ maintain_pose' = NoPose
  /\ configuration' = Loaded(saved) /\ controller_id' = 0
  /\ pc' = [t \in Threads |-> "idle"]
  /\ pose' = [t \in Threads |-> NoPose] /\ offset' = [t \in Threads |-> NoPose]
  /\ reporter' = "test" /\ late' = 0

Init ==
  /\ is_calibrating = FALSE /\ calibration_method = "Hardware" /\ maintain_pose = NoPose
  /\ saved \in Settings /\ configuration = Loaded(saved) /\ result = configuration
  /\ controller_id = 0 /\ moves = 0 /\ pressed = FALSE
  /\ pc = [t \in Threads |-> "idle"]
  /\ pose = [t \in Threads |-> NoPose] /\ offset = [t \in Threads |-> NoPose]
  /\ reporter = "test" /\ late = 0
  /\ raced = FALSE /\ outdated = FALSE /\ posted = FALSE /\ overlapped = FALSE
  /\ presses = 0 /\ requests = 0 /\ posts = 0 /\ restarts = 0

(* Inside a start, or a completion of the calibration's own method.            *)
Critical == (Starting \cup Completing) \ {"complete", "match", "putback"}
Enter(t, next) ==
  /\ pc' = [pc EXCEPT ![t] = next]
  /\ raced' = (raced \/ \E u \in Threads \ {t} : pc[u] \in Critical)
Step(t, here, next) == pc[t] = here /\ pc' = [pc EXCEPT ![t] = next]

--------------------------------------------------------------------------------
(* A packet of the glove, whose button is down: start unless calibrating.      *)
PacketPressed ==
  /\ pc[Listener] = "idle" /\ pressed /\ ~is_calibrating
  /\ Enter(Listener, "start")
  /\ UNCHANGED <<fields, configuration, saved, locals, reporter, late, outdated, result, posted, overlapped, inputs>>

(* A packet whose button is up completes whatever calibration is in progress.  *)
PacketReleased ==
  /\ ~pressed /\ is_calibrating
  /\ Step(Listener, "idle", "complete")
  /\ UNCHANGED <<fields, configuration, saved, locals, reporter, ghosts, inputs>>

(* A request of the user interface: {"start": true} or {"start": false}.       *)
RequestStart(t) ==
  /\ pc[t] = "idle" /\ requests < MaxRequests
  /\ Enter(t, "start")
  /\ requests' = requests + 1
  /\ UNCHANGED <<fields, configuration, saved, locals, reporter, late, outdated, result, posted, overlapped,
                 controller_id, moves, pressed, presses, posts, restarts>>

RequestComplete(t) ==
  /\ requests < MaxRequests
  /\ Step(t, "idle", "complete")
  /\ requests' = requests + 1
  /\ UNCHANGED <<fields, configuration, saved, locals, reporter, ghosts,
                 controller_id, moves, pressed, presses, posts, restarts>>

(* StartCalibration: the pose to keep is taken before the fields are set.      *)
TakePose(t) ==
  /\ Step(t, "start", "method")
  /\ pose' = [pose EXCEPT ![t] = UpdatePose]
  /\ UNCHANGED <<fields, configuration, saved, offset, reporter, ghosts, inputs>>

SetMethod(t) ==
  /\ Step(t, "method", "maintain")
  /\ calibration_method' = Method(t)
  /\ UNCHANGED <<is_calibrating, maintain_pose, configuration, saved, locals, reporter, ghosts, inputs>>

SetMaintainPose(t) ==
  /\ Step(t, "maintain", "begin")
  /\ maintain_pose' = pose[t]
  /\ pose' = [pose EXCEPT ![t] = NoPose]
  /\ UNCHANGED <<is_calibrating, calibration_method, configuration, saved, offset, reporter, ghosts, inputs>>

Begin(t) ==
  /\ Step(t, "begin", "idle")
  /\ is_calibrating' = TRUE
  /\ late' = IF is_calibrating THEN late ELSE 0
  /\ UNCHANGED <<calibration_method, maintain_pose, configuration, saved, locals, reporter,
                 raced, outdated, result, posted, overlapped, inputs>>

(* CompleteCalibration: the controller's pose is an argument, read first.      *)
TakeController(t) ==
  /\ Step(t, "complete", "match")
  /\ pose' = [pose EXCEPT ![t] = ControllerPose]
  /\ UNCHANGED <<fields, configuration, saved, offset, reporter, ghosts, inputs>>

\* Mutant: CompleteCalibration does not compare the methods.
MatchAny(t) ==
  /\ pc[t] = "match"
  /\ Enter(t, "end")
  /\ UNCHANGED <<fields, configuration, saved, locals, reporter, late, outdated, result, posted, overlapped, inputs>>

(* A calibration of the other method is left alone: the configuration is       *)
(* copied, to be put back.                                                     *)
Mismatch(t) ==
  /\ Step(t, "match", "putback")
  /\ calibration_method # Method(t)
  /\ offset' = [offset EXCEPT ![t] = configuration]
  /\ pose' = [pose EXCEPT ![t] = NoPose]
  /\ UNCHANGED <<fields, configuration, saved, reporter, ghosts, inputs>>

Match(t) ==
  /\ pc[t] = "match" /\ calibration_method = Method(t)
  /\ Enter(t, "end")
  /\ UNCHANGED <<fields, configuration, saved, locals, reporter, late, outdated, result, posted, overlapped, inputs>>

\* Mutant: CompleteCalibration does not reset is_calibrating_.
EndNothing(t) ==
  /\ Step(t, "end", "compute")
  /\ UNCHANGED <<fields, configuration, saved, locals, reporter, ghosts, inputs>>

\* Mutant: the calibration's method is reset with it.
EndForMethod(t) ==
  /\ Step(t, "end", "compute")
  /\ is_calibrating' = FALSE
  /\ calibration_method' = "None"
  /\ UNCHANGED <<maintain_pose, configuration, saved, locals, reporter, ghosts, inputs>>

End(t) ==
  /\ Step(t, "end", "compute")
  /\ is_calibrating' = FALSE
  /\ UNCHANGED <<calibration_method, maintain_pose, configuration, saved, locals, reporter, ghosts, inputs>>

Compute(t) ==
  /\ Step(t, "compute", "store")
  /\ offset' = [offset EXCEPT ![t] = OffsetTo(maintain_pose, pose[t])]
  /\ UNCHANGED <<fields, configuration, saved, pose, reporter, ghosts, inputs>>

\* Mutant: CompleteCalibration returns an empty configuration.
PutBackNothing(t) ==
  /\ Step(t, "putback", "save")
  /\ configuration' = NoPose
  /\ offset' = [offset EXCEPT ![t] = NoPose]
  /\ UNCHANGED <<fields, saved, pose, reporter, ghosts, inputs>>

(* CompleteCalibration has returned: its result is assigned.                   *)
AnotherSaves(t) == \E u \in Threads \ {t} : pc[u] \in Saving

Store(t) ==
  /\ Step(t, "store", "save")
  /\ configuration' = offset[t]
  /\ result' = offset[t]
  /\ outdated' = (outdated \/ \E u \in Threads : pc[u] = "putback")
  /\ overlapped' = AnotherSaves(t)
  /\ pose' = [pose EXCEPT ![t] = NoPose] /\ offset' = [offset EXCEPT ![t] = NoPose]
  /\ UNCHANGED <<fields, saved, reporter, late, raced, posted, inputs>>

PutBack(t) ==
  /\ Step(t, "putback", "save")
  /\ configuration' = offset[t]
  /\ overlapped' = AnotherSaves(t)
  /\ offset' = [offset EXCEPT ![t] = NoPose]
  /\ UNCHANGED <<fields, saved, pose, reporter, late, raced, outdated, result, posted, inputs>>

(* SetPoseConfiguration(configuration_, role_), whichever way it was assigned. *)
(* It has a reference: the position is read when it is stored, and then the    *)
(* orientation.                                                                *)
ReadPosition(t) ==
  /\ Step(t, "save", "position")
  /\ offset' = [offset EXCEPT ![t] = [NoPose EXCEPT !.position = configuration.position]]
  /\ UNCHANGED <<fields, configuration, saved, pose, reporter, ghosts, inputs>>

SavePosition(t) ==
  /\ Step(t, "position", "degrees")
  /\ saved' = [saved EXCEPT !.position = offset[t].position] /\ posted' = FALSE
  /\ offset' = [offset EXCEPT ![t] = [NoPose EXCEPT !.orientation = configuration.orientation]]
  /\ UNCHANGED <<fields, configuration, pose, reporter, late, raced, outdated, result, overlapped, inputs>>

SaveDegrees(t) ==
  /\ Step(t, "degrees", "idle")
  /\ saved' = [saved EXCEPT !.degrees = QuaternionToEuler(offset[t].orientation)]
  /\ offset' = [offset EXCEPT ![t] = NoPose]
  /\ UNCHANGED <<fields, configuration, pose, reporter, ghosts, inputs>>

\* Mutant: the pose thread does not look whether a calibration is on.
TestNothing ==
  /\ reporter = "test"
  /\ reporter' = "live"
  /\ UNCHANGED <<fields, configuration, saved, pc, locals, ghosts, inputs>>

(* The pose thread: UpdatePose returns the frozen pose while a calibration is  *)
(* in progress, and else takes a live one, which is reported later.            *)
TestCalibrating ==
  /\ reporter = "test" /\ ~is_calibrating
  /\ reporter' = "live"
  /\ UNCHANGED <<fields, configuration, saved, pc, locals, ghosts, inputs>>

ReportPose ==
  /\ reporter = "live"
  /\ reporter' = "test"
  /\ late' = IF is_calibrating THEN late + 1 ELSE late
  /\ UNCHANGED <<fields, configuration, saved, pc, locals, raced, outdated, result, posted, overlapped, inputs>>

--------------------------------------------------------------------------------
(* The environment: the overlay's first report of the hand's controller, the   *)
(* controller's movements, the glove's button, POST /settings.                 *)
ControllerFound ==
  /\ controller_id = 0 /\ controller_id' = 1
  /\ UNCHANGED <<fields, configuration, saved, pc, locals, reporter, ghosts,
                 moves, pressed, presses, requests, posts, restarts>>

ControllerMoves ==
  /\ moves + 1 < Len(ControllerPath)
  /\ moves' = moves + 1
  /\ UNCHANGED <<fields, configuration, saved, pc, locals, reporter, ghosts,
                 controller_id, pressed, presses, requests, posts, restarts>>

Press ==
  /\ ~pressed /\ presses < MaxPresses
  /\ pressed' = TRUE /\ presses' = presses + 1
  /\ UNCHANGED <<fields, configuration, saved, pc, locals, reporter, ghosts,
                 controller_id, moves, requests, posts, restarts>>

Release ==
  /\ pressed /\ pressed' = FALSE
  /\ UNCHANGED <<fields, configuration, saved, pc, locals, reporter, ghosts,
                 controller_id, moves, presses, requests, posts, restarts>>

PostOffset ==
  /\ posts < MaxPosts /\ posts' = posts + 1
  /\ saved' \in Settings
  /\ posted' = TRUE
  /\ UNCHANGED <<fields, configuration, pc, locals, reporter, late, raced, outdated, result, overlapped,
                 controller_id, moves, pressed, presses, requests, restarts>>

(* SteamVR ends or crashes, at any moment, and starts the driver again.  An    *)
(* offset that was posted comes into force; one that was not saved to the end, *)
(* or whose save overlapped another, may be lost.                              *)
Restart ==
  /\ restarts < MaxRestarts /\ restarts' = restarts + 1
  /\ Fresh
  /\ raced' = FALSE /\ overlapped' = FALSE
  /\ outdated' = (~posted /\ (outdated \/ overlapped \/ \E t \in Threads : pc[t] \in Saving))
  /\ result' = (IF posted THEN Loaded(saved) ELSE result)
  /\ UNCHANGED <<saved, moves, pressed, posted, presses, requests, posts>>

--------------------------------------------------------------------------------
Calibrate(t) ==
  \/ TakePose(t) \/ SetMethod(t) \/ SetMaintainPose(t) \/ Begin(t)
  \/ TakeController(t) \/ Mismatch(t) \/ Match(t) \/ End(t) \/ Compute(t)
  \/ Store(t) \/ PutBack(t) \/ ReadPosition(t) \/ SavePosition(t) \/ SaveDegrees(t)

Packet == PacketPressed \/ PacketReleased

Next ==
  \/ Packet
  \/ \E t \in Workers : RequestStart(t) \/ RequestComplete(t)
  \/ \E t \in Threads : Calibrate(t)
  \/ TestCalibrating \/ ReportPose
  \/ ControllerFound \/ ControllerMoves \/ Press \/ Release \/ PostOffset
  \/ Restart

Spec == Init /\ [][Next]_vars

(* The glove sends packets all the time, and its listener thread runs.         *)
LiveSpec == Spec /\ WF_vars(Packet \/ Calibrate(Listener))

--------------------------------------------------------------------------------
(* Whose calibration is in progress.                                           *)
Session == IF is_calibrating THEN calibration_method ELSE "None"

(* The glove streams packets with the button up while the user interface       *)
(* calibrates, and each of them runs CompleteCalibration.  Unless two threads  *)
(* were inside a start or completion at once, a calibration is ended only by   *)
(* the method that started it, and the button never takes one over (the        *)
(* user interface may).                                                        *)
SessionsKeepTheirOwner ==
  [][~raced' /\ Session' # Session /\ restarts' = restarts =>
       \E t \in Threads :
         /\ pc'[t] # pc[t]
         /\ \/ Session' = Method(t) /\ (t = Listener => Session = "None")
            \/ Session' = "None" /\ Session = Method(t)]_vars

(* The offset a completion stores puts the hand, at the pose its controller    *)
(* had, where it was frozen.                                                   *)
HandStaysWhereFrozen ==
  \A t \in Threads :
    pc[t] = "store" /\ ~raced => Place(pose[t], offset[t]) = maintain_pose

(* The pose thread reports at most one pose of the moving controller after a   *)
(* calibration has begun: the one whose UpdatePose was past its test.          *)
AtMostOneLateReport == late <= 1

(* Whether two offsets put the hand at the same pose, but for what the         *)
(* settings cannot hold: of an orientation whose pitch is a quarter turn the   *)
(* angles do not tell the yaw and roll, and no angles stand for Zero.          *)
Locked(q)  == q = Zero \/ QuaternionToEuler(q).pitch # 0
Same(a, b) ==
  /\ a.position = b.position
  /\ a.orientation \in {b.orientation, Negated(b.orientation)} \/ Locked(b.orientation)

(* What a completion stored stays in force, also when the driver starts again: *)
(* the completions of the other method, which put the configuration back, undo *)
(* it only if one of them held its copy when the offset was stored, and a      *)
(* restart loses it only if a save was going on or saves have overlapped.      *)
CalibrationSticks == ~outdated => Same(configuration, result)

(* Two completions may save in either order, but when none is about to save    *)
(* and the last did not overlap another, a restart would bring back the offset *)
(* in force, or one posted since the last save.                                *)
SavedIsInForce ==
  (\A t \in Threads : pc[t] \notin Saving) /\ ~posted /\ ~overlapped
    => Same(Loaded(saved), configuration)

(* A calibration of the button ends once the button is up.                     *)
ButtonEndsCalibration ==
  (Session = "Hardware" /\ ~pressed) ~> (Session # "Hardware" \/ pressed)

(* CompleteCalibration means to cancel when there is no controller to take the *)
(* offset from, and logs that its "controller index was invalid".  But         *)
(* controller_id_ is unsigned: the test for a negative one never holds, and    *)
(* the offset is computed from device 0, the headset.                          *)
OffsetsNeedAController == [][result' # result => controller_id # 0]_vars

================================================================================
