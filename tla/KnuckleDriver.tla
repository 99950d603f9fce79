----------------------------- MODULE KnuckleDriver ------------------------------
(* The driver of one hand from its construction to its end, and the threads    *)
(* that use it: SteamVR's, the prober that hands devices over, each device's   *)
(* listener, the pose thread, and the workers of both web servers, whose       *)
(* functions capture the driver and its DevicePose and are never removed.      *)
(*                                                                             *)
(* Each member has a life of its own: pose_ and hand_tracking_ end in ~Impl,   *)
(* device_ is replaced by the prober and ended by ~Impl.  Using what has ended *)
(* is undefined and ends the model, with the thread that did it in crashed.    *)
(*                                                                             *)
(* One prober at a time is inside SetDeviceDriver, as DeviceDiscovery shows.   *)
(* Each device's listener does what DeviceListener says, which                 *)
(* HardwareCommunication and NamedPipeListener implement.  A device has one,   *)
(* as a glove does; NamedPipeInput has the two of a pipe's.  The map of        *)
(* functions is accessed atomically.                                           *)
EXTENDS Naturals, FiniteSets

CONSTANTS
  Workers,      \* the threads of the web servers
  MaxFound      \* bound: devices found for the hand

ASSUME BoundAssumption == MaxFound \in Nat
ASSUME NamesAssumption == Workers \cap {"none", "prober", "listener", "poser"} = {}

Devices == 1..MaxFound
None    == 0               \* nullptr

VARIABLES
  main,         \* where SteamVR's thread is
  activated,    \* SteamVR has called Activate
  is_active,    \* is_active_ of the Impl
  members,      \* the parts of the driver that exist: "impl", "pose", "hand_tracking"
  device,       \* device_
  live,         \* the devices that exist
  ending,       \* those whose listener was told to stop
  listener,     \* listener[d]: where the listener of device d is
  prober,       \* where the prober is
  old,          \* old[t]: the device thread t has taken out of device_, or None
  found,        \* the number of devices found
  poser,        \* where the pose thread is
  functions,    \* the functions registered with the servers
  worker,       \* worker[w]: where worker w is
  using,        \* using[w]: the device it outputs to, or None
  serving,      \* the servers run: Cleanup has not stopped them
  replaced,     \* auxiliary: a device was replaced while a worker used it
  overtaken,    \* auxiliary: ~Impl began while the prober was in SetDeviceDriver
  crashed       \* the thread that used what had ended, or "none"

vars == <<main, activated, is_active, members, device, live, ending, listener, prober, old,
          found, poser, functions, worker, using, serving, replaced, overtaken, crashed>>
lifeVars   == <<main, activated, is_active, members, serving, overtaken>>
deviceVars == <<device, live, ending, old, found, replaced>>
workerVars == <<worker, using>>

Callback   == {"compute", "calibrate"}     \* of a listener
Ending     == {"exchange", "join", "reset", "delete", "hands", "pose", "device", "free"}
Owners     == {"main", "prober"}           \* the threads that delete devices

\* A listener runs only while its device exists.
TypeOK ==
  /\ main \in {"construct", "idle", "activate", "gone"} \cup Ending
  /\ {activated, is_active, serving, replaced, overtaken} \subseteq BOOLEAN
  /\ members \subseteq {"impl", "pose", "hand_tracking"}
  /\ device \in Devices \cup {None} /\ old \in [Owners -> Devices \cup {None}]
  /\ live \subseteq Devices /\ ending \subseteq Devices /\ found \in 0..MaxFound
  /\ listener \in [Devices -> {"off", "receive", "returned"} \cup Callback]
  /\ \A d \in Devices \ live : listener[d] = "off"
  /\ prober \in {"idle", "store", "delete", "listen", "register"}
  /\ poser \in {"none", "test", "update", "ended"}
  /\ functions \subseteq {"pose_calibration", "tracking_reference", "force_feedback"}
  /\ worker \in [Workers -> {"idle", "output"} \cup functions]
  /\ using \in [Workers -> Devices \cup {None}]
  /\ crashed \in {"none", "prober", "listener", "poser"} \cup Workers

Init ==
  /\ main = "construct" /\ activated = FALSE /\ is_active = FALSE
  /\ members = {} /\ functions = {} /\ serving = TRUE
  /\ device = None /\ old = [t \in Owners |-> None] /\ live = {} /\ ending = {} /\ found = 0
  /\ listener = [d \in Devices |-> "off"] /\ prober = "idle" /\ poser = "none"
  /\ worker = [w \in Workers |-> "idle"] /\ using = [w \in Workers |-> None]
  /\ replaced = FALSE /\ overtaken = FALSE /\ crashed = "none"

\* A thread's step uses what should exist.
Use(thread, exists) == crashed' = IF exists THEN crashed ELSE thread

Step(from, to) == main = from /\ main' = to

\* device_ is taken out by thread t, to become d,
Take(t, d) ==
  /\ old' = [old EXCEPT ![t] = device]
  /\ device' = d

\* its listener is told to stop, which is not the first thing its destructor does,
Stop(t) ==
  /\ old[t] \notin ending \cup {None}
  /\ ending' = ending \cup {old[t]}

\* and it is deleted once the listener has been joined.
Delete(t) ==
  /\ old[t] # None => old[t] \in ending /\ listener[old[t]] \in {"off", "returned"}
  /\ live' = live \ {old[t]}
  /\ listener' = [d \in Devices |-> IF d = old[t] THEN "off" ELSE listener[d]]
  /\ old' = [old EXCEPT ![t] = None]

--------------------------------------------------------------------------------
(* SteamVR's thread.                                                           *)

\* Impl's constructor: pose_ registers its functions with both running servers,
\* hand_tracking_ comes after it; then TrackedDeviceAdded.
Construct ==
  /\ Step("construct", "idle")
  /\ members' = {"impl", "pose", "hand_tracking"}
  /\ functions' = {"pose_calibration", "tracking_reference"}
  /\ UNCHANGED <<activated, is_active, serving, overtaken, deviceVars, listener, prober, poser, workerVars, crashed>>

\* Activate creates the components and loads the default skeleton,
CreateComponents ==
  /\ ~activated /\ activated' = TRUE
  /\ Step("idle", "activate")
  /\ UNCHANGED <<is_active, members, serving, overtaken, deviceVars, listener, prober, poser, functions, workerVars, crashed>>

\* then starts the pose thread.
StartPoseThread ==
  /\ Step("activate", "idle")
  /\ is_active' = TRUE /\ poser' = "test"
  /\ UNCHANGED <<activated, members, serving, overtaken, deviceVars, listener, prober, functions, workerVars, crashed>>

\* Cleanup: StopProber joins the probers, the servers take no more requests.
Cleanup ==
  /\ main = "idle" \/ main = "gone"
  /\ serving /\ serving' = FALSE
  /\ prober = "idle"
  /\ UNCHANGED <<main, activated, is_active, members, overtaken, deviceVars, listener, prober, poser, functions, workerVars, crashed>>

\* Deactivate of an activated driver, or the end of the process for the other:
\* pImpl_ = nullptr runs ~Impl.
Destroy ==
  /\ activated \/ ~serving
  /\ Step("idle", "exchange")
  /\ overtaken' = (prober # "idle")
  /\ UNCHANGED <<activated, is_active, members, serving, deviceVars, listener, prober, poser, functions, workerVars, crashed>>

\* Mutant: is_active_ is read and not cleared.
ExchangeNothing ==
  /\ Step("exchange", IF is_active THEN "join" ELSE "hands")
  /\ UNCHANGED <<activated, is_active, members, serving, overtaken, deviceVars, listener, prober, poser, functions, workerVars, crashed>>

\* is_active_.exchange(false); a driver that was never activated goes on to the
\* destruction of its members.
Exchange ==
  /\ Step("exchange", IF is_active THEN "join" ELSE "hands")
  /\ is_active' = FALSE
  /\ UNCHANGED <<activated, members, serving, overtaken, deviceVars, listener, prober, poser, functions, workerVars, crashed>>

\* Mutant: ~Impl leaves device_ to the destruction of the members.
JoinPoseThreadOnly ==
  /\ Step("join", "hands")
  /\ poser = "ended"
  /\ UNCHANGED <<activated, is_active, members, serving, overtaken, deviceVars, listener, prober, poser, functions, workerVars, crashed>>

JoinPoseThread ==
  /\ Step("join", "reset")
  /\ poser = "ended"
  /\ UNCHANGED <<activated, is_active, members, serving, overtaken, deviceVars, listener, prober, poser, functions, workerVars, crashed>>

\* device_ = nullptr joins the listener before the other members end.
ResetDevice ==
  /\ main \in {"reset", "device"} /\ main' = "delete"
  /\ Take("main", None)
  /\ UNCHANGED <<activated, is_active, members, serving, overtaken, live, ending, found, replaced, listener,
                 prober, poser, functions, workerVars, crashed>>

StopDevice ==
  /\ main = "delete" /\ Stop("main")
  /\ UNCHANGED <<lifeVars, device, live, old, found, replaced, listener, prober, poser, functions, workerVars,
                 crashed>>

DeleteDevice ==
  /\ Step("delete", IF "hand_tracking" \in members THEN "hands" ELSE "free")
  /\ Delete("main")
  /\ UNCHANGED <<activated, is_active, members, serving, overtaken, device, ending, found, replaced, prober, poser,
                 functions, workerVars, crashed>>

\* The members end in the opposite order of their declaration: hand_tracking_,
\* pose_, then device_, if it is there still.
EndMember(from, to, member) ==
  /\ Step(from, to)
  /\ members' = members \ {member}
  /\ UNCHANGED <<activated, is_active, serving, overtaken, deviceVars, listener, prober, poser, functions, workerVars, crashed>>

EndMembers ==
  \/ EndMember("hands", "pose", "hand_tracking")
  \/ EndMember("pose", "device", "pose")
  \/ EndMember("free", "gone", "impl")

--------------------------------------------------------------------------------
(* The prober: OnDeviceFound and SetDeviceDriver.                              *)

Probe(from, to) == prober = from /\ prober' = to

\* A device is found; a driver that was deactivated has no pImpl_ any more.
Found ==
  /\ main # "construct" /\ serving
  /\ found < MaxFound /\ found' = found + 1
  /\ live' = live \cup {found'}
  /\ Probe("idle", "store")
  /\ Use("prober", main \notin Ending \cup {"gone"})
  /\ UNCHANGED <<lifeVars, device, ending, old, listener, poser, functions, workerVars, replaced>>

\* device_ = std::move(device)
StoreNew ==
  /\ Probe("store", "delete")
  /\ Take("prober", found)
  /\ Use("prober", "impl" \in members)
  /\ UNCHANGED <<lifeVars, live, ending, found, replaced, listener, poser, functions, workerVars>>

StopOld ==
  /\ prober = "delete" /\ Stop("prober")
  /\ UNCHANGED <<lifeVars, device, live, old, found, replaced, listener, prober, poser, functions, workerVars,
                 crashed>>

\* Mutant: the old device is deleted when the new one is listened to.
DeleteOldLater ==
  /\ Probe("delete", "listen")
  /\ UNCHANGED <<lifeVars, deviceVars, listener, poser, functions, workerVars, crashed>>

DeleteOld ==
  /\ Probe("delete", "listen")
  /\ Delete("prober")
  /\ replaced' = (replaced \/ \E w \in Workers : using[w] # None /\ using[w] = old["prober"])
  /\ UNCHANGED <<lifeVars, device, ending, found, poser, functions, workerVars, crashed>>

\* device_->ListenForInput starts the new device's listener.
Listen ==
  /\ Probe("listen", "register")
  /\ Use("prober", "impl" \in members /\ device \in live)
  /\ listener' = [d \in Devices |-> IF d = device THEN "receive" ELSE listener[d]]
  /\ UNCHANGED <<lifeVars, deviceVars, poser, functions, workerVars>>

RegisterForceFeedback ==
  /\ Probe("register", "idle")
  /\ functions' = functions \cup {"force_feedback"}
  /\ UNCHANGED <<lifeVars, deviceVars, listener, poser, workerVars, crashed>>

--------------------------------------------------------------------------------
(* A device's listener: the callback of SetDeviceDriver, for each packet.      *)

Listening(d, from, to) == listener[d] = from /\ listener' = [listener EXCEPT ![d] = to]
ListenerOnly == UNCHANGED <<lifeVars, deviceVars, prober, poser, functions, workerVars>>

Packet(d) == Listening(d, "receive", "compute") /\ ListenerOnly /\ UNCHANGED crashed

\* The bones are computed from the curls and the components are updated,
ComputeBones(d) ==
  /\ Listening(d, "compute", "calibrate")
  /\ Use("listener", {"impl", "hand_tracking"} \subseteq members)
  /\ ListenerOnly

\* then the calibrate button is looked at.  A listener that was told to stop makes no
\* other callback.
CheckCalibrate(d) ==
  /\ Listening(d, "calibrate", IF d \in ending THEN "returned" ELSE "receive")
  /\ Use("listener", {"impl", "pose"} \subseteq members)
  /\ ListenerOnly

\* A listener that waits for a packet ends when it was told to, or by itself when
\* the link fails.
EndListening(d) == Listening(d, "receive", "returned") /\ ListenerOnly /\ UNCHANGED crashed

--------------------------------------------------------------------------------
(* The pose thread.                                                            *)

Posing(from, to) == poser = from /\ poser' = to
TestActive ==
  /\ Posing("test", IF is_active THEN "update" ELSE "ended")
  /\ Use("poser", "impl" \in members)
  /\ UNCHANGED <<lifeVars, deviceVars, listener, prober, functions, workerVars>>

UpdatePose ==
  /\ Posing("update", "test")
  /\ Use("poser", {"impl", "pose"} \subseteq members)
  /\ UNCHANGED <<lifeVars, deviceVars, listener, prober, functions, workerVars>>

--------------------------------------------------------------------------------
(* The web servers' workers.                                                   *)

Working(w, from, to) == worker[w] = from /\ worker' = [worker EXCEPT ![w] = to]
WorkerOnly == UNCHANGED <<lifeVars, deviceVars, listener, prober, poser, functions>>

\* A function that was not registered yet is answered with 404.
Request(w, f) ==
  /\ serving /\ f \in functions
  /\ Working(w, "idle", f)
  /\ WorkerOnly /\ UNCHANGED <<using, crashed>>

\* The functions of DevicePose.
CallPose(w) ==
  /\ \E f \in {"pose_calibration", "tracking_reference"} : Working(w, f, "idle")
  /\ Use(w, "pose" \in members)
  /\ WorkerOnly /\ UNCHANGED using

\* force_feedback reads device_
ReadDevice(w) ==
  /\ Working(w, "force_feedback", "output")
  /\ Use(w, "impl" \in members /\ device # None)
  /\ using' = [using EXCEPT ![w] = device]
  /\ WorkerOnly

\* and calls its Output.
Output(w) ==
  /\ Working(w, "output", "idle")
  /\ Use(w, using[w] \in live)
  /\ using' = [using EXCEPT ![w] = None]
  /\ WorkerOnly

--------------------------------------------------------------------------------

Main ==
  \/ Construct \/ StartPoseThread \/ Exchange \/ JoinPoseThread \/ ResetDevice \/ StopDevice
  \/ DeleteDevice \/ EndMembers
Prober == Found \/ StoreNew \/ StopOld \/ DeleteOld \/ Listen \/ RegisterForceFeedback
Poser  == TestActive \/ UpdatePose
Listener(d) == Packet(d) \/ ComputeBones(d) \/ CheckCalibrate(d) \/ EndListening(d)
Worker(w) == CallPose(w) \/ ReadDevice(w) \/ Output(w)

Next ==
  /\ crashed = "none"
  /\ \/ Main \/ CreateComponents \/ Cleanup \/ Destroy
     \/ Prober \/ Poser
     \/ \E d \in Devices : Listener(d)
     \/ \E w \in Workers : Worker(w) \/ \E f \in functions : Request(w, f)

Spec == Init /\ [][Next]_vars

\* The driver's own threads are scheduled, and a listener that was told to stop
\* stops, as DestructorReturns says of both kinds; SteamVR and the clients owe nothing.
Ends(d) == ComputeBones(d) \/ CheckCalibrate(d) \/ (d \in ending /\ EndListening(d))
FairSpec ==
  /\ Spec
  /\ WF_vars(crashed = "none" /\ Main) /\ WF_vars(crashed = "none" /\ Poser)
  /\ \A d \in Devices : WF_vars(crashed = "none" /\ Ends(d))

--------------------------------------------------------------------------------
(* Properties.                                                                 *)

\* Callbacks of two devices never run at once, though each would write the same
\* skeleton_ without a lock: the old device's listener has been joined before the
\* new one's starts (knuckle_device_driver.cpp 24-60).
OneCallbackAtATime ==
  main \notin Ending \cup {"gone"} => Cardinality({d \in Devices : listener[d] \in Callback}) <= 1

\* The threads that ~Impl joins never use what it has ended, if SteamVR activated
\* the driver and the prober was not handing it a device when ~Impl began; the prober only finds a driver without Impl after Deactivate; and a
\* request uses what is gone only after Deactivate, or when the device it was about
\* to output to was replaced: never because force_feedback could be called before
\* there was a device (knuckle_device_driver.cpp 24-25, 70-88, 161-166, 216-219,
\* device_pose.cpp 18-43).
Ended == main \in Ending \cup {"gone"}
CrashHasACause ==
  /\ crashed = "poser" => FALSE
  /\ crashed = "listener" => ~activated \/ overtaken
  /\ crashed = "prober" => Ended
  /\ crashed \in Workers => Ended \/ replaced

\* To each device the driver is the owner that DeviceListener's other side counts on:
\* it starts a listener once, never after telling it to stop, and deletes the device
\* only when the listener has returned, whichever thread replaces or ends device_
\* (knuckle_device_driver.cpp 25-27, 161-166).
Thread(d) == IF listener[d] \in Callback THEN "callback" ELSE listener[d]
Listens(d) == INSTANCE DeviceListener WITH thread <- Thread(d), stopping <- d \in ending
ImplementsListeners == \A d \in Devices : Listens(d)!Spec

\* Deactivate returns, whatever the listener and the pose thread are doing
\* (knuckle_device_driver.cpp 161-166).
DeactivateReturns == main = "exchange" ~> main = "gone" \/ crashed # "none"
================================================================================
