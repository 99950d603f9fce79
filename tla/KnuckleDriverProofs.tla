-------------------------- MODULE KnuckleDriverProofs --------------------------
(* Machine-checked proofs about KnuckleDriver, for any workers and any number  *)
(* of devices.                                                                 *)
EXTENDS KnuckleDriver, FiniteSetTheorems, TLAPS

--------------------------------------------------------------------------------
(* The inductive invariant.                                                    *)

\* Every device that exists has one owner: device_, a thread that deletes it, or the
\* prober that is about to store it.
Owned ==
  /\ live \subseteq 1..found
  /\ {device, old["main"], old["prober"]} \ {None} \subseteq live
  /\ device # None => device \notin {old["main"], old["prober"]}
  /\ old["main"] # None => old["main"] # old["prober"] /\ main = "delete"
  /\ old["prober"] # None => prober = "delete"
  /\ prober = "store" => found \in live \ {device, old["main"], old["prober"]}

\* What exists before the constructor is done, and the members that do after it.
Lifetimes ==
  /\ main = "construct" =>
       /\ prober = "idle" /\ poser = "none" /\ functions = {} /\ ~activated /\ ~is_active
       /\ device = None /\ \A w \in Workers : worker[w] = "idle"
  /\ main \in {"idle", "activate", "exchange", "join", "reset", "hands"} =>
       members = {"impl", "pose", "hand_tracking"}
  /\ main = "delete" => members \in {{"impl", "pose", "hand_tracking"}, {"impl"}}
  /\ main = "pose" => members = {"impl", "pose"}
  /\ main \in {"device", "free"} => members = {"impl"}

\* The pose thread runs only while ~Impl would join it.
Posed ==
  /\ main \in {"idle", "exchange"} => (is_active <=> activated)
  /\ main = "activate" => activated
  /\ poser \in {"test", "update"} => main \in {"idle", "exchange", "join"}
  /\ poser \in {"test", "update"} /\ main # "join" => is_active

\* Before ~Impl a listener runs for device_ only, or for the device the prober is
\* deleting, and then the new device's listener has not been started.
Listened ==
  main \notin Ending \cup {"gone"} =>
    /\ \A d \in Devices : listener[d] # "off" =>
         \/ prober = "delete" /\ d = old["prober"]
         \/ prober \notin {"delete", "listen"} /\ d = device
    /\ prober \in {"delete", "listen", "register"} => device # None
    /\ "force_feedback" \in functions => device # None

\* ~Impl of an activated driver has joined every listener before the members end,
\* unless it overtook the prober.
Joined ==
  activated /\ ~overtaken /\ main \in Ending \cup {"gone"} /\ crashed = "none" =>
    /\ prober = "idle"
    /\ main \in {"exchange", "join", "reset"} =>
         \A d \in Devices : listener[d] # "off" => d = device
    /\ main \notin {"exchange", "join", "reset"} => device = None
    /\ main = "delete" =>
         \A d \in Devices : listener[d] # "off" => d = old["main"] /\ "pose" \in members
    /\ main = "delete" /\ old["main"] # None => "pose" \in members
    /\ main \in {"hands", "pose", "device", "free", "gone"} =>
         \A d \in Devices : listener[d] = "off"

\* What a worker uses existed when it was taken and was not replaced since.
Used ==
  /\ main \notin Ending \cup {"gone"} =>
       \A w \in Workers : /\ worker[w] = "output" => using[w] # None
                          /\ using[w] \in live \cup {None} \/ replaced
  /\ \A w \in Workers : using[w] # None => worker[w] = "output"

\* A device whose listener has not been started was not told to stop either, until
\* device_ has lost it.
Unstarted ==
  /\ ending \subseteq 1..found /\ device \notin ending
  /\ prober = "store" => found \notin ending /\ listener[found] = "off"
  /\ prober \in {"delete", "listen"} /\ device # None => listener[device] = "off"

IInv == /\ TypeOK /\ Owned /\ Lifetimes /\ Posed /\ Listened /\ Joined /\ Used
        /\ Unstarted /\ CrashHasACause

--------------------------------------------------------------------------------
(* Types.                                                                      *)

LEMMA InitInvariant == Init => IInv
<1> SUFFICES ASSUME Init PROVE IInv
  OBVIOUS
<1> USE BoundAssumption, NamesAssumption DEF Init, Ending, Owners, Devices, None
<1>1. TypeOK
  <2>1. old \in [Owners -> Devices \cup {None}] /\ using \in [Workers -> Devices \cup {None}]
    OBVIOUS
  <2>2. /\ listener \in [Devices -> {"off", "receive", "returned"} \cup Callback]
        /\ worker \in [Workers -> {"idle", "output"} \cup functions]
    OBVIOUS
  <2>3. {activated, is_active, serving, replaced, overtaken} \subseteq BOOLEAN
    BY Zenon
  <2>4. members \subseteq {"impl", "pose", "hand_tracking"} /\ functions = {} /\ found \in 0..MaxFound
    OBVIOUS
  <2>5. live \subseteq Devices /\ ending \subseteq Devices /\ \A d \in Devices : listener[d] = "off"
    OBVIOUS
  <2> QED
    BY <2>1, <2>2, <2>3, <2>4, <2>5 DEF TypeOK
<1>2. Owned /\ Lifetimes /\ Posed /\ Unstarted
  BY DEF Owned, Lifetimes, Posed, Unstarted
<1>3. Listened /\ Joined /\ Used /\ CrashHasACause
  BY DEF Listened, Joined, Used, CrashHasACause, Ended
<1> QED
  BY <1>1, <1>2, <1>3 DEF IInv

LEMMA NextType == IInv /\ [Next]_vars => TypeOK'
<1> SUFFICES ASSUME IInv, [Next]_vars PROVE TypeOK'
  OBVIOUS
<1> USE BoundAssumption DEF lifeVars, deviceVars, workerVars, IInv, TypeOK, Ending, Owners,
  Callback, Devices, None
<1>1. CASE Construct
  <2>1. worker' = worker /\ \A w \in Workers : worker[w] = "idle"
    BY <1>1 DEF Construct, Step, Lifetimes
  <2>2. worker' \in [Workers -> {"idle", "output"} \cup functions']
    BY <2>1
  <2> QED
    BY <1>1, <2>2 DEF Construct, Step
<1>2. CASE CreateComponents \/ StartPoseThread
  BY <1>2 DEF CreateComponents, StartPoseThread, Step
<1>3. CASE Cleanup \/ Destroy
  BY <1>3 DEF Cleanup, Destroy, Step
<1>4. CASE Exchange \/ JoinPoseThread
  BY <1>4 DEF Exchange, JoinPoseThread, Step
<1>5. CASE ResetDevice \/ StopDevice
  <2>1. CASE ResetDevice
    BY <2>1 DEF ResetDevice, Take, Step
  <2>2. CASE StopDevice
    <3>1. ending' \subseteq Devices
      BY <2>2 DEF StopDevice, Stop
    <3> QED
      BY <2>2, <3>1 DEF StopDevice
  <2> QED
    BY <1>5, <2>1, <2>2
<1>6. CASE DeleteDevice
  BY <1>6 DEF DeleteDevice, Delete, Step, Owned
<1>7. CASE EndMembers
  BY <1>7 DEF EndMembers, EndMember, Step
<1>8. CASE Found
  BY <1>8 DEF Found, Probe, Use, Owned
<1>9. CASE StoreNew \/ StopOld
  <2>1. CASE StoreNew
    BY <2>1 DEF StoreNew, Probe, Use, Take, Owned
  <2>2. CASE StopOld
    <3>1. ending' \subseteq Devices
      BY <2>2 DEF StopOld, Stop
    <3> QED
      BY <2>2, <3>1 DEF StopOld
  <2> QED
    BY <1>9, <2>1, <2>2
<1>10. CASE DeleteOld
  BY <1>10 DEF DeleteOld, Probe, Delete, Owned
<1>11. CASE Listen
  BY <1>11 DEF Listen, Probe, Use, Owned
<1>12. CASE RegisterForceFeedback
  BY <1>12 DEF RegisterForceFeedback, Probe
<1>13. CASE \E d \in Devices : Listener(d)
  <2> PICK d \in Devices : Listener(d)
    BY <1>13
  <2>1. listener' = [listener EXCEPT ![d] = listener'[d]] /\ listener[d] # "off"
    BY DEF Listener, Packet, ComputeBones, CheckCalibrate, EndListening, Listening
  <2>2. listener'[d] \in {"receive", "returned"} \cup Callback
    BY DEF Listener, Packet, ComputeBones, CheckCalibrate, EndListening, Listening
  <2>3. crashed' \in {crashed, "listener"} /\ ListenerOnly
    BY DEF Listener, Packet, ComputeBones, CheckCalibrate, EndListening, Use
  <2> QED
    BY <2>1, <2>2, <2>3 DEF ListenerOnly
<1>14. CASE Poser
  BY <1>14 DEF Poser, TestActive, UpdatePose, Posing, Use
<1>15. CASE \E w \in Workers : \E f \in functions : Request(w, f)
  BY <1>15 DEF Request, Working, WorkerOnly
<1>16. CASE \E w \in Workers : Worker(w)
  <2> PICK w \in Workers : Worker(w)
    BY <1>16
  <2>1. /\ worker' = [worker EXCEPT ![w] = worker'[w]] /\ worker'[w] \in {"idle", "output"}
        /\ crashed' \in {crashed, w} /\ WorkerOnly
    BY DEF Worker, CallPose, ReadDevice, Output, Working, Use
  <2>2. using' \in [Workers -> Devices \cup {None}]
    BY DEF Worker, CallPose, ReadDevice, Output
  <2>3. functions' = functions
    BY <2>1 DEF WorkerOnly
  <2>4. worker' \in [Workers -> {"idle", "output"} \cup functions']
    BY <2>1, <2>3
  <2>5. crashed' \in {"none", "prober", "listener", "poser"} \cup Workers
    BY <2>1
  <2>6. /\ UNCHANGED <<main, activated, is_active, serving, replaced, overtaken, members, device, old>>
        /\ UNCHANGED <<live, ending, found, listener, prober, poser, functions>>
    BY <2>1 DEF WorkerOnly
  <2> QED
    BY <2>2, <2>4, <2>5, <2>6
<1>17. CASE UNCHANGED vars
  BY <1>17 DEF vars
<1> QED
  BY <1>1, <1>2, <1>3, <1>4, <1>5, <1>6, <1>7, <1>8, <1>9, <1>10, <1>11, <1>12, <1>13,
    <1>14, <1>15, <1>16, <1>17 DEF Next, Main, Prober

--------------------------------------------------------------------------------
(* The parts of the invariant.                                                 *)

\* What one step of a listener changes.
LEMMA ListenerStep ==
  ASSUME TypeOK, NEW d \in Devices, Listener(d)
  PROVE  /\ ListenerOnly /\ crashed' \in {crashed, "listener"}
         /\ \A e \in Devices : listener'[e] # "off" => listener[e] # "off"
BY DEF Listener, Packet, ComputeBones, CheckCalibrate, EndListening, Listening, Use, TypeOK

\* What one step of a worker changes.
LEMMA WorkerStep ==
  ASSUME NEW w \in Workers, Worker(w)
  PROVE  WorkerOnly /\ crashed' \in {crashed, w}
BY DEF Worker, CallPose, ReadDevice, Output, Use, WorkerOnly

\* Every device keeps one owner.
LEMMA NextOwned == IInv /\ [Next]_vars => Owned'
<1> SUFFICES ASSUME IInv, [Next]_vars PROVE Owned'
  OBVIOUS
<1> USE BoundAssumption DEF lifeVars, deviceVars, workerVars, IInv, TypeOK, Owned, Owners,
  Devices, None, Ending
<1>1. CASE \/ Construct
           \/ CreateComponents \/ StartPoseThread
           \/ Cleanup
           \/ Destroy
           \/ Exchange \/ JoinPoseThread
           \/ EndMembers
  BY <1>1 DEF Construct, Step, CreateComponents, StartPoseThread, Cleanup, Destroy,
    Exchange, JoinPoseThread, EndMembers, EndMember
<1>2. CASE ResetDevice \/ StopDevice
  <2>1. CASE ResetDevice
    BY <2>1 DEF ResetDevice, Take
  <2>2. CASE StopDevice
    BY <2>2 DEF StopDevice, Stop
  <2> QED
    BY <1>2, <2>1, <2>2
<1>3. CASE DeleteDevice
  BY <1>3 DEF DeleteDevice, Delete, Step
<1>4. CASE Found
  BY <1>4 DEF Found, Probe, Use
<1>5. CASE StoreNew \/ StopOld
  <2>1. CASE StoreNew
    BY <2>1 DEF StoreNew, Probe, Use, Take
  <2>2. CASE StopOld
    BY <2>2 DEF StopOld, Stop
  <2> QED
    BY <1>5, <2>1, <2>2
<1>6. CASE DeleteOld
  BY <1>6 DEF DeleteOld, Probe, Delete
<1>7. CASE Listen \/ RegisterForceFeedback
  BY <1>7 DEF Listen, Probe, Use, RegisterForceFeedback
<1>8. CASE \E d \in Devices : Listener(d)
  BY <1>8 DEF Listener, Packet, ComputeBones, CheckCalibrate, EndListening, Listening, ListenerOnly, Use
<1>9. CASE Poser
  BY <1>9 DEF Poser, TestActive, UpdatePose, Posing, Use
<1>10. CASE \/ \E w \in Workers : \E f \in functions : Request(w, f)
            \/ \E w \in Workers : Worker(w)
  <2>1. WorkerOnly
    BY <1>10, WorkerStep DEF Request
  <2> QED
    BY <2>1 DEF WorkerOnly
<1>11. CASE UNCHANGED vars
  BY <1>11 DEF vars
<1> QED
  BY <1>1, <1>2, <1>3, <1>4, <1>5, <1>6, <1>7, <1>8, <1>9, <1>10, <1>11 DEF Next, Main, Prober

\* The members end in order, and nothing of the driver runs before it is constructed.
LEMMA NextLifetimes == IInv /\ [Next]_vars => Lifetimes'
<1> SUFFICES ASSUME IInv, [Next]_vars PROVE Lifetimes'
  OBVIOUS
<1> USE BoundAssumption DEF lifeVars, deviceVars, workerVars, IInv, TypeOK, Lifetimes,
  Ending, None
<1>1. CASE Construct
  BY <1>1 DEF Construct, Step
<1>2. CASE \/ CreateComponents \/ StartPoseThread
           \/ Cleanup
           \/ Destroy
           \/ Exchange \/ JoinPoseThread
  BY <1>2 DEF CreateComponents, StartPoseThread, Step, Cleanup, Destroy, Exchange,
    JoinPoseThread
<1>3. CASE ResetDevice \/ StopDevice
  <2>1. CASE ResetDevice
    BY <2>1 DEF ResetDevice, Take
  <2>2. CASE StopDevice
    BY <2>2 DEF StopDevice, Stop
  <2> QED
    BY <1>3, <2>1, <2>2
<1>4. CASE DeleteDevice
  BY <1>4 DEF DeleteDevice, Delete, Step
<1>5. CASE EndMembers
  BY <1>5 DEF EndMembers, EndMember, Step
<1>6. CASE Found \/ StoreNew \/ StopOld \/ DeleteOld \/ Listen \/ RegisterForceFeedback
  BY <1>6 DEF Found, Probe, Use, StoreNew, Take, StopOld, Stop, DeleteOld, Delete, Listen,
    RegisterForceFeedback
<1>7. CASE \E d \in Devices : Listener(d)
  BY <1>7, ListenerStep DEF ListenerOnly
<1>8. CASE Poser
  BY <1>8 DEF Poser, TestActive, UpdatePose, Posing, Use
<1>9. CASE \E w \in Workers : \E f \in functions : Request(w, f)
  BY <1>9 DEF Request, Working, WorkerOnly
<1>10. CASE \E w \in Workers : Worker(w)
  BY <1>10 DEF Worker, CallPose, ReadDevice, Output, Working, WorkerOnly, Use
<1>11. CASE UNCHANGED vars
  BY <1>11 DEF vars
<1> QED
  BY <1>1, <1>2, <1>3, <1>4, <1>5, <1>6, <1>7, <1>8, <1>9, <1>10, <1>11 DEF Next, Main, Prober

\* ~Impl joins the pose thread.
LEMMA NextPosed == IInv /\ [Next]_vars => Posed'
<1> SUFFICES ASSUME IInv, [Next]_vars PROVE Posed'
  OBVIOUS
<1> USE BoundAssumption DEF lifeVars, deviceVars, workerVars, IInv, TypeOK, Posed,
  Lifetimes, Ending
<1>1. CASE Construct
  BY <1>1 DEF Construct, Step
<1>2. CASE CreateComponents \/ StartPoseThread
  BY <1>2 DEF CreateComponents, StartPoseThread, Step
<1>3. CASE Cleanup \/ Destroy
  BY <1>3 DEF Cleanup, Destroy, Step
<1>4. CASE Exchange \/ JoinPoseThread
  BY <1>4 DEF Exchange, JoinPoseThread, Step
<1>5. CASE ResetDevice \/ StopDevice
  <2>1. CASE ResetDevice
    BY <2>1 DEF ResetDevice, Take
  <2>2. CASE StopDevice
    BY <2>2 DEF StopDevice, Stop
  <2> QED
    BY <1>5, <2>1, <2>2
<1>6. CASE DeleteDevice \/ EndMembers
  BY <1>6 DEF DeleteDevice, Delete, Step, EndMembers, EndMember
<1>7. CASE Found \/ StoreNew \/ StopOld \/ DeleteOld \/ Listen \/ RegisterForceFeedback
  BY <1>7 DEF Found, Probe, Use, StoreNew, Take, StopOld, Stop, DeleteOld, Delete, Listen,
    RegisterForceFeedback
<1>8. CASE \E d \in Devices : Listener(d)
  BY <1>8 DEF Listener, Packet, ComputeBones, CheckCalibrate, EndListening, Listening, ListenerOnly, Use
<1>9. CASE Poser
  BY <1>9 DEF Poser, TestActive, UpdatePose, Posing, Use
<1>10. CASE \/ \E w \in Workers : \E f \in functions : Request(w, f)
            \/ \E w \in Workers : Worker(w)
  <2>1. WorkerOnly
    BY <1>10, WorkerStep DEF Request
  <2> QED
    BY <2>1 DEF WorkerOnly
<1>11. CASE UNCHANGED vars
  BY <1>11 DEF vars
<1> QED
  BY <1>1, <1>2, <1>3, <1>4, <1>5, <1>6, <1>7, <1>8, <1>9, <1>10, <1>11 DEF Next, Main, Prober

\* The new device's listener starts when the old one's has been joined.
LEMMA NextListened == IInv /\ [Next]_vars => Listened'
<1> SUFFICES ASSUME IInv, [Next]_vars PROVE Listened'
  OBVIOUS
<1> USE BoundAssumption DEF lifeVars, deviceVars, workerVars, IInv, TypeOK, Listened,
  Owned, Lifetimes, Owners, Ending, Devices, None
<1>1. CASE Construct
  BY <1>1 DEF Construct, Step
<1>2. CASE CreateComponents \/ StartPoseThread \/ Cleanup
  BY <1>2 DEF CreateComponents, StartPoseThread, Step, Cleanup
<1>3. CASE Destroy \/ Exchange \/ JoinPoseThread \/ ResetDevice \/ StopDevice \/ DeleteDevice \/ EndMembers
  BY <1>3 DEF Destroy, Step, Exchange, JoinPoseThread, ResetDevice, Take, StopDevice, Stop, DeleteDevice,
    Delete, EndMembers, EndMember
<1>4. CASE Found
  BY <1>4 DEF Found, Probe, Use
<1>5. CASE StoreNew \/ StopOld
  <2>1. CASE StoreNew
    BY <2>1 DEF StoreNew, Probe, Use, Take
  <2>2. CASE StopOld
    BY <2>2 DEF StopOld, Stop
  <2> QED
    BY <1>5, <2>1, <2>2
<1>6. CASE DeleteOld
  BY <1>6 DEF DeleteOld, Probe, Delete
<1>7. CASE Listen
  BY <1>7 DEF Listen, Probe, Use
<1>8. CASE RegisterForceFeedback
  BY <1>8 DEF RegisterForceFeedback, Probe
<1>9. CASE \E d \in Devices : Listener(d)
  BY <1>9 DEF Listener, Packet, ComputeBones, CheckCalibrate, EndListening, Listening, ListenerOnly, Use
<1>10. CASE Poser
  BY <1>10 DEF Poser, TestActive, UpdatePose, Posing, Use
<1>11. CASE \/ \E w \in Workers : \E f \in functions : Request(w, f)
            \/ \E w \in Workers : Worker(w)
  BY <1>11 DEF Request, Working, WorkerOnly, Worker, CallPose, ReadDevice, Output, Use
<1>12. CASE UNCHANGED vars
  BY <1>12 DEF vars
<1> QED
  BY <1>1, <1>2, <1>3, <1>4, <1>5, <1>6, <1>7, <1>8, <1>9, <1>10, <1>11, <1>12 DEF Next,
    Main, Prober

\* ~Impl of an activated driver joins the listeners first.
LEMMA NextJoined == IInv /\ [Next]_vars => Joined'
<1> SUFFICES ASSUME IInv, [Next]_vars PROVE Joined'
  OBVIOUS
<1> USE BoundAssumption DEF lifeVars, deviceVars, workerVars, IInv, TypeOK, Joined,
  Listened, Posed, Owned, Lifetimes, Owners, Ending, Devices, None
<1>1. CASE Construct \/ CreateComponents \/ StartPoseThread \/ Cleanup
  BY <1>1 DEF Construct, Step, CreateComponents, StartPoseThread, Cleanup
<1>2. CASE Destroy
  BY <1>2 DEF Destroy, Step
<1>3. CASE Exchange \/ JoinPoseThread
  BY <1>3 DEF Exchange, JoinPoseThread, Step
<1>4. CASE ResetDevice \/ StopDevice
  <2>1. CASE ResetDevice
    BY <2>1 DEF ResetDevice, Take
  <2>2. CASE StopDevice
    BY <2>2 DEF StopDevice, Stop
  <2> QED
    BY <1>4, <2>1, <2>2
<1>5. CASE DeleteDevice
  BY <1>5 DEF DeleteDevice, Delete, Step
<1>6. CASE EndMembers
  BY <1>6 DEF EndMembers, EndMember, Step
<1>7. CASE Found \/ StoreNew \/ StopOld \/ DeleteOld \/ Listen \/ RegisterForceFeedback
  BY <1>7 DEF Found, Probe, Use, StoreNew, Take, StopOld, Stop, DeleteOld, Delete, Listen,
    RegisterForceFeedback
<1>8. CASE \E d \in Devices : Listener(d)
  <2>1. /\ ListenerOnly /\ crashed' \in {crashed, "listener"}
        /\ \A e \in Devices : listener'[e] # "off" => listener[e] # "off"
    BY <1>8, ListenerStep
  <2>2. crashed' = "none" => crashed = "none"
    BY <2>1
  <2> QED
    BY <2>1, <2>2 DEF ListenerOnly
<1>9. CASE Poser
  BY <1>9 DEF Poser, TestActive, UpdatePose, Posing, Use
<1>10. CASE \/ \E w \in Workers : \E f \in functions : Request(w, f)
            \/ \E w \in Workers : Worker(w)
  <2>1. WorkerOnly /\ (crashed' = "none" => crashed = "none")
    <3>1. CASE \E w \in Workers : \E f \in functions : Request(w, f)
      BY <3>1 DEF Request
    <3>2. CASE \E w \in Workers : Worker(w)
      BY <3>2, WorkerStep, NamesAssumption
    <3> QED
      BY <1>10, <3>1, <3>2
  <2> QED
    BY <2>1 DEF WorkerOnly
<1>11. CASE UNCHANGED vars
  BY <1>11 DEF vars
<1> QED
  BY <1>1, <1>2, <1>3, <1>4, <1>5, <1>6, <1>7, <1>8, <1>9, <1>10, <1>11 DEF Next, Main, Prober

\* Workers use devices that existed when they took them.
LEMMA NextUsed == IInv /\ [Next]_vars => Used'
<1> SUFFICES ASSUME IInv, [Next]_vars PROVE Used'
  OBVIOUS
<1> USE BoundAssumption DEF lifeVars, deviceVars, workerVars, IInv, TypeOK, Used,
  Listened, Owned, Owners, Ending, Devices, None
<1>1. CASE \/ Construct
           \/ CreateComponents \/ StartPoseThread
           \/ Cleanup
           \/ Destroy
           \/ Exchange \/ JoinPoseThread
  BY <1>1 DEF Construct, Step, CreateComponents, StartPoseThread, Cleanup, Destroy,
    Exchange, JoinPoseThread
<1>2. CASE ResetDevice \/ StopDevice
  <2>1. CASE ResetDevice
    BY <2>1 DEF ResetDevice, Take
  <2>2. CASE StopDevice
    BY <2>2 DEF StopDevice, Stop
  <2> QED
    BY <1>2, <2>1, <2>2
<1>3. CASE DeleteDevice
  BY <1>3 DEF DeleteDevice, Delete, Step
<1>4. CASE EndMembers
  BY <1>4 DEF EndMembers, EndMember, Step
<1>5. CASE Found
  BY <1>5 DEF Found, Probe, Use
<1>6. CASE StoreNew \/ StopOld
  <2>1. CASE StoreNew
    BY <2>1 DEF StoreNew, Probe, Use, Take
  <2>2. CASE StopOld
    BY <2>2 DEF StopOld, Stop
  <2> QED
    BY <1>6, <2>1, <2>2
<1>7. CASE DeleteOld
  BY <1>7 DEF DeleteOld, Probe, Delete
<1>8. CASE Listen \/ RegisterForceFeedback
  BY <1>8 DEF Listen, Probe, Use, RegisterForceFeedback
<1>9. CASE \E d \in Devices : Listener(d)
  BY <1>9 DEF Listener, Packet, ComputeBones, CheckCalibrate, EndListening, Listening, ListenerOnly, Use
<1>10. CASE Poser
  BY <1>10 DEF Poser, TestActive, UpdatePose, Posing, Use
<1>11. CASE \E w \in Workers : \E f \in functions : Request(w, f)
  BY <1>11 DEF Request, Working, WorkerOnly
<1>12. CASE \E w \in Workers : Worker(w)
  <2> PICK w \in Workers : Worker(w)
    BY <1>12
  <2>1. WorkerOnly
    BY WorkerStep
  <2>2. CASE CallPose(w)
    BY <2>1, <2>2 DEF CallPose, Working, WorkerOnly
  <2>3. CASE ReadDevice(w)
    BY <2>1, <2>3 DEF ReadDevice, Working, WorkerOnly
  <2>4. CASE Output(w)
    BY <2>1, <2>4 DEF Output, Working, WorkerOnly
  <2> QED
    BY <2>2, <2>3, <2>4 DEF Worker
<1>13. CASE UNCHANGED vars
  BY <1>13 DEF vars
<1> QED
  BY <1>1, <1>2, <1>3, <1>4, <1>5, <1>6, <1>7, <1>8, <1>9, <1>10, <1>11, <1>12,
    <1>13 DEF Next, Main, Prober

\* A listener is started once, and stopped only when device_ has lost its device.
LEMMA NextUnstarted == IInv /\ [Next]_vars => Unstarted'
<1> SUFFICES ASSUME IInv, [Next]_vars PROVE Unstarted'
  OBVIOUS
<1> USE BoundAssumption DEF lifeVars, deviceVars, workerVars, IInv, TypeOK, Unstarted,
  Owned, Owners, Devices, None
<1>1. CASE \/ Construct
           \/ CreateComponents \/ StartPoseThread
           \/ Cleanup
           \/ Destroy
           \/ Exchange \/ JoinPoseThread
           \/ EndMembers
  BY <1>1 DEF Construct, Step, CreateComponents, StartPoseThread, Cleanup, Destroy,
    Exchange, JoinPoseThread, EndMembers, EndMember
<1>2. CASE ResetDevice \/ StopDevice
  <2>1. CASE ResetDevice
    BY <2>1 DEF ResetDevice, Take
  <2>2. CASE StopDevice
    <3>1. old["main"] \in live \ {device}
      BY <2>2 DEF StopDevice, Stop
    <3> QED
      BY <2>2, <3>1 DEF StopDevice, Stop
  <2> QED
    BY <1>2, <2>1, <2>2
<1>3. CASE DeleteDevice
  BY <1>3 DEF DeleteDevice, Delete, Step
<1>4. CASE Found
  BY <1>4 DEF Found, Probe, Use
<1>5. CASE StoreNew \/ StopOld
  <2>1. CASE StoreNew
    BY <2>1 DEF StoreNew, Probe, Use, Take
  <2>2. CASE StopOld
    BY <2>2 DEF StopOld, Stop
  <2> QED
    BY <1>5, <2>1, <2>2
<1>6. CASE DeleteOld
  BY <1>6 DEF DeleteOld, Probe, Delete
<1>7. CASE Listen \/ RegisterForceFeedback
  BY <1>7 DEF Listen, Probe, Use, RegisterForceFeedback
<1>8. CASE \E d \in Devices : Listener(d)
  <2>1. /\ UNCHANGED <<ending, found, device, prober>>
        /\ \A e \in Devices : listener'[e] # "off" => listener[e] # "off"
    BY <1>8, ListenerStep DEF ListenerOnly
  <2>2. (prober = "store" => found \in Devices) /\ (device # None => device \in Devices)
    OBVIOUS
  <2> QED
    BY <2>1, <2>2
<1>9. CASE Poser
  BY <1>9 DEF Poser, TestActive, UpdatePose, Posing, Use
<1>10. CASE \/ \E w \in Workers : \E f \in functions : Request(w, f)
            \/ \E w \in Workers : Worker(w)
  <2>1. WorkerOnly
    BY <1>10, WorkerStep DEF Request
  <2> QED
    BY <2>1 DEF WorkerOnly
<1>11. CASE UNCHANGED vars
  BY <1>11 DEF vars
<1> QED
  BY <1>1, <1>2, <1>3, <1>4, <1>5, <1>6, <1>7, <1>8, <1>9, <1>10, <1>11 DEF Next, Main, Prober

\* Each use of a member or a device that has ended has one of the causes.
LEMMA NextCause == IInv /\ [Next]_vars => CrashHasACause'
<1> SUFFICES ASSUME IInv, [Next]_vars PROVE CrashHasACause'
  OBVIOUS
<1> USE NamesAssumption DEF lifeVars, deviceVars, workerVars, IInv, CrashHasACause, Ended,
  Ending
<1>1. CASE UNCHANGED vars
  BY <1>1 DEF vars
<1>2. ASSUME crashed = "none", crashed' = crashed PROVE CrashHasACause'
  BY <1>2
<1>3. ASSUME crashed = "none", main' = main, activated' = activated, overtaken' = overtaken,
             Found \/ StoreNew \/ Listen
      PROVE  CrashHasACause'
  <2>1. crashed' \in {"none", "prober"} /\ (crashed' = "prober" => Ended)
    <3>1. CASE Found
      BY <1>3, <3>1 DEF Found, Use
    <3>2. CASE StoreNew
      BY <1>3, <3>2 DEF StoreNew, Probe, Use, Lifetimes, TypeOK
    <3>3. CASE Listen
      BY <1>3, <3>3 DEF Listen, Probe, Use, Lifetimes, TypeOK, Listened, Owned, None
    <3> QED
      BY <1>3, <3>1, <3>2, <3>3
  <2> QED
    BY <1>3, <2>1
<1>4. ASSUME crashed = "none", NEW d \in Devices, Listener(d) PROVE CrashHasACause'
  <2>1. /\ listener[d] # "off"
        /\ crashed' # crashed => ~({"impl", "pose", "hand_tracking"} \subseteq members)
                                 /\ (listener[d] = "calibrate" => ~({"impl", "pose"} \subseteq members))
    BY <1>4 DEF Listener, Packet, ComputeBones, CheckCalibrate, EndListening, Listening, Use
  <2>2. activated /\ ~overtaken => crashed' = crashed
    BY <1>4, <2>1 DEF Lifetimes, Joined, TypeOK, Owned, None
  <2>3. lifeVars' = lifeVars /\ crashed' \in {"none", "listener"}
    BY <1>4, ListenerStep DEF ListenerOnly
  <2> QED
    BY <1>4, <2>2, <2>3
<1>5. ASSUME crashed = "none", Poser PROVE CrashHasACause'
  <2>1. crashed' = crashed
    BY <1>5 DEF Poser, TestActive, UpdatePose, Posing, Use, Posed, Lifetimes
  <2> QED
    BY <1>2, <1>5, <2>1
<1>6. ASSUME crashed = "none", NEW w \in Workers, Worker(w) PROVE CrashHasACause'
  <2>1. WorkerOnly /\ crashed' \in {crashed, w}
    BY <1>6, WorkerStep
  <2>2. CASE Ended \/ replaced
    BY <1>6, <2>1, <2>2 DEF WorkerOnly
  <2>3. CASE ~Ended /\ ~replaced
    <3>1. worker[w] # "idle" => main \in {"idle", "activate"} /\ members = {"impl", "pose", "hand_tracking"}
      BY <2>3 DEF Lifetimes, TypeOK
    <3>2. worker[w] = "force_feedback" => device # None
      BY <2>3 DEF Listened, TypeOK
    <3>3. worker[w] = "output" => using[w] \in live
      BY <2>3 DEF Used
    <3>4. crashed' = crashed
      BY <1>6, <3>1, <3>2, <3>3 DEF Worker, CallPose, ReadDevice, Output, Working, Use
    <3> QED
      BY <1>2, <1>6, <3>4
  <2> QED
    BY <2>2, <2>3
<1>7. CASE Next
  <2>1. crashed = "none"
    BY <1>7 DEF Next
  <2>2. CASE Main \/ CreateComponents \/ Cleanup \/ Destroy
    <3>1. crashed' = crashed
      BY <2>2 DEF Main, CreateComponents, Cleanup, Destroy, Construct, StartPoseThread, Exchange,
        JoinPoseThread, ResetDevice, StopDevice, DeleteDevice, EndMembers, EndMember
    <3> QED
      BY <1>2, <2>1, <3>1
  <2>3. CASE StopOld \/ DeleteOld \/ RegisterForceFeedback
    BY <1>2, <2>1, <2>3 DEF StopOld, DeleteOld, RegisterForceFeedback
  <2>4. CASE Found \/ StoreNew \/ Listen
    BY <1>3, <2>1, <2>4 DEF Found, StoreNew, Listen
  <2>5. CASE \E w \in Workers : \E f \in functions : Request(w, f)
    BY <1>2, <2>1, <2>5 DEF Request
  <2> QED
    BY <1>4, <1>5, <1>6, <1>7, <2>1, <2>2, <2>3, <2>4, <2>5 DEF Next, Prober
<1> QED
  BY <1>1, <1>7

--------------------------------------------------------------------------------
(* The theorems.                                                               *)

LEMMA Invariant == Spec => []IInv
<1>1. IInv /\ [Next]_vars => IInv'
  BY NextType, NextOwned, NextLifetimes, NextPosed, NextListened, NextJoined, NextUsed,
    NextUnstarted, NextCause
  DEF IInv
<1> QED
  BY InitInvariant, <1>1, PTL DEF Spec

\* Every variable keeps its type, and a listener runs only while its device exists.
THEOREM TypeCorrect == Spec => []TypeOK
<1>1. IInv => TypeOK
  BY DEF IInv
<1> QED
  BY Invariant, <1>1, PTL

\* Callbacks of two devices never run at once before the driver ends: the listeners
\* that run are those of one device.
THEOREM CallbacksOneAtATime == Spec => []OneCallbackAtATime
<1>1. IInv => OneCallbackAtATime
  <2> SUFFICES ASSUME IInv, main \notin Ending \cup {"gone"}
               PROVE  Cardinality({d \in Devices : listener[d] \in Callback}) <= 1
    BY DEF OneCallbackAtATime
  <2> DEFINE C == {d \in Devices : listener[d] \in Callback}
             e == IF prober = "delete" THEN old["prober"] ELSE device
  <2>1. C = {} \/ C = {e}
    BY DEF IInv, Listened, Callback
  <2>2. Cardinality({}) = 0 /\ Cardinality({e}) = 1
    BY FS_EmptySet, FS_Singleton
  <2> QED
    BY <2>1, <2>2
<1> QED
  BY Invariant, <1>1, PTL

\* What a thread uses after its end has one of the causes CrashHasACause lists.
THEOREM CrashesHaveCauses == Spec => []CrashHasACause
<1>1. IInv => CrashHasACause
  BY DEF IInv
<1> QED
  BY Invariant, <1>1, PTL

\* What happens to the listeners: nothing, or a step of one of them, or of its owner.
LEMMA ListenerChanges ==
  ASSUME IInv, [Next]_vars
  PROVE  \/ UNCHANGED <<listener, ending>>
         \/ Listen \/ DeleteDevice \/ DeleteOld \/ StopDevice \/ StopOld
         \/ \E d \in Devices : Listener(d)
<1> USE DEF deviceVars, lifeVars
<1>1. CASE (Main /\ ~DeleteDevice /\ ~StopDevice) \/ CreateComponents \/ Cleanup \/ Destroy
  BY <1>1 DEF Main, CreateComponents, Cleanup, Destroy, Construct, StartPoseThread, Exchange,
    JoinPoseThread, ResetDevice, EndMembers, EndMember
<1>2. CASE Found \/ StoreNew \/ RegisterForceFeedback
  BY <1>2 DEF Found, StoreNew, RegisterForceFeedback
<1>3. CASE Poser
  BY <1>3 DEF Poser, TestActive, UpdatePose
<1>4. ASSUME NEW w \in Workers, Worker(w) \/ \E f \in functions : Request(w, f)
      PROVE  UNCHANGED <<listener, ending>>
  <2>1. WorkerOnly
    BY <1>4, WorkerStep DEF Request
  <2> QED
    BY <2>1 DEF WorkerOnly
<1>5. CASE UNCHANGED vars
  BY <1>5 DEF vars
<1>6. CASE Prober
  BY <1>2, <1>6 DEF Prober
<1>7. CASE Main \/ CreateComponents \/ Cleanup \/ Destroy
  BY <1>1, <1>7
<1> QED
  BY <1>3, <1>4, <1>5, <1>6, <1>7 DEF Next

\* A step is a step of the listener that DeviceListener describes, of its owner, or none.
LEMMA DeviceStep ==
  ASSUME IInv, [Next]_vars, NEW d \in Devices
  PROVE  [Listens(d)!Next]_<<Thread(d), d \in ending>>
<1> USE DEF IInv, TypeOK, Unstarted, Owned, Owners, Devices, None, deviceVars, Thread, Callback
<1>1. CASE Listen
  BY <1>1 DEF Listen, Probe, Listens!Next, Listens!Start, Listens!Move
<1>2. CASE DeleteDevice \/ DeleteOld
  <2>1. PICK t \in Owners : Delete(t) /\ ending' = ending
    BY <1>2 DEF DeleteDevice, DeleteOld
  <2> QED
    BY <2>1 DEF Delete, Listens!Next, Listens!Join, Listens!Move
<1>3. CASE StopDevice \/ StopOld
  <2>1. PICK t \in Owners : Stop(t) /\ listener' = listener
    BY <1>3 DEF StopDevice, StopOld
  <2> QED
    BY <2>1 DEF Stop, Listens!Next, Listens!Stop
<1>4. ASSUME NEW e \in Devices, Listener(e) PROVE [Listens(d)!Next]_<<Thread(d), d \in ending>>
  <2>1. ending' = ending
    BY <1>4, ListenerStep DEF ListenerOnly
  <2>2. CASE d # e
    BY <1>4, <2>1, <2>2 DEF Listener, Packet, ComputeBones, CheckCalibrate, EndListening, Listening
  <2>3. CASE d = e
    BY <1>4, <2>1, <2>3 DEF Listener, Packet, ComputeBones, CheckCalibrate, EndListening, Listening,
      Listens!Next, Listens!Call, Listens!Return, Listens!End, Listens!Move
  <2> QED
    BY <2>2, <2>3
<1>5. CASE UNCHANGED <<listener, ending>>
  BY <1>5
<1> QED
  BY <1>1, <1>2, <1>3, <1>4, <1>5, ListenerChanges

\* Whichever threads replace and end device_, each device's listener is started once, told
\* to stop once, and joined before the device is deleted; and it keeps its side, too.
THEOREM ListenersImplemented == Spec => ImplementsListeners
<1> SUFFICES ASSUME NEW d \in Devices PROVE Spec => Listens(d)!Spec
  BY DEF ImplementsListeners
<1>1. Init => Listens(d)!Init
  BY DEF Init, Listens!Init, Thread, Callback
<1>2. IInv /\ [Next]_vars => [Listens(d)!Next]_<<Thread(d), d \in ending>>
  BY DeviceStep
<1> QED
  BY <1>1, <1>2, Invariant, PTL DEF Spec, Listens!Spec
================================================================================
