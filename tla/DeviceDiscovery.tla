---------------------------- MODULE DeviceDiscovery ----------------------------
(* How gloves are found and become the devices of the two hands' drivers.      *)
(*                                                                             *)
(* PhysicalDeviceProvider::Init starts the server's discoverers: one prober    *)
(* thread per transport and configured hand, which opens the glove's port      *)
(* every two seconds, and the named pipe discoverer, which delivers a device   *)
(* for each hand on Init's own thread.  Both hand what they find to the        *)
(* hand's KnuckleDeviceDriver, whose SetDeviceDriver replaces device_.         *)
(* device_found_mutex_ keeps the probers apart from one another, nothing keeps *)
(* them apart from Init, and device_ = std::move(device) is three steps: read  *)
(* the old pointer, store the new one, delete the old device.                  *)
(*                                                                             *)
(* A device is named by how it was found, <<transport, hand, n>>: the n-th of  *)
(* its prober.  Using a freed device or a destroyed driver is undefined and    *)
(* ends the model (crashed).                                                   *)
EXTENDS Naturals, FiniteSets

CONSTANTS
  Hands,        \* the gloves
  Drivers,      \* the hands enabled in the settings, which get a driver
  Transports,   \* those enabled in the settings: of "serial" and "bluetooth"
  NamedPipe,    \* whether the named pipe discoverer is enabled
  MaxFound      \* bound: times the probers of a transport find their glove

ASSUME HandsAssumption     == Drivers \subseteq Hands
ASSUME TransportAssumption == Transports \subseteq {"serial", "bluetooth"}
ASSUME PipeAssumption      == NamedPipe \in BOOLEAN
ASSUME BoundAssumption     == MaxFound \in [Transports -> Nat]

Probers == Transports \X Drivers
Devices == ((Transports \cup {"pipe"}) \X Hands \X Nat)
Provider == <<"provider", "any">>    \* SteamVR's thread: Init, Deactivate, Cleanup
Threads == Probers \cup {Provider}
None    == <<"none", "any", 0>>      \* nullptr

HandOf(d) == d[2]

VARIABLES
  pc,          \* pc[t]: what thread t does next
  active,      \* is_active_ of the firmware discoverer
  mutex,       \* the prober that holds device_found_mutex_, or None
  carrying,    \* carrying[t]: the device t hands over, or None
  old,         \* old[t]: the device_ that t has read, to be deleted
  found,       \* found[p]: the devices prober p has found
  piped,       \* the hands the named pipe discoverer has delivered
  driver,      \* driver[h]: whether the driver's pImpl_ exists
  device,      \* device[h]: the driver's device_
  live,        \* the devices that exist
  listening,   \* those told to ListenForInput
  port,        \* port[p]: the glove's port
  raced,       \* auxiliary: Init and a prober were inside one driver's SetDeviceDriver
  crashed      \* a freed device or a destroyed driver was used

vars == <<pc, active, mutex, carrying, old, found, piped, driver, device, live,
          listening, port, raced, crashed>>
handover == <<carrying, old, device, listening, raced>>
fixed    == <<piped, driver>>

Setter       == {"store", "delete", "listen"}       \* inside SetDeviceDriver
ProberPcs    == {"none", "test", "inquire", "lock", "read", "sleep", "exited"} \cup Setter
ProviderPcs  == {"spawn", "pipes", "read", "running", "joining", "stopped"} \cup Setter
PortStates   == {"absent", "free", "held", "lost", "leaked"}

TypeOK ==
  /\ pc \in [Threads -> ProberPcs \cup ProviderPcs]
  /\ \A p \in Probers : pc[p] \in ProberPcs
  /\ pc[Provider] \in ProviderPcs
  /\ active \in BOOLEAN
  /\ mutex \in Probers \cup {None}
  /\ carrying \in [Threads -> Devices \cup {None}]
  /\ old \in [Threads -> Devices \cup {None}]
  /\ found \in [Probers -> Nat]
  /\ piped \subseteq Hands
  /\ driver \in [Hands -> {"none", "ready", "deactivated"}]
  /\ device \in [Hands -> Devices \cup {None}]
  /\ live \subseteq Devices
  /\ listening \subseteq Devices
  /\ port \in [Probers -> PortStates]
  /\ raced \in BOOLEAN /\ crashed \in BOOLEAN

\* Init has made the drivers of the enabled hands and calls StartProber.
Init ==
  /\ pc = [t \in Threads |-> IF t = Provider THEN "spawn" ELSE "none"]
  /\ active = FALSE /\ mutex = None
  /\ carrying = [t \in Threads |-> None] /\ old = [t \in Threads |-> None]
  /\ found = [p \in Probers |-> 0] /\ piped = {}
  /\ driver = [h \in Hands |-> IF h \in Drivers THEN "ready" ELSE "none"]
  /\ device = [h \in Hands |-> None]
  /\ live = {} /\ listening = {}
  /\ port \in [Probers -> {"absent", "free"}]
  /\ raced = FALSE /\ crashed = FALSE

Goto(t, from, to) == pc[t] = from /\ pc' = [pc EXCEPT ![t] = to]

\* The device that has p's port open, if there is one.
Latest(p) == <<p[1], p[2], found[p]>>
Opened(p) == port[p] \in {"held", "lost"}

\* The ports once device d is destroyed, which joins its threads and closes its port.
Released(d) ==
  [p \in Probers |-> IF ~(Opened(p) /\ Latest(p) = d) THEN port[p]
                     ELSE IF port[p] = "lost" THEN "absent" ELSE "free"]

--------------------------------------------------------------------------------
(* StartProber: the firmware discoverer's StartDiscovery, then the named       *)
(* pipe discoverer's.  (With auto_probe set StartDiscovery would return at     *)
(* once; the driver never sets it.)                                            *)

\* The threads are started one after another, in any order here.
SpawnProber(p) ==
  /\ pc[Provider] = "spawn"
  /\ Goto(p, "none", "test")
  /\ UNCHANGED <<active, mutex, handover, found, fixed, live, port, crashed>>

\* is_active_ is set once they all run.
SetActive ==
  /\ \A p \in Probers : pc[p] # "none"
  /\ Goto(Provider, "spawn", "pipes")
  /\ active' = TRUE
  /\ UNCHANGED <<mutex, handover, found, fixed, live, port, crashed>>

\* The named pipe discoverer makes a device for each hand and hands it over.
DeliverPipe(h) ==
  /\ NamedPipe /\ h \notin piped
  /\ Goto(Provider, "pipes", "read")
  /\ piped' = piped \cup {h}
  /\ carrying' = [carrying EXCEPT ![Provider] = <<"pipe", h, 1>>]
  /\ live' = live \cup {<<"pipe", h, 1>>}
  /\ UNCHANGED <<active, mutex, old, found, driver, device, listening, port, raced, crashed>>

\* A hand without a driver: the device is destroyed again.
DropPipe ==
  /\ Goto(Provider, "read", "pipes")
  /\ driver[HandOf(carrying[Provider])] = "none"
  /\ live' = live \ {carrying[Provider]}
  /\ carrying' = [carrying EXCEPT ![Provider] = None]
  /\ UNCHANGED <<active, mutex, old, found, fixed, device, listening, port, raced, crashed>>

Started ==
  /\ NamedPipe => piped = Hands
  /\ Goto(Provider, "pipes", "running")
  /\ UNCHANGED <<active, mutex, handover, found, fixed, live, port, crashed>>

--------------------------------------------------------------------------------
(* ProberThread.                                                               *)

ProberOnly == UNCHANGED <<active, handover, found, fixed, crashed>>

\* Mutant: the loop does not look at is_active_.
TestNothing(p) ==
  /\ Goto(p, "test", "inquire")
  /\ ProberOnly /\ UNCHANGED <<mutex, live, port>>

\* while (is_active_)
TestActive(p) ==
  /\ Goto(p, "test", IF active THEN "inquire" ELSE "exited")
  /\ ProberOnly /\ UNCHANGED <<mutex, live, port>>

\* InquireDevices opens the port and the device is made (OnDeviceFound's first
\* steps, which nobody else sees).
Found(p) ==
  /\ Goto(p, "inquire", "lock")
  /\ port[p] = "free" /\ port' = [port EXCEPT ![p] = "held"]
  /\ found[p] < MaxFound[p[1]] /\ found' = [found EXCEPT ![p] = @ + 1]
  /\ live' = live \cup {Latest(p)'}
  /\ carrying' = [carrying EXCEPT ![p] = Latest(p)']
  /\ UNCHANGED <<active, mutex, old, fixed, device, listening, raced, crashed>>

\* There is no glove, or its port is open already.
NotFound(p) ==
  /\ Goto(p, "inquire", "sleep")
  /\ port[p] # "free"
  /\ ProberOnly /\ UNCHANGED <<mutex, live, port>>

\* Opening fails half way, with the serial port opened but not set up.  Disconnect
\* does nothing as is_connected_ is not set yet, and the handle stays open.
FoundHalfway(p) ==
  /\ Goto(p, "inquire", "sleep")
  /\ port[p] = "free"
  /\ port' = [port EXCEPT ![p] = IF p[1] = "serial" THEN "leaked" ELSE "free"]
  /\ ProberOnly /\ UNCHANGED <<mutex, live>>

\* Mutant: OnDeviceFound does not lock the mutex.
LockNothing(p) == Goto(p, "lock", "read") /\ ProberOnly /\ UNCHANGED <<mutex, live, port>>

\* OnDeviceFound locks device_found_mutex_ until the callback has returned.
LockFound(p) ==
  /\ Goto(p, "lock", "read")
  /\ mutex = None /\ mutex' = p
  /\ ProberOnly /\ UNCHANGED <<live, port>>

\* sleep_for(2000)
Sleep(p) ==
  /\ Goto(p, "sleep", "test")
  /\ ProberOnly /\ UNCHANGED <<mutex, live, port>>

--------------------------------------------------------------------------------
(* SetDeviceDriver, called by any thread t.                                    *)

\* The driver's Impl is gone, or has no device that could be used.
Usable(t, alive) == driver[HandOf(carrying[t])] = "ready" /\ alive
Crash(t, at, alive) ==
  /\ pc[t] = at /\ carrying[t] # None
  /\ driver[HandOf(carrying[t])] # "none"
  /\ ~Usable(t, alive)
  /\ crashed' = TRUE
  /\ UNCHANGED <<pc, active, mutex, handover, found, fixed, live, port>>

Inside(h) == {t \in Threads : pc[t] \in Setter /\ HandOf(carrying[t]) = h}

\* device_ = std::move(device) reads the old pointer,
ReadOld(t) ==
  LET h == HandOf(carrying[t]) IN
  /\ Goto(t, "read", "store") /\ Usable(t, TRUE)
  /\ old' = [old EXCEPT ![t] = device[h]]
  /\ raced' = (raced \/ \E u \in Inside(h) : Provider \in {t, u})
  /\ UNCHANGED <<active, mutex, carrying, found, fixed, device, live, listening, port, crashed>>

\* stores the new one
StoreNew(t) ==
  /\ Goto(t, "store", "delete") /\ Usable(t, TRUE)
  /\ device' = [device EXCEPT ![HandOf(carrying[t])] = carrying[t]]
  /\ UNCHANGED <<active, mutex, carrying, old, found, fixed, live, listening, port, raced, crashed>>

\* Mutant: the old device is released and not deleted.
ReleaseOld(t) ==
  /\ Goto(t, "delete", "listen") /\ Usable(t, old[t] \in live \cup {None})
  /\ old' = [old EXCEPT ![t] = None]
  /\ UNCHANGED <<active, mutex, carrying, found, fixed, device, live, listening, port, raced, crashed>>

\* and deletes the old device.
DeleteOld(t) ==
  /\ Goto(t, "delete", "listen") /\ Usable(t, old[t] \in live \cup {None})
  /\ live' = live \ {old[t]}
  /\ port' = Released(old[t])
  /\ old' = [old EXCEPT ![t] = None]
  /\ UNCHANGED <<active, mutex, carrying, found, fixed, device, listening, raced, crashed>>

\* Mutant: the mutex is not unlocked.
ListenStillLocked(t) ==
  LET h == HandOf(carrying[t]) IN
  /\ Goto(t, "listen", IF t = Provider THEN "pipes" ELSE "sleep")
  /\ Usable(t, device[h] \in live)
  /\ listening' = listening \cup {device[h]}
  /\ carrying' = [carrying EXCEPT ![t] = None]
  /\ UNCHANGED <<active, mutex, old, found, fixed, device, live, port, raced, crashed>>

\* device_->ListenForInput; then the prober unlocks the mutex and sleeps, Init
\* goes on to the next hand.
Listen(t) ==
  LET h == HandOf(carrying[t]) IN
  /\ Goto(t, "listen", IF t = Provider THEN "pipes" ELSE "sleep")
  /\ Usable(t, device[h] \in live)
  /\ listening' = listening \cup {device[h]}
  /\ carrying' = [carrying EXCEPT ![t] = None]
  /\ mutex' = IF mutex = t THEN None ELSE mutex
  /\ UNCHANGED <<active, old, found, fixed, device, live, port, raced, crashed>>

SetDeviceDriver(t) ==
  \/ ReadOld(t) \/ StoreNew(t) \/ DeleteOld(t) \/ Listen(t)
  \/ Crash(t, "read", TRUE) \/ Crash(t, "store", TRUE)
  \/ Crash(t, "delete", old[t] \in live \cup {None})
  \/ Crash(t, "listen", device[HandOf(carrying[t])] \in live)

--------------------------------------------------------------------------------
(* SteamVR ends: Deactivate for each driver and Cleanup, in any order.         *)

\* pImpl_ = nullptr destroys the driver's Impl and its device.
Deactivate(h) ==
  /\ pc[Provider] \in {"running", "stopped"}
  /\ driver[h] = "ready" /\ driver' = [driver EXCEPT ![h] = "deactivated"]
  /\ live' = live \ {device[h]}
  /\ port' = Released(device[h])
  /\ device' = [device EXCEPT ![h] = None]
  /\ crashed' = (device[h] \notin live \cup {None})
  /\ UNCHANGED <<pc, active, mutex, carrying, old, found, piped, listening, raced>>

\* Cleanup: StopProber resets the discoverers; StopDiscovery exchanges is_active_
StopDiscovery ==
  /\ Goto(Provider, "running", "joining")
  /\ active' = FALSE
  /\ UNCHANGED <<mutex, handover, found, fixed, live, port, crashed>>

\* and joins the probers.
JoinProbers ==
  /\ Goto(Provider, "joining", "stopped")
  /\ \A p \in Probers : pc[p] = "exited"
  /\ UNCHANGED <<active, mutex, handover, found, fixed, live, port, crashed>>

--------------------------------------------------------------------------------
(* The gloves.  A serial port whose glove is unplugged while it is open cannot *)
(* be opened again before the handle is closed; a bluetooth glove can be       *)
(* connected to again.                                                         *)

PlugIn(p) ==
  /\ port[p] = "absent" /\ port' = [port EXCEPT ![p] = "free"]
  /\ UNCHANGED <<pc, active, mutex, handover, found, fixed, live, crashed>>

Unplug(p) ==
  /\ \/ port[p] = "free" /\ port' = [port EXCEPT ![p] = "absent"]
     \/ /\ port[p] = "held"
        /\ port' = [port EXCEPT ![p] = IF p[1] = "serial" THEN "lost" ELSE "absent"]
  /\ UNCHANGED <<pc, active, mutex, handover, found, fixed, live, crashed>>

--------------------------------------------------------------------------------

Prober(p) ==
  \/ TestActive(p) \/ Found(p) \/ NotFound(p) \/ FoundHalfway(p) \/ LockFound(p)
  \/ Sleep(p) \/ SetDeviceDriver(p)

Starting ==
  \/ SetActive \/ DropPipe \/ Started \/ SetDeviceDriver(Provider)
  \/ \E p \in Probers : SpawnProber(p)
  \/ \E h \in Hands : DeliverPipe(h)

Ending == StopDiscovery \/ JoinProbers \/ \E h \in Hands : Deactivate(h)

Next ==
  /\ ~crashed
  /\ \/ Starting \/ Ending
     \/ \E p \in Probers : Prober(p) \/ PlugIn(p) \/ Unplug(p)

Spec == Init /\ [][Next]_vars

\* Every thread is scheduled; SteamVR need not end and gloves need not come.  The
\* mutex passes each waiting prober in the end.
FairSpec ==
  /\ Spec
  /\ WF_vars(~crashed /\ Starting) /\ WF_vars(~crashed /\ JoinProbers)
  /\ \A p \in Probers :
       WF_vars(~crashed /\ Prober(p)) /\ SF_vars(~crashed /\ LockFound(p))

\* A glove that is tried again and again does not always fail half way.
GlovesOpen == \A p \in Probers : SF_vars(~crashed /\ Found(p))

GloveSpec == FairSpec /\ GlovesOpen

--------------------------------------------------------------------------------
(* Properties.                                                                 *)

\* Unless Init delivered a named pipe device while a prober was inside the same
\* driver's SetDeviceDriver, no device is leaked: each is some driver's device_, on
\* its way there, or about to be deleted; and none of these is a freed device unless
\* a driver was deactivated under a thread (knuckle_device_driver.cpp 24-27, 216-219).
InHand(t) == {carrying[t], old[t]} \ {None}
Owned     == {device[h] : h \in Hands} \cup UNION {InHand(t) : t \in Threads}
DevicesAreOwned ==
  ~raced /\ ~crashed =>
    /\ live \subseteq Owned
    /\ (\A h \in Hands : driver[h] = "deactivated" => Inside(h) = {}) =>
         Owned \ {None} \subseteq live

\* The driver is used after its end, or a device after its own, only if Init raced a
\* prober in SetDeviceDriver - device_found_mutex_ keeps the probers apart - or a
\* prober found a glove between SteamVR's Deactivate and the end of Cleanup
\* (knuckle_device_driver.cpp 198-200, 216-219, physical_device_provider.cpp 205-209).
CrashNeedsARace ==
  crashed => \/ raced
             \/ \E h \in Hands : driver[h] = "deactivated" /\ pc[Provider] # "stopped"

\* StopProber returns, even while a prober hands over a device (lines 115-124).
StopProberReturns == pc[Provider] = "joining" ~> pc[Provider] = "stopped" \/ crashed

\* A prober that has seen is_active_ set opens a glove that stays plugged in and
\* hands it over, whatever the other prober does (lines 83-93, 96-113), unless
\* opening it half way leaked its port, or a race with Init lost a device.
Probing(p) == pc[p] \notin {"none", "test", "exited"} /\ active
Gone(p)    == port[p] \in {"absent", "lost", "leaked"}
ProberFindsGlove ==
  \A p \in Probers : \A n \in 1..MaxFound[p[1]] :
    Probing(p) /\ port[p] = "free" /\ found[p] = n - 1 ~>
      <<p[1], p[2], n>> \in listening \/ Gone(p) \/ ~active \/ raced \/ crashed

\* "Start looking for devices.  The callback will be called for every new device
\* found." (opengloves_interface.h 190): a glove that is there once StartProber has
\* returned is opened, unless it leaves, its port fails or the server stops.
EveryGloveIsFound ==
  \A p \in Probers :
    pc[Provider] = "running" /\ port[p] = "free" /\ found[p] = 0 ~>
      found[p] > 0 \/ Gone(p) \/ ~active \/ crashed
================================================================================
