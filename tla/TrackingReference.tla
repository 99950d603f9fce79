--------------------------- MODULE TrackingReference ---------------------------
(* How a hand learns which SteamVR device is its tracked controller.           *)
(*                                                                             *)
(* The overlay process has one DiscoveryThread per hand, which looks for the   *)
(* hand's controller every second and POSTs a newly found id to the driver's   *)
(* internal server.  The server's handler, on a thread of its own, stores the  *)
(* id in tracking_references_discovered_ and calls the registered callbacks;   *)
(* a DevicePose that registers later is given the ids stored so far.  The map  *)
(* and the vector of callbacks have no lock.  The POST is synchronous: while   *)
(* the handler runs, the overlay's thread waits, so one pc describes both.     *)
(*                                                                             *)
(* The id 0 stands for "none": -1 in the overlay, 0 in DevicePose.             *)
EXTENDS Integers, FiniteSets

CONSTANTS
  Hands,        \* the hands the overlay looks for
  Drivers,      \* the hands enabled in the settings, which get a DevicePose
  Ids,          \* indexes of SteamVR's devices, without our own
  MaxChanges    \* bound: times SteamVR's devices change

ASSUME DriversAssumption == Drivers \subseteq Hands
ASSUME IdsAssumption     == Ids \subseteq Nat \ {0}
ASSUME BoundAssumption   == MaxChanges \in Nat

NoHand == "none"

ASSUME NoHandAssumption == NoHand \notin Hands

VARIABLES
  main,        \* the driver's main thread: what it does next
  adding,      \* the hand whose DevicePose it is constructing
  replayed,    \* the id it is about to give to that hand's callback
  server,      \* the internal server
  references,  \* tracking_references_discovered_
  callbacks,   \* tracking_reference_callbacks_, as the set of their hands
  controller_id,  \* controller_id_ of each hand's DevicePose
  overlay,     \* the overlay's main thread
  app_active,
  thread,      \* thread[h]: the DiscoveryThread of h, or the handler it waits for
  last_found, found,
  view,        \* view[h]: the callbacks the handler for h iterates over
  dangling,    \* the handlers whose view has been reallocated
  shown,       \* shown[h]: the controller SteamVR shows for h: the first device that
               \* has the hand's role as a hint, or else the last that has the role
  changes,     \* counter of the bound
  refused,     \* refused[h]: the last POST for h met no server
  raced,       \* a registration and a handler ran at once
  crashed      \* the driver's process has died

driverVars  == <<main, adding, replayed, callbacks>>
overlayVars == <<overlay, app_active>>
vars == <<main, adding, replayed, server, references, callbacks, controller_id, overlay, app_active,
          thread, last_found, found, view, dangling, shown, changes, refused, raced, crashed>>

MaybeId == Ids \cup {0}

TypeOK ==
  /\ main \in {"server", "process", "add", "replay", "store", "running", "stopped"}
  /\ adding \in Drivers \cup {NoHand} /\ replayed \in MaybeId
  /\ server \in {"down", "starting", "listening", "stopped"}
  /\ references \in [Hands -> MaybeId] /\ controller_id \in [Hands -> MaybeId]
  /\ callbacks \subseteq Drivers
  /\ overlay \in {"down", "starting", "running", "joining", "ended"} /\ app_active \in BOOLEAN
  /\ thread \in [Hands -> {"unborn", "test", "scan", "post", "insert", "iterate", "deliver", "sleep", "ended"}]
  /\ last_found \in [Hands -> MaybeId] /\ found \in [Hands -> MaybeId]
  /\ view \in [Hands -> SUBSET Drivers] /\ dangling \subseteq Hands
  /\ shown \in [Hands -> MaybeId] /\ changes \in 0 .. MaxChanges
  /\ refused \in [Hands -> BOOLEAN] /\ raced \in BOOLEAN /\ crashed \in BOOLEAN

Init ==
  /\ main = "server" /\ adding = NoHand /\ replayed = 0
  /\ server = "down"
  /\ references = [h \in Hands |-> 0] /\ callbacks = {}
  /\ controller_id = [h \in Hands |-> 0]
  /\ overlay = "down" /\ app_active = FALSE
  /\ thread = [h \in Hands |-> "unborn"]
  /\ last_found = [h \in Hands |-> 0] /\ found = [h \in Hands |-> 0]
  /\ view = [h \in Hands |-> {}] /\ dangling = {}
  /\ shown = [h \in Hands |-> 0] /\ changes = 0
  /\ refused = [h \in Hands |-> FALSE] /\ raced = FALSE /\ crashed = FALSE

--------------------------------------------------------------------------------
(* The driver's main thread: the server is started, then the overlay, then the *)
(* DevicePose of each enabled hand is constructed.                             *)
StartServer ==
  /\ main = "server" /\ main' = "process"
  /\ server' = "starting"
  /\ UNCHANGED <<adding, replayed, references, callbacks, controller_id, overlayVars, thread, last_found, found,
                 view, dangling, shown, changes, refused, raced, crashed>>

Constructing(added) == IF added = Drivers THEN "running" ELSE "add"

CreateOverlay ==
  /\ main = "process" /\ main' = Constructing({})
  /\ overlay' = "starting"
  /\ UNCHANGED <<adding, replayed, server, references, callbacks, controller_id, app_active, thread, last_found,
                 found, view, dangling, shown, changes, refused, raced, crashed>>

(* The vector grows into new memory under the handlers that iterate over it.   *)
AddCallback(h) ==
  /\ main = "add" /\ h \in Drivers \ callbacks /\ ~crashed
  /\ callbacks' = callbacks \cup {h}
  /\ adding' = h /\ main' = "replay"
  /\ dangling' = {g \in Hands : thread[g] = "deliver"}
  /\ raced' = (raced \/ dangling' # {})
  /\ UNCHANGED <<replayed, server, references, controller_id, overlayVars, thread, last_found, found,
                 view, shown, changes, refused, crashed>>

(* The callback is called for every reference; its own hand's counts.          *)
ReadReference ==
  /\ main = "replay" /\ ~crashed
  /\ replayed' = references[adding]
  /\ IF replayed' = 0 THEN main' = Constructing(callbacks) /\ adding' = NoHand
                      ELSE main' = "store" /\ adding' = adding
  /\ UNCHANGED <<server, references, callbacks, controller_id, overlayVars, thread, last_found, found,
                 view, dangling, shown, changes, refused, raced, crashed>>

ReplayReference ==
  /\ main = "store" /\ ~crashed
  /\ controller_id' = [controller_id EXCEPT ![adding] = replayed]
  /\ main' = Constructing(callbacks) /\ adding' = NoHand /\ replayed' = 0
  /\ UNCHANGED <<server, references, callbacks, overlayVars, thread, last_found, found,
                 view, dangling, shown, changes, refused, raced, crashed>>

Cleanup ==
  /\ main = "running" /\ main' = "stopped" /\ ~crashed
  /\ server' = "stopped"
  /\ UNCHANGED <<adding, replayed, references, callbacks, controller_id, overlayVars, thread, last_found, found,
                 view, dangling, shown, changes, refused, raced, crashed>>

(* The thread of run_async has opened the port.                                *)
ServerListens ==
  /\ server = "starting" /\ server' = "listening"
  /\ UNCHANGED <<driverVars, references, controller_id, overlayVars, thread, last_found, found,
                 view, dangling, shown, changes, refused, raced, crashed>>

--------------------------------------------------------------------------------
(* The overlay.                                                                *)
SpawnThread(h) ==
  /\ overlay = "starting" /\ thread[h] = "unborn"
  /\ thread' = [thread EXCEPT ![h] = "test"]
  /\ UNCHANGED <<driverVars, server, references, controller_id, overlayVars, last_found, found,
                 view, dangling, shown, changes, refused, raced, crashed>>

SetActive ==
  /\ overlay = "starting" /\ \A h \in Hands : thread[h] # "unborn"
  /\ overlay' = "running" /\ app_active' = TRUE
  /\ UNCHANGED <<driverVars, server, references, controller_id, thread, last_found, found,
                 view, dangling, shown, changes, refused, raced, crashed>>

Quit ==
  /\ overlay = "running"
  /\ overlay' = "joining" /\ app_active' = FALSE
  /\ UNCHANGED <<driverVars, server, references, controller_id, thread, last_found, found,
                 view, dangling, shown, changes, refused, raced, crashed>>

(* The threads are joined and VR_Shutdown is called.                           *)
Shutdown ==
  /\ overlay = "joining" /\ \A h \in Hands : thread[h] = "ended"
  /\ overlay' = "ended"
  /\ UNCHANGED <<driverVars, server, references, controller_id, app_active, thread, last_found, found,
                 view, dangling, shown, changes, refused, raced, crashed>>

Goes(h, here, next) == thread[h] = here /\ thread' = [thread EXCEPT ![h] = next]

\* Mutant: the loop does not look at app_active.
TestNothing(h) ==
  /\ Goes(h, "test", "scan")
  /\ UNCHANGED <<driverVars, server, references, controller_id, overlayVars, last_found, found,
                 view, dangling, shown, changes, refused, raced, crashed>>

TestActive(h) ==
  /\ Goes(h, "test", IF app_active THEN "scan" ELSE "ended")
  /\ UNCHANGED <<driverVars, server, references, controller_id, overlayVars, last_found, found,
                 view, dangling, shown, changes, refused, raced, crashed>>

\* Mutant: the first id found counts as known already.
ScanOnlyChanges(h) ==
  /\ found' = [found EXCEPT ![h] = IF shown[h] = 0 THEN found[h] ELSE shown[h]]
  /\ last_found' = [last_found EXCEPT ![h] = found'[h]]
  /\ Goes(h, "scan", IF last_found[h] \notin {0, found'[h]} THEN "post" ELSE "sleep")
  /\ UNCHANGED <<driverVars, server, references, controller_id, overlayVars,
                 view, dangling, shown, changes, refused, raced, crashed>>

(* What was found stays found when there is nothing to find.                   *)
Scan(h) ==
  /\ found' = [found EXCEPT ![h] = IF shown[h] = 0 THEN found[h] ELSE shown[h]]
  /\ last_found' = [last_found EXCEPT ![h] = found'[h]]
  /\ Goes(h, "scan", IF found'[h] # last_found[h] THEN "post" ELSE "sleep")
  /\ UNCHANGED <<driverVars, server, references, controller_id, overlayVars,
                 view, dangling, shown, changes, refused, raced, crashed>>

(* The response is not looked at: a POST that met no server is not repeated.   *)
Post(h) ==
  /\ refused' = [refused EXCEPT ![h] = (server # "listening")]
  /\ Goes(h, "post", IF server = "listening" THEN "insert" ELSE "sleep")
  /\ UNCHANGED <<driverVars, server, references, controller_id, overlayVars, last_found, found,
                 view, dangling, shown, changes, raced, crashed>>

Sleep(h) ==
  /\ Goes(h, "sleep", "test")
  /\ UNCHANGED <<driverVars, server, references, controller_id, overlayVars, last_found, found,
                 view, dangling, shown, changes, refused, raced, crashed>>

--------------------------------------------------------------------------------
(* The handler of POST /tracking_reference.                                    *)

\* Mutant: insert instead of insert_or_assign.
InsertIfAbsent(h) ==
  /\ Goes(h, "insert", "iterate") /\ ~crashed
  /\ references' = IF references[h] = 0 THEN [references EXCEPT ![h] = last_found[h]] ELSE references
  /\ raced' = (raced \/ (main = "store" /\ adding = h))
  /\ UNCHANGED <<driverVars, server, controller_id, overlayVars, last_found, found,
                 view, dangling, shown, changes, refused, crashed>>

Insert(h) ==
  /\ Goes(h, "insert", "iterate") /\ ~crashed
  /\ references' = [references EXCEPT ![h] = last_found[h]]
  /\ raced' = (raced \/ (main = "store" /\ adding = h))
  /\ UNCHANGED <<driverVars, server, controller_id, overlayVars, last_found, found,
                 view, dangling, shown, changes, refused, crashed>>

Iterate(h) ==
  /\ Goes(h, "iterate", IF callbacks = {} THEN "sleep" ELSE "deliver") /\ ~crashed
  /\ view' = [view EXCEPT ![h] = callbacks]
  /\ UNCHANGED <<driverVars, server, references, controller_id, overlayVars, last_found, found,
                 dangling, shown, changes, refused, raced, crashed>>

Forget(h) == view' = [view EXCEPT ![h] = {}] /\ dangling' = dangling \ {h}

Deliver(h) ==
  /\ Goes(h, "deliver", "sleep") /\ ~crashed
  /\ controller_id' = IF h \in view[h] THEN [controller_id EXCEPT ![h] = last_found[h]] ELSE controller_id
  /\ Forget(h)
  /\ UNCHANGED <<driverVars, server, references, overlayVars, last_found, found,
                 shown, changes, refused, raced, crashed>>

(* The callbacks in the freed memory are empty: std::bad_function_call.        *)
DeliverNothing(h) ==
  /\ h \in dangling /\ Goes(h, "deliver", "sleep") /\ ~crashed
  /\ Forget(h)
  /\ UNCHANGED <<driverVars, server, references, controller_id, overlayVars, last_found, found,
                 shown, changes, refused, raced, crashed>>

(* Or the access to it ends the driver's process, and the POST fails.          *)
Crash(h) ==
  /\ h \in dangling /\ thread[h] = "deliver" /\ ~crashed
  /\ crashed' = TRUE /\ server' = "stopped"
  /\ UNCHANGED <<driverVars, references, controller_id, overlayVars, thread, last_found, found,
                 view, dangling, shown, changes, refused, raced>>

ConnectionLost(h) ==
  /\ crashed /\ thread[h] \in {"insert", "iterate", "deliver"}
  /\ thread' = [thread EXCEPT ![h] = "sleep"]
  /\ UNCHANGED <<driverVars, server, references, controller_id, overlayVars, last_found, found,
                 view, dangling, shown, changes, refused, raced, crashed>>

(* SteamVR's devices change.                                                   *)
DevicesChange(h) ==
  /\ changes < MaxChanges /\ changes' = changes + 1
  /\ \E i \in MaybeId : shown' = [shown EXCEPT ![h] = i]
  /\ UNCHANGED <<driverVars, server, references, controller_id, overlayVars, thread, last_found, found,
                 view, dangling, refused, raced, crashed>>

--------------------------------------------------------------------------------
Main ==
  \/ StartServer \/ CreateOverlay \/ \E h \in Drivers : AddCallback(h)
  \/ ReadReference \/ ReplayReference

Overlay == (\E h \in Hands : SpawnThread(h)) \/ SetActive \/ Shutdown

Discovery(h) ==
  \/ TestActive(h) \/ Scan(h) \/ Post(h) \/ Sleep(h)
  \/ Insert(h) \/ Iterate(h) \/ Deliver(h) \/ DeliverNothing(h) \/ Crash(h) \/ ConnectionLost(h)

Next ==
  \/ Main \/ Cleanup \/ ServerListens
  \/ Overlay \/ Quit
  \/ \E h \in Hands : Discovery(h) \/ DevicesChange(h)

Spec == Init /\ [][Next]_vars

(* Every thread runs; Cleanup, Quit and the devices owe nothing.               *)
LiveSpec ==
  /\ Spec
  /\ WF_vars(Main) /\ WF_vars(ServerListens) /\ WF_vars(Overlay)
  /\ \A h \in Hands : WF_vars(Discovery(h))

--------------------------------------------------------------------------------
(* Registering puts the callback in the vector before it reads the map, and    *)
(* the handler stores in the map before it reads the vector: whichever comes   *)
(* first, the hand has the id stored for it once both are done.  Only a        *)
(* handler that ran in the middle of a registration can leave it an older one. *)
EveryReferenceReachesItsHand ==
  \A h \in callbacks :
    thread[h] \notin {"insert", "iterate", "deliver"} /\ adding # h /\ ~raced
      => controller_id[h] = references[h]

(* A controller that stays is reported, however the devices changed before,    *)
(* unless the overlay's thread ended because it ran before app_active was set, *)
(* or the POST met no server: neither is tried again.                          *)
ControllerIsReported ==
  \A h \in Hands : \A i \in Ids :
    <>[](app_active /\ shown[h] = i)
      => <>(references[h] = i \/ refused[h] \/ thread[h] = "ended" \/ crashed)

(* The overlay ends when SteamVR asks it to, also while the driver is silent.  *)
OverlayEnds == overlay = "joining" ~> overlay = "ended"

================================================================================
