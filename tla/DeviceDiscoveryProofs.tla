------------------------- MODULE DeviceDiscoveryProofs -------------------------
(* Machine-checked proofs about DeviceDiscovery, for any gloves, drivers and   *)
(* transports and any number of devices found.                                 *)
EXTENDS DeviceDiscovery, TLAPS

--------------------------------------------------------------------------------
(* Threads, devices and what tells them apart.                                 *)

LEMMA ThreadFacts ==
  /\ Provider \in Threads /\ Provider \notin Probers /\ Provider # None
  /\ \A t \in Threads : t \in Probers \/ t = Provider
  /\ \A p \in Probers : /\ p \in Threads /\ p # None /\ p # Provider
                        /\ p[1] \in Transports /\ p[1] # "pipe" /\ p[2] \in Hands
                        /\ p = <<p[1], p[2]>>
BY HandsAssumption, TransportAssumption DEF Threads, Probers, Provider, None

LEMMA ProberNames ==
  ASSUME NEW p \in Probers, NEW q \in Probers, p[1] = q[1], p[2] = q[2]
  PROVE  p = q
BY ThreadFacts

LEMMA DeviceFacts ==
  /\ None \notin Devices
  /\ \A d \in Devices : d # None /\ HandOf(d) \in Hands
  /\ \A h \in Hands : /\ <<"pipe", h, 1>> \in Devices
                      /\ <<"pipe", h, 1>>[1] = "pipe" /\ HandOf(<<"pipe", h, 1>>) = h
BY TransportAssumption DEF Devices, None, HandOf

LEMMA LatestFacts ==
  ASSUME NEW p \in Probers, NEW n \in Nat
  PROVE  /\ <<p[1], p[2], n>> \in Devices
         /\ <<p[1], p[2], n>>[1] = p[1] /\ HandOf(<<p[1], p[2], n>>) = p[2]
         /\ <<p[1], p[2], n>>[3] = n
BY ThreadFacts DEF Devices, HandOf

--------------------------------------------------------------------------------
(* The inductive invariant.                                                    *)

\* A device has been found, or delivered.
Known(d) ==
  IF d[1] = "pipe" THEN HandOf(d) \in piped
  ELSE <<d[1], HandOf(d)>> \in Probers /\ d[3] <= found[<<d[1], HandOf(d)>>]

\* What a thread carries it has found itself, and for its hand; what it deletes is of
\* the same hand, as is the device of a driver.
Busy(t) == pc[t] \in {"lock", "read"} \cup Setter
Named(t) ==
  /\ Busy(t) => carrying[t] # None
  /\ ~Busy(t) => carrying[t] = None
  /\ Busy(t) /\ t = Provider => carrying[t][1] = "pipe"
  /\ Busy(t) /\ t # Provider => carrying[t][1] = t[1] /\ HandOf(carrying[t]) = t[2]
  /\ old[t] # None => pc[t] \in {"store", "delete"} /\ HandOf(old[t]) = HandOf(carrying[t])
  /\ pc[t] \in Setter => driver[HandOf(carrying[t])] # "none"
Attached(h) ==
  /\ device[h] # None => HandOf(device[h]) = h
  /\ driver[h] # "ready" => device[h] = None
AllKnown ==
  /\ \A d \in live : Known(d)
  /\ \A t \in Threads : /\ carrying[t] # None => Known(carrying[t])
                        /\ old[t] # None => Known(old[t])
  /\ \A h \in Hands : device[h] # None => Known(device[h])
Names == (\A t \in Threads : Named(t)) /\ (\A h \in Hands : Attached(h)) /\ AllKnown

\* A prober is inside the callback while it holds the mutex, and has ended when
\* Cleanup is over.
Locked ==
  /\ \A p \in Probers : pc[p] \in {"read"} \cup Setter => mutex = p
  /\ pc[Provider] = "stopped" => \A p \in Probers : pc[p] = "exited"

\* One thread at a time is inside a driver's SetDeviceDriver.
Exclusive ==
  \A t, u \in Threads :
    {pc[t], pc[u]} \subseteq Setter /\ HandOf(carrying[t]) = HandOf(carrying[u]) => t = u

\* A device that is on its way exists and has no other place; one that has arrived is
\* the driver's; one that is to be deleted was the driver's and still exists.
Fresh(t) ==
  pc[t] \in {"lock", "read", "store"} =>
    /\ carrying[t] \in live
    /\ \A h \in Hands : carrying[t] # device[h]
    /\ \A u \in Threads : carrying[t] # old[u]
Arrived(t) ==
  pc[t] \in Setter /\ driver[HandOf(carrying[t])] = "ready" =>
    /\ pc[t] \in {"delete", "listen"} => device[HandOf(carrying[t])] = carrying[t]
    /\ pc[t] = "store" => old[t] = device[HandOf(carrying[t])]
Doomed(t) ==
  pc[t] = "delete" /\ old[t] # None => old[t] \in live /\ \A h \in Hands : old[t] # device[h]
Kept    == \A h \in Hands : device[h] \in live \cup {None}
Placed(d) == \/ \E h \in Hands : d = device[h]
             \/ \E t \in Threads : d = carrying[t] \/ d = old[t]

\* All this holds unless Init raced a prober.
Handed ==
  ~raced =>
    /\ Exclusive /\ Kept
    /\ \A t \in Threads : Fresh(t) /\ Arrived(t) /\ Doomed(t)
    /\ \A d \in live : Placed(d)

IInv == TypeOK /\ Names /\ Locked /\ Handed /\ CrashNeedsARace

--------------------------------------------------------------------------------
(* What follows from the invariant about a step.                               *)

\* The device of a thread inside the callback, or about to enter it.
LEMMA Carried ==
  ASSUME TypeOK, NEW t \in Threads, Named(t), Busy(t)
  PROVE  carrying[t] \in Devices /\ HandOf(carrying[t]) \in Hands
<1>1. carrying[t] \in Devices \cup {None}
  BY DEF TypeOK
<1>2. carrying[t] # None
  BY DEF Named
<1> QED
  BY <1>1, <1>2, DeviceFacts

\* No two threads carry the same device.
LEMMA CarriedApart ==
  ASSUME NEW t \in Threads, NEW u \in Threads, t # u, Named(t), Named(u), carrying[t] # None
  PROVE  carrying[t] # carrying[u]
<1> SUFFICES ASSUME carrying[t] = carrying[u] PROVE FALSE
  OBVIOUS
<1>1. Busy(t) /\ Busy(u)
  BY DEF Named
<1>2. CASE t = Provider
  BY <1>1, <1>2, ThreadFacts DEF Named
<1>3. CASE u = Provider
  BY <1>1, <1>3, ThreadFacts DEF Named
<1>4. CASE t # Provider /\ u # Provider
  <2>1. t \in Probers /\ u \in Probers
    BY <1>4, ThreadFacts
  <2>2. t[1] = u[1] /\ t[2] = u[2]
    BY <1>1, <1>4 DEF Named
  <2> QED
    BY <2>1, <2>2, ProberNames
<1> QED
  BY <1>2, <1>3, <1>4

\* A thread at a place moves alone.
LEMMA Moving ==
  ASSUME TypeOK, NEW t \in Threads, NEW a, NEW b, Goto(t, a, b)
  PROVE  /\ pc[t] = a /\ pc'[t] = b
         /\ \A u \in Threads : u # t => pc'[u] = pc[u]
         /\ b \in ProberPcs \cup ProviderPcs => pc' \in [Threads -> ProberPcs \cup ProviderPcs]
<1>1. pc \in [Threads -> ProberPcs \cup ProviderPcs]
  BY DEF TypeOK
<1> QED
  BY <1>1 DEF Goto

\* Most steps hand nothing over: they move threads outside the callback, or up to it.
Quiet ==
  /\ UNCHANGED <<handover, driver, live>>
  /\ \A t \in Threads : \/ pc'[t] = pc[t]
                        \/ {pc[t], pc'[t]} \subseteq {"lock", "read"}
                        \/ {pc[t], pc'[t]} \cap ({"lock", "read"} \cup Setter) = {}

LEMMA QuietNames ==
  ASSUME Names, Quiet, piped \subseteq piped', UNCHANGED found
  PROVE  Names'
<1>1. \A d : Known(d) => Known(d)'
  BY DEF Known
<1>2. UNCHANGED <<carrying, old, device, driver, live>>
  BY DEF Quiet, handover
<1>3. AllKnown'
  BY <1>1, <1>2 DEF Names, AllKnown
<1>4. \A h \in Hands : Attached(h)'
  BY <1>2 DEF Names, Attached
<1>5. ASSUME NEW t \in Threads PROVE Named(t)'
  <2>1. Named(t)
    BY DEF Names
  <2>2. /\ Busy(t) <=> Busy(t)'
        /\ pc'[t] \in Setter <=> pc[t] \in Setter
        /\ pc[t] \in {"store", "delete"} <=> pc'[t] \in {"store", "delete"}
    BY DEF Quiet, Busy, Setter
  <2> QED
    BY <2>1, <2>2, <1>2 DEF Named
<1> QED
  BY <1>3, <1>4, <1>5 DEF Names

LEMMA QuietHanded ==
  ASSUME Handed, Quiet
  PROVE  Handed'
<1> SUFFICES ASSUME ~raced' PROVE Handed!2'
  BY DEF Handed
<1>1. UNCHANGED <<carrying, old, device, driver, live, raced>>
  BY DEF Quiet, handover
<1>2. Handed!2
  BY <1>1 DEF Handed
<1>3. \A t \in Threads : /\ pc'[t] \in Setter <=> pc[t] \in Setter
                         /\ pc[t] \in {"lock", "read", "store"} <=> pc'[t] \in {"lock", "read", "store"}
                         /\ pc'[t] \in {"store", "delete", "listen"} => pc'[t] = pc[t]
  BY DEF Quiet, Setter
<1>4. Exclusive' /\ Kept'
  BY <1>1, <1>2, <1>3 DEF Exclusive, Kept
<1>5. \A t \in Threads : Fresh(t)' /\ Arrived(t)' /\ Doomed(t)'
  BY <1>1, <1>2, <1>3 DEF Fresh, Arrived, Doomed
<1>6. \A d \in live' : Placed(d)'
  BY <1>1, <1>2 DEF Placed
<1> QED
  BY <1>4, <1>5, <1>6

--------------------------------------------------------------------------------
(* The invariant holds at first.                                               *)

LEMMA InitInvariant == Init => IInv
<1> SUFFICES ASSUME Init PROVE IInv
  OBVIOUS
<1>0. \A t \in Threads : pc[t] = IF t = Provider THEN "spawn" ELSE "none"
  BY DEF Init
<1>1. TypeOK
  <2>1. pc \in [Threads -> ProberPcs \cup ProviderPcs]
    BY DEF Init, ProberPcs, ProviderPcs
  <2>2. (\A p \in Probers : pc[p] \in ProberPcs) /\ pc[Provider] \in ProviderPcs
    BY <1>0, ThreadFacts DEF ProberPcs, ProviderPcs
  <2>3. /\ carrying \in [Threads -> Devices \cup {None}]
        /\ old \in [Threads -> Devices \cup {None}]
        /\ device \in [Hands -> Devices \cup {None}]
    BY DEF Init
  <2>4. /\ found \in [Probers -> Nat] /\ driver \in [Hands -> {"none", "ready", "deactivated"}]
        /\ port \in [Probers -> PortStates]
    BY DEF Init, PortStates
  <2>5. active \in BOOLEAN /\ raced \in BOOLEAN /\ crashed \in BOOLEAN
    BY DEF Init
  <2>6. mutex \in Probers \cup {None} /\ piped \subseteq Hands /\ live \subseteq Devices
        /\ listening \subseteq Devices
    BY DEF Init
  <2> QED
    BY <2>1, <2>2, <2>3, <2>4, <2>5, <2>6 DEF TypeOK
<1>2. \A t \in Threads : pc[t] \notin {"lock", "read", "stopped"} \cup Setter
  BY <1>0 DEF Setter
<1>3. /\ \A t \in Threads : carrying[t] = None /\ old[t] = None
      /\ \A h \in Hands : device[h] = None
      /\ live = {} /\ ~crashed
  BY DEF Init
<1>4. Names
  BY <1>2, <1>3 DEF Names, Named, Attached, AllKnown, Busy
<1>5. Locked
  BY <1>2, ThreadFacts DEF Locked
<1>6. Handed
  BY <1>2, <1>3 DEF Handed, Exclusive, Kept, Fresh, Arrived, Doomed, Placed, Setter
<1> QED
  BY <1>1, <1>3, <1>4, <1>5, <1>6 DEF IInv, CrashNeedsARace

--------------------------------------------------------------------------------
(* Every step keeps the types.                                                 *)

PcOK == /\ pc \in [Threads -> ProberPcs \cup ProviderPcs]
        /\ \A p \in Probers : pc[p] \in ProberPcs
        /\ pc[Provider] \in ProviderPcs

LEMMA ProberPc ==
  ASSUME TypeOK, NEW p \in Probers, NEW a, NEW b \in ProberPcs, Goto(p, a, b)
  PROVE  PcOK'
<1>1. PcOK
  BY DEF TypeOK, PcOK
<1>2. b \in ProberPcs \cup ProviderPcs
  OBVIOUS
<1> QED
  BY <1>1, <1>2, ThreadFacts, Moving DEF PcOK

LEMMA ProviderPc ==
  ASSUME TypeOK, NEW a, NEW b \in ProviderPcs, Goto(Provider, a, b)
  PROVE  PcOK'
<1>1. PcOK
  BY DEF TypeOK, PcOK
<1>2. b \in ProberPcs \cup ProviderPcs
  OBVIOUS
<1> QED
  BY <1>1, <1>2, ThreadFacts, Moving DEF PcOK

LEMMA SetterPc ==
  ASSUME TypeOK, NEW t \in Threads, NEW a, NEW b \in Setter, Goto(t, a, b)
  PROVE  PcOK'
<1>1. b \in ProberPcs /\ b \in ProviderPcs
  BY DEF ProberPcs, ProviderPcs
<1> QED
  BY <1>1, ThreadFacts, ProberPc, ProviderPc

LEMMA ReleasedType ==
  ASSUME TypeOK, NEW d
  PROVE  Released(d) \in [Probers -> PortStates]
<1>1. port \in [Probers -> PortStates]
  BY DEF TypeOK
<1>2. \A p \in Probers : port[p] \in PortStates
  BY <1>1
<1>3. "absent" \in PortStates /\ "free" \in PortStates
  BY DEF PortStates
<1> QED
  BY <1>2, <1>3 DEF Released

\* The parts of TypeOK that most steps leave alone.
HandoverOK ==
  /\ carrying \in [Threads -> Devices \cup {None}]
  /\ old \in [Threads -> Devices \cup {None}]
  /\ device \in [Hands -> Devices \cup {None}]
  /\ listening \subseteq Devices
  /\ raced \in BOOLEAN
FixedOK == piped \subseteq Hands /\ driver \in [Hands -> {"none", "ready", "deactivated"}]
RestOK  == active \in BOOLEAN /\ crashed \in BOOLEAN /\ mutex \in Probers \cup {None}
WorldOK == /\ found \in [Probers -> Nat] /\ live \subseteq Devices
           /\ port \in [Probers -> PortStates]

LEMMA TypeParts == TypeOK <=> PcOK /\ HandoverOK /\ FixedOK /\ RestOK /\ WorldOK
BY DEF TypeOK, PcOK, HandoverOK, FixedOK, RestOK, WorldOK

LEMMA NextTypeParts ==
  ASSUME PcOK', HandoverOK', FixedOK', RestOK', WorldOK'
  PROVE  TypeOK'
BY DEF TypeOK, PcOK, HandoverOK, FixedOK, RestOK, WorldOK

LEMMA SetterTypes ==
  ASSUME TypeOK, Names, NEW t \in Threads, SetDeviceDriver(t)
  PROVE  TypeOK'
<1> DEFINE h == HandOf(carrying[t])
<1>1. PcOK /\ HandoverOK /\ FixedOK /\ RestOK /\ WorldOK
  BY TypeParts
<1>2. Named(t)
  BY DEF Names
<1>3. pc[t] \in {"read"} \cup Setter => h \in Hands /\ carrying[t] \in Devices
  BY <1>2, Carried DEF Busy
<1>r. CASE ReadOld(t)
  <2>1. PcOK'
    BY <1>r, SetterPc DEF ReadOld, Setter
  <2>2. device[h] \in Devices \cup {None}
    BY <1>1, <1>3, <1>r DEF HandoverOK, ReadOld, Goto
  <2>3. old' = [old EXCEPT ![t] = device[h]]
    BY <1>r DEF ReadOld
  <2>4. old' \in [Threads -> Devices \cup {None}]
    BY <1>1, <2>2, <2>3 DEF HandoverOK
  <2>5. raced' \in BOOLEAN
    BY <1>r DEF ReadOld
  <2>6. HandoverOK'
    BY <1>1, <1>r, <2>4, <2>5 DEF HandoverOK, ReadOld
  <2> QED
    BY <1>1, <1>r, <2>1, <2>6, NextTypeParts DEF ReadOld, FixedOK, RestOK, WorldOK, fixed
<1>s. CASE StoreNew(t)
  <2>1. PcOK'
    BY <1>s, SetterPc DEF StoreNew, Setter
  <2>2. carrying[t] \in Devices
    BY <1>3, <1>s DEF StoreNew, Goto, Setter
  <2>3. device' = [device EXCEPT ![h] = carrying[t]]
    BY <1>s DEF StoreNew
  <2>4. device' \in [Hands -> Devices \cup {None}]
    BY <1>1, <2>2, <2>3 DEF HandoverOK
  <2>5. HandoverOK'
    BY <1>1, <1>s, <2>4 DEF HandoverOK, StoreNew
  <2> QED
    BY <1>1, <1>s, <2>1, <2>5, NextTypeParts DEF StoreNew, FixedOK, RestOK, WorldOK, fixed
<1>d. CASE DeleteOld(t)
  <2>1. PcOK'
    BY <1>d, SetterPc DEF DeleteOld, Setter
  <2>2. old' = [old EXCEPT ![t] = None]
    BY <1>d DEF DeleteOld
  <2>3. old' \in [Threads -> Devices \cup {None}]
    BY <1>1, <2>2 DEF HandoverOK
  <2>4. HandoverOK'
    BY <1>1, <1>d, <2>3 DEF HandoverOK, DeleteOld
  <2>5. WorldOK'
    BY <1>1, <1>d, ReleasedType DEF WorldOK, DeleteOld
  <2> QED
    BY <1>1, <1>d, <2>1, <2>4, <2>5, NextTypeParts DEF DeleteOld, FixedOK, RestOK, fixed
<1>l. CASE Listen(t)
  <2>1. PcOK'
    <3>1. CASE t = Provider
      <4>1. Goto(Provider, "listen", "pipes")
        BY <1>l, <3>1 DEF Listen
      <4> QED
        BY <4>1, ProviderPc DEF ProviderPcs
    <3>2. CASE t # Provider
      <4>1. t \in Probers /\ Goto(t, "listen", "sleep")
        BY <1>l, <3>2, ThreadFacts DEF Listen
      <4> QED
        BY <4>1, ProberPc DEF ProberPcs
    <3> QED
      BY <3>1, <3>2
  <2>2. device[h] \in Devices
    BY <1>1, <1>l DEF Listen, Usable, WorldOK
  <2>3. carrying' = [carrying EXCEPT ![t] = None]
    BY <1>l DEF Listen
  <2>4. carrying' \in [Threads -> Devices \cup {None}]
    BY <1>1, <2>3 DEF HandoverOK
  <2>5. HandoverOK'
    BY <1>1, <1>l, <2>2, <2>4 DEF HandoverOK, Listen
  <2>6. RestOK'
    BY <1>1, <1>l DEF RestOK, Listen
  <2> QED
    BY <1>1, <1>l, <2>1, <2>5, <2>6, NextTypeParts DEF Listen, FixedOK, WorldOK, fixed
<1>c. CASE UNCHANGED <<pc, active, mutex, handover, found, fixed, live, port>> /\ crashed' = TRUE
  BY <1>1, <1>c, NextTypeParts DEF PcOK, HandoverOK, FixedOK, RestOK, WorldOK, handover, fixed
<1> QED
  BY <1>r, <1>s, <1>d, <1>l, <1>c DEF SetDeviceDriver, Crash

LEMMA StartingTypes ==
  ASSUME TypeOK, Names, Starting
  PROVE  TypeOK'
<1>1. PcOK /\ HandoverOK /\ FixedOK /\ RestOK /\ WorldOK
  BY TypeParts
<1>a. CASE SetActive
  <2>1. PcOK'
    BY <1>a, ProviderPc DEF SetActive, ProviderPcs
  <2> QED
    BY <1>1, <1>a, <2>1, NextTypeParts
       DEF SetActive, HandoverOK, FixedOK, RestOK, WorldOK, handover, fixed
<1>d. CASE DropPipe
  <2>1. PcOK'
    BY <1>d, ProviderPc DEF DropPipe, ProviderPcs
  <2>2. carrying' = [carrying EXCEPT ![Provider] = None]
    BY <1>d DEF DropPipe
  <2>3. carrying' \in [Threads -> Devices \cup {None}]
    BY <1>1, <2>2 DEF HandoverOK
  <2>4. HandoverOK'
    BY <1>1, <1>d, <2>3 DEF DropPipe, HandoverOK
  <2>5. WorldOK'
    BY <1>1, <1>d DEF DropPipe, WorldOK
  <2> QED
    BY <1>1, <1>d, <2>1, <2>4, <2>5, NextTypeParts DEF DropPipe, FixedOK, RestOK, fixed
<1>s. CASE Started
  <2>1. PcOK'
    BY <1>s, ProviderPc DEF Started, ProviderPcs
  <2> QED
    BY <1>1, <1>s, <2>1, NextTypeParts
       DEF Started, HandoverOK, FixedOK, RestOK, WorldOK, handover, fixed
<1>p. ASSUME NEW p \in Probers, SpawnProber(p) PROVE TypeOK'
  <2>1. PcOK'
    BY <1>p, ProberPc DEF SpawnProber, ProberPcs
  <2> QED
    BY <1>1, <1>p, <2>1, NextTypeParts
       DEF SpawnProber, HandoverOK, FixedOK, RestOK, WorldOK, handover, fixed
<1>h. ASSUME NEW h \in Hands, DeliverPipe(h) PROVE TypeOK'
  <2>1. PcOK'
    BY <1>h, ProviderPc DEF DeliverPipe, ProviderPcs
  <2>2. carrying' = [carrying EXCEPT ![Provider] = <<"pipe", h, 1>>]
    BY <1>h DEF DeliverPipe
  <2>3. carrying' \in [Threads -> Devices \cup {None}]
    BY <1>1, <2>2, DeviceFacts DEF HandoverOK
  <2>4. HandoverOK'
    BY <1>1, <1>h, <2>3 DEF DeliverPipe, HandoverOK
  <2>5. WorldOK'
    BY <1>1, <1>h, DeviceFacts DEF DeliverPipe, WorldOK
  <2>6. FixedOK'
    BY <1>1, <1>h DEF DeliverPipe, FixedOK
  <2> QED
    BY <1>1, <1>h, <2>1, <2>4, <2>5, <2>6, NextTypeParts DEF DeliverPipe, RestOK
<1> QED
  BY <1>a, <1>d, <1>s, <1>p, <1>h, ThreadFacts, SetterTypes DEF Starting

LEMMA EndingTypes ==
  ASSUME TypeOK, Ending
  PROVE  TypeOK'
<1>1. PcOK /\ HandoverOK /\ FixedOK /\ RestOK /\ WorldOK
  BY TypeParts
<1>s. CASE StopDiscovery
  <2>1. PcOK'
    BY <1>s, ProviderPc DEF StopDiscovery, ProviderPcs
  <2> QED
    BY <1>1, <1>s, <2>1, NextTypeParts
       DEF StopDiscovery, HandoverOK, FixedOK, RestOK, WorldOK, handover, fixed
<1>j. CASE JoinProbers
  <2>1. PcOK'
    BY <1>j, ProviderPc DEF JoinProbers, ProviderPcs
  <2> QED
    BY <1>1, <1>j, <2>1, NextTypeParts
       DEF JoinProbers, HandoverOK, FixedOK, RestOK, WorldOK, handover, fixed
<1>d. ASSUME NEW h \in Hands, Deactivate(h) PROVE TypeOK'
  <2>1. device' = [device EXCEPT ![h] = None] /\ driver' = [driver EXCEPT ![h] = "deactivated"]
    BY <1>d DEF Deactivate
  <2>2. device' \in [Hands -> Devices \cup {None}]
    BY <1>1, <2>1 DEF HandoverOK
  <2>3. HandoverOK'
    BY <1>1, <1>d, <2>2 DEF Deactivate, HandoverOK
  <2>4. FixedOK'
    BY <1>1, <1>d, <2>1 DEF Deactivate, FixedOK
  <2>5. WorldOK'
    BY <1>1, <1>d, ReleasedType DEF Deactivate, WorldOK
  <2>6. RestOK'
    BY <1>1, <1>d DEF Deactivate, RestOK
  <2> QED
    BY <1>1, <1>d, <2>3, <2>4, <2>5, <2>6, NextTypeParts DEF Deactivate, PcOK
<1> QED
  BY <1>s, <1>j, <1>d DEF Ending

LEMMA ProberTypes ==
  ASSUME TypeOK, Names, NEW p \in Probers, Prober(p) \/ PlugIn(p) \/ Unplug(p)
  PROVE  TypeOK'
<1>1. PcOK /\ HandoverOK /\ FixedOK /\ RestOK /\ WorldOK
  BY TypeParts
<1>t. CASE TestActive(p)
  <2>1. Goto(p, "test", "inquire") \/ Goto(p, "test", "exited")
    BY <1>t DEF TestActive
  <2>2. PcOK'
    BY <2>1, ProberPc DEF ProberPcs
  <2> QED
    BY <1>1, <1>t, <2>2, NextTypeParts
       DEF TestActive, ProberOnly, HandoverOK, FixedOK, RestOK, WorldOK, handover, fixed
<1>f. CASE Found(p)
  <2>1. PcOK'
    BY <1>f, ProberPc DEF Found, ProberPcs
  <2>2. port' \in [Probers -> PortStates] /\ found' \in [Probers -> Nat]
    <3>1. "held" \in PortStates
      BY DEF PortStates
    <3>2. port' = [port EXCEPT ![p] = "held"] /\ found' = [found EXCEPT ![p] = found[p] + 1]
      BY <1>f DEF Found
    <3> QED
      BY <1>1, <3>1, <3>2 DEF WorldOK
  <2>3. Latest(p)' \in Devices
    <3>1. found'[p] \in Nat
      BY <2>2
    <3> QED
      BY <3>1, LatestFacts DEF Latest
  <2>4. carrying' = [carrying EXCEPT ![p] = Latest(p)'] /\ live' = live \cup {Latest(p)'}
    BY <1>f DEF Found
  <2>5. carrying' \in [Threads -> Devices \cup {None}]
    BY <1>1, <2>3, <2>4 DEF HandoverOK
  <2>6. HandoverOK'
    BY <1>1, <1>f, <2>5 DEF Found, HandoverOK
  <2>7. WorldOK'
    BY <1>1, <2>2, <2>3, <2>4 DEF WorldOK
  <2> QED
    BY <1>1, <1>f, <2>1, <2>6, <2>7, NextTypeParts DEF Found, FixedOK, RestOK, fixed
<1>n. CASE NotFound(p)
  <2>1. PcOK'
    BY <1>n, ProberPc DEF NotFound, ProberPcs
  <2> QED
    BY <1>1, <1>n, <2>1, NextTypeParts
       DEF NotFound, ProberOnly, HandoverOK, FixedOK, RestOK, WorldOK, handover, fixed
<1>h. CASE FoundHalfway(p)
  <2>1. PcOK'
    BY <1>h, ProberPc DEF FoundHalfway, ProberPcs
  <2>2. WorldOK'
    BY <1>1, <1>h DEF FoundHalfway, ProberOnly, WorldOK, PortStates
  <2> QED
    BY <1>1, <1>h, <2>1, <2>2, NextTypeParts
       DEF FoundHalfway, ProberOnly, HandoverOK, FixedOK, RestOK, handover, fixed
<1>l. CASE LockFound(p)
  <2>1. PcOK'
    BY <1>l, ProberPc DEF LockFound, ProberPcs
  <2> QED
    BY <1>1, <1>l, <2>1, NextTypeParts
       DEF LockFound, ProberOnly, HandoverOK, FixedOK, RestOK, WorldOK, handover, fixed
<1>s. CASE Sleep(p)
  <2>1. PcOK'
    BY <1>s, ProberPc DEF Sleep, ProberPcs
  <2> QED
    BY <1>1, <1>s, <2>1, NextTypeParts
       DEF Sleep, ProberOnly, HandoverOK, FixedOK, RestOK, WorldOK, handover, fixed
<1>g. CASE PlugIn(p) \/ Unplug(p)
  <2>1. port' \in [Probers -> PortStates]
    BY <1>1, <1>g DEF PlugIn, Unplug, WorldOK, PortStates
  <2>2. UNCHANGED <<pc, active, mutex, handover, found, fixed, live, crashed>>
    BY <1>g DEF PlugIn, Unplug
  <2> QED
    BY <1>1, <2>1, <2>2, NextTypeParts
       DEF PcOK, HandoverOK, FixedOK, RestOK, WorldOK, handover, fixed
<1> QED
  BY <1>t, <1>f, <1>n, <1>h, <1>l, <1>s, <1>g, ThreadFacts, SetterTypes DEF Prober

--------------------------------------------------------------------------------
(* The mutex.                                                                  *)

LEMMA StayLocked ==
  ASSUME Locked, UNCHANGED mutex,
         \A p \in Probers : pc'[p] \in {"read"} \cup Setter => pc[p] \in {"read"} \cup Setter,
         pc'[Provider] = "stopped" =>
           pc[Provider] = "stopped" /\ \A p \in Probers : pc'[p] = pc[p]
  PROVE  Locked'
BY DEF Locked

LEMMA ProviderLocked ==
  ASSUME TypeOK, Locked, UNCHANGED mutex, NEW a, NEW b, Goto(Provider, a, b), b # "stopped"
  PROVE  Locked'
<1>1. \A p \in Probers : pc'[p] = pc[p]
  BY ThreadFacts, Moving
<1>2. pc'[Provider] = b
  BY ThreadFacts, Moving
<1> QED
  BY <1>1, <1>2, StayLocked

LEMMA ProberLocked ==
  ASSUME TypeOK, Locked, UNCHANGED mutex, NEW p \in Probers, NEW a, NEW b, Goto(p, a, b),
         a # "exited", b \in {"read"} \cup Setter => a \in {"read"} \cup Setter
  PROVE  Locked'
<1>1. pc[p] = a /\ pc'[p] = b /\ \A u \in Threads : u # p => pc'[u] = pc[u]
  BY ThreadFacts, Moving
<1>2. pc[Provider] # "stopped"
  BY <1>1 DEF Locked
<1>3. pc'[Provider] = pc[Provider]
  BY <1>1, ThreadFacts
<1>4. \A q \in Probers : pc'[q] \in {"read"} \cup Setter => pc[q] \in {"read"} \cup Setter
  BY <1>1, ThreadFacts
<1> QED
  BY <1>2, <1>3, <1>4, StayLocked

LEMMA SetterLocked ==
  ASSUME TypeOK, Locked, NEW t \in Threads, SetDeviceDriver(t)
  PROVE  Locked'
<1>1. CASE ReadOld(t) \/ StoreNew(t) \/ DeleteOld(t)
  <2>1. PICK a \in {"read"} \cup Setter, b \in Setter : Goto(t, a, b)
    BY <1>1 DEF ReadOld, StoreNew, DeleteOld, Setter
  <2>2. UNCHANGED mutex
    BY <1>1 DEF ReadOld, StoreNew, DeleteOld
  <2>3. a # "exited" /\ b # "stopped"
    BY DEF Setter
  <2>4. CASE t = Provider
    BY <2>1, <2>2, <2>3, <2>4, ProviderLocked
  <2>5. CASE t \in Probers
    BY <2>1, <2>2, <2>3, <2>5, ProberLocked
  <2> QED
    BY <2>4, <2>5, ThreadFacts
<1>2. CASE Listen(t) /\ t = Provider
  <2>1. Goto(Provider, "listen", "pipes")
    BY <1>2 DEF Listen
  <2>2. mutex # Provider
    BY ThreadFacts DEF TypeOK
  <2>3. UNCHANGED mutex
    BY <1>2, <2>2 DEF Listen
  <2> QED
    BY <2>1, <2>3, ProviderLocked
<1>3. CASE Listen(t) /\ t \in Probers
  <2>1. Goto(t, "listen", "sleep")
    BY <1>3, ThreadFacts DEF Listen
  <2>2. pc[t] = "listen" /\ pc'[t] = "sleep" /\ \A u \in Threads : u # t => pc'[u] = pc[u]
    BY <2>1, Moving
  <2>3. mutex = t /\ pc[Provider] # "stopped"
    BY <1>3, <2>2 DEF Locked, Setter
  <2>4. \A p \in Probers : pc'[p] \notin {"read"} \cup Setter
    BY <2>2, <2>3, ThreadFacts DEF Locked, Setter
  <2>5. pc'[Provider] # "stopped"
    BY <1>3, <2>2, <2>3, ThreadFacts
  <2> QED
    BY <2>4, <2>5 DEF Locked
<1>4. CASE UNCHANGED <<pc, mutex>>
  BY <1>4, StayLocked
<1> QED
  BY <1>1, <1>2, <1>3, <1>4, ThreadFacts DEF SetDeviceDriver, Crash

LEMMA NextLocked ==
  ASSUME TypeOK, Locked, Next
  PROVE  Locked'
<1>1. ASSUME NEW p \in Probers, SpawnProber(p) PROVE Locked'
  <2>1. Goto(p, "none", "test") /\ UNCHANGED mutex
    BY <1>1 DEF SpawnProber
  <2> QED
    BY <2>1, ProberLocked DEF Setter
<1>2. CASE SetActive
  BY <1>2, ProviderLocked DEF SetActive
<1>3. ASSUME NEW h \in Hands, DeliverPipe(h) PROVE Locked'
  BY <1>3, ProviderLocked DEF DeliverPipe
<1>4. CASE DropPipe
  BY <1>4, ProviderLocked DEF DropPipe
<1>5. CASE Started
  BY <1>5, ProviderLocked DEF Started
<1>6. ASSUME NEW p \in Probers, TestActive(p) PROVE Locked'
  <2>1. (Goto(p, "test", "inquire") \/ Goto(p, "test", "exited")) /\ UNCHANGED mutex
    BY <1>6 DEF TestActive
  <2> QED
    BY <2>1, ProberLocked DEF Setter
<1>7. ASSUME NEW p \in Probers, Found(p) PROVE Locked'
  BY <1>7, ProberLocked DEF Found, Setter
<1>8. ASSUME NEW p \in Probers, NotFound(p) \/ FoundHalfway(p) PROVE Locked'
  <2>1. Goto(p, "inquire", "sleep") /\ UNCHANGED mutex
    BY <1>8 DEF NotFound, FoundHalfway
  <2> QED
    BY <2>1, ProberLocked DEF Setter
<1>9. ASSUME NEW p \in Probers, LockFound(p) PROVE Locked'
  <2>1. pc[p] = "lock" /\ pc'[p] = "read" /\ \A u \in Threads : u # p => pc'[u] = pc[u]
    BY <1>9, ThreadFacts, Moving DEF LockFound
  <2>2. mutex = None /\ mutex' = p
    BY <1>9 DEF LockFound
  <2>3. \A q \in Probers : pc[q] \notin {"read"} \cup Setter
    BY <2>2, ThreadFacts DEF Locked
  <2>4. \A q \in Probers : pc'[q] \in {"read"} \cup Setter => mutex' = q
    BY <2>1, <2>2, <2>3, ThreadFacts
  <2>5. pc[Provider] # "stopped" /\ pc'[Provider] = pc[Provider]
    BY <2>1, ThreadFacts DEF Locked
  <2> QED
    BY <2>4, <2>5 DEF Locked
<1>10. ASSUME NEW p \in Probers, Sleep(p) PROVE Locked'
  BY <1>10, ProberLocked DEF Sleep, Setter
<1>11. CASE StopDiscovery
  BY <1>11, ProviderLocked DEF StopDiscovery
<1>12. CASE JoinProbers
  <2>1. \A p \in Probers : pc'[p] = pc[p]
    BY <1>12, ThreadFacts, Moving DEF JoinProbers
  <2>2. \A p \in Probers : pc[p] = "exited"
    BY <1>12 DEF JoinProbers
  <2> QED
    BY <2>1, <2>2 DEF Locked, Setter
<1>13. CASE UNCHANGED <<pc, mutex>>
  BY <1>13, StayLocked
<1>14. ASSUME NEW h \in Hands, Deactivate(h) PROVE Locked'
  BY <1>13, <1>14 DEF Deactivate
<1>15. ASSUME NEW p \in Probers, PlugIn(p) \/ Unplug(p) PROVE Locked'
  BY <1>13, <1>15 DEF PlugIn, Unplug
<1> QED
  BY <1>1, <1>2, <1>3, <1>4, <1>5, <1>6, <1>7, <1>8, <1>9, <1>10, <1>11, <1>12, <1>14, <1>15,
     SetterLocked, ThreadFacts DEF Next, Starting, Ending, Prober

--------------------------------------------------------------------------------
(* The kinds of steps.                                                         *)

LEMMA QuietGoto ==
  ASSUME TypeOK, UNCHANGED <<handover, driver, live>>, NEW t \in Threads, NEW a, NEW b,
         Goto(t, a, b),
         {a, b} \subseteq {"lock", "read"} \/ {a, b} \cap ({"lock", "read"} \cup Setter) = {}
  PROVE  Quiet
BY Moving DEF Quiet

LEMMA StepKinds ==
  ASSUME TypeOK, Next
  PROVE  \/ Quiet /\ UNCHANGED <<found, piped, crashed>>
         \/ \E p \in Probers : Found(p)
         \/ DropPipe
         \/ \E h \in Hands : DeliverPipe(h) \/ Deactivate(h)
         \/ \E t \in Threads : SetDeviceDriver(t)
<1> DEFINE Silent == Quiet /\ UNCHANGED <<found, piped, crashed>>
<1>1. ASSUME NEW p \in Probers, SpawnProber(p) PROVE Silent
  <2>1. Goto(p, "none", "test") /\ UNCHANGED <<handover, driver, live, found, piped, crashed>>
    BY <1>1 DEF SpawnProber, fixed
  <2> QED
    BY <2>1, ThreadFacts, QuietGoto DEF Setter
<1>2. CASE SetActive \/ Started \/ StopDiscovery \/ JoinProbers
  <2>1. PICK a \in {"spawn", "pipes", "running", "joining"}, b \in {"pipes", "running", "joining", "stopped"} :
          Goto(Provider, a, b)
    BY <1>2 DEF SetActive, Started, StopDiscovery, JoinProbers
  <2>2. UNCHANGED <<handover, driver, live, found, piped, crashed>>
    BY <1>2 DEF SetActive, Started, StopDiscovery, JoinProbers, fixed
  <2>3. {a, b} \cap ({"lock", "read"} \cup Setter) = {}
    BY DEF Setter
  <2> QED
    BY <2>1, <2>2, <2>3, ThreadFacts, QuietGoto
<1>3. ASSUME NEW p \in Probers,
             TestActive(p) \/ NotFound(p) \/ FoundHalfway(p) \/ LockFound(p) \/ Sleep(p)
      PROVE  Silent
  <2>1. UNCHANGED <<handover, driver, live, found, piped, crashed>>
    BY <1>3 DEF TestActive, NotFound, FoundHalfway, LockFound, Sleep, ProberOnly, fixed
  <2>2. CASE LockFound(p)
    BY <2>1, <2>2, ThreadFacts, QuietGoto DEF LockFound
  <2>3. CASE ~LockFound(p)
    <3>1. PICK a \in {"test", "inquire", "sleep"}, b \in {"inquire", "exited", "sleep", "test"} :
            Goto(p, a, b)
      BY <1>3, <2>3 DEF TestActive, NotFound, FoundHalfway, Sleep
    <3>2. {a, b} \cap ({"lock", "read"} \cup Setter) = {}
      BY DEF Setter
    <3> QED
      BY <2>1, <3>1, <3>2, ThreadFacts, QuietGoto
  <2> QED
    BY <2>2, <2>3
<1>4. ASSUME NEW p \in Probers, PlugIn(p) \/ Unplug(p) PROVE Silent
  BY <1>4 DEF PlugIn, Unplug, Quiet, fixed
<1> QED
  BY <1>1, <1>2, <1>3, <1>4, ThreadFacts DEF Next, Starting, Ending, Prober

--------------------------------------------------------------------------------
(* Every step keeps the names apart.                                           *)

LEMMA OthersNamed ==
  ASSUME NEW u \in Threads, Named(u),
         pc'[u] = pc[u], carrying'[u] = carrying[u], old'[u] = old[u],
         \A h : driver[h] # "none" => driver'[h] # "none"
  PROVE  Named(u)'
BY DEF Named, Busy

LEMMA NamesByHandover ==
  ASSUME TypeOK, Names, NEW t \in Threads, SetDeviceDriver(t), UNCHANGED crashed
  PROVE  Names'
<1> DEFINE h == HandOf(carrying[t])
<1>1. Named(t) /\ \A u \in Threads : Named(u)
  BY DEF Names
<1>2. UNCHANGED <<found, fixed>>
  BY DEF SetDeviceDriver, ReadOld, StoreNew, DeleteOld, Listen, Crash
<1>3. \A d : Known(d) => Known(d)'
  BY <1>2 DEF Known, fixed
<1>4. UNCHANGED driver
  BY <1>2 DEF fixed
<1>0. carrying \in [Threads -> Devices \cup {None}] /\ old \in [Threads -> Devices \cup {None}]
  BY DEF TypeOK
<1>r. CASE ReadOld(t)
  <2>1. pc[t] = "read" /\ pc'[t] = "store" /\ \A u \in Threads : u # t => pc'[u] = pc[u]
    BY <1>r, Moving DEF ReadOld
  <2>2. h \in Hands
    BY <1>1, <2>1, Carried DEF Busy
  <2>3. old'[t] = device[h] /\ \A u \in Threads : u # t => old'[u] = old[u]
    BY <1>0, <1>r DEF ReadOld
  <2>4. UNCHANGED <<carrying, device, live>> /\ driver[h] = "ready"
    BY <1>r DEF ReadOld, Usable
  <2>5. Named(t)'
    BY <1>1, <1>4, <2>1, <2>2, <2>3, <2>4 DEF Names, Named, Busy, Setter, Attached
  <2>6. \A u \in Threads : u # t => Named(u)'
    BY <1>1, <1>4, <2>1, <2>3, <2>4, OthersNamed
  <2>7. \A g \in Hands : Attached(g)'
    BY <1>4, <2>4 DEF Names, Attached
  <2>8. AllKnown'
    BY <1>3, <2>2, <2>3, <2>4 DEF Names, AllKnown
  <2> QED
    BY <2>5, <2>6, <2>7, <2>8 DEF Names
<1>s. CASE StoreNew(t)
  <2>1. pc[t] = "store" /\ pc'[t] = "delete" /\ \A u \in Threads : u # t => pc'[u] = pc[u]
    BY <1>s, Moving DEF StoreNew
  <2>2. h \in Hands /\ carrying[t] # None
    BY <1>1, <2>1, Carried, DeviceFacts DEF Busy, Setter
  <2>3. \A g \in Hands : device'[g] = IF g = h THEN carrying[t] ELSE device[g]
    BY <1>s DEF StoreNew, TypeOK
  <2>4. UNCHANGED <<carrying, old, live>> /\ driver[h] = "ready"
    BY <1>s DEF StoreNew, Usable
  <2>5. Named(t)'
    BY <1>1, <1>4, <2>1, <2>4 DEF Named, Busy, Setter
  <2>6. \A u \in Threads : u # t => Named(u)'
    BY <1>1, <1>4, <2>1, <2>4, OthersNamed
  <2>7. \A g \in Hands : Attached(g)'
    BY <1>4, <2>3, <2>4 DEF Names, Attached
  <2>8. AllKnown'
    BY <1>3, <2>2, <2>3, <2>4 DEF Names, AllKnown
  <2> QED
    BY <2>5, <2>6, <2>7, <2>8 DEF Names
<1>d. CASE DeleteOld(t)
  <2>1. pc[t] = "delete" /\ pc'[t] = "listen" /\ \A u \in Threads : u # t => pc'[u] = pc[u]
    BY <1>d, Moving DEF DeleteOld
  <2>2. old'[t] = None /\ \A u \in Threads : u # t => old'[u] = old[u]
    BY <1>0, <1>d DEF DeleteOld
  <2>3. UNCHANGED <<carrying, device>> /\ live' \subseteq live
    BY <1>d DEF DeleteOld
  <2>5. Named(t)'
    BY <1>1, <1>4, <2>1, <2>2, <2>3 DEF Named, Busy, Setter
  <2>6. \A u \in Threads : u # t => Named(u)'
    BY <1>1, <1>4, <2>1, <2>2, <2>3, OthersNamed
  <2>7. \A g \in Hands : Attached(g)'
    BY <1>4, <2>3 DEF Names, Attached
  <2>8. AllKnown'
    BY <1>3, <2>2, <2>3 DEF Names, AllKnown
  <2> QED
    BY <2>5, <2>6, <2>7, <2>8 DEF Names
<1>l. CASE Listen(t)
  <2>1. pc[t] = "listen" /\ pc'[t] \in {"pipes", "sleep"} /\ \A u \in Threads : u # t => pc'[u] = pc[u]
    BY <1>l, Moving DEF Listen
  <2>2. carrying'[t] = None /\ \A u \in Threads : u # t => carrying'[u] = carrying[u]
    BY <1>0, <1>l DEF Listen
  <2>3. UNCHANGED <<old, device, live>>
    BY <1>l DEF Listen
  <2>4. old[t] = None
    BY <1>1, <2>1 DEF Named
  <2>5. Named(t)'
    BY <2>1, <2>2, <2>3, <2>4 DEF Named, Busy, Setter
  <2>6. \A u \in Threads : u # t => Named(u)'
    BY <1>1, <1>4, <2>1, <2>2, <2>3, OthersNamed
  <2>7. \A g \in Hands : Attached(g)'
    BY <1>4, <2>3 DEF Names, Attached
  <2>8. AllKnown'
    BY <1>3, <2>2, <2>3 DEF Names, AllKnown
  <2> QED
    BY <2>5, <2>6, <2>7, <2>8 DEF Names
<1>c. CASE UNCHANGED <<pc, handover, live>>
  <2>1. Quiet
    BY <1>c, <1>4 DEF Quiet
  <2> QED
    BY <2>1, <1>2, QuietNames DEF fixed
<1> QED
  BY <1>r, <1>s, <1>d, <1>l, <1>c DEF SetDeviceDriver, Crash

LEMMA NamesByFinding ==
  ASSUME TypeOK, Names, NEW p \in Probers, Found(p), NEW d, d = Latest(p)'
  PROVE  Names' /\ ~Known(d)
<1>0. carrying \in [Threads -> Devices \cup {None}] /\ found \in [Probers -> Nat]
  BY DEF TypeOK
<1>1. pc[p] = "inquire" /\ pc'[p] = "lock" /\ \A u \in Threads : u # p => pc'[u] = pc[u]
  BY ThreadFacts, Moving DEF Found
<1>2. carrying'[p] = d /\ \A u \in Threads : u # p => carrying'[u] = carrying[u]
  BY <1>0, ThreadFacts DEF Found
<1>3. live' = live \cup {d} /\ UNCHANGED <<old, device, driver, piped>>
  BY DEF Found, fixed
<1>4. found'[p] = found[p] + 1 /\ found[p] \in Nat /\ \A q \in Probers : q # p => found'[q] = found[q]
  BY <1>0 DEF Found
<1>5. d = <<p[1], p[2], found'[p]>> /\ found'[p] \in Nat
  BY <1>4 DEF Latest
<1>6. d # None /\ d[1] = p[1] /\ HandOf(d) = p[2] /\ d[3] = found'[p]
  BY <1>5, LatestFacts, DeviceFacts
<1>7. <<d[1], HandOf(d)>> = p /\ d[1] # "pipe"
  BY <1>6, ThreadFacts
<1>8. ~Known(d)
  BY <1>4, <1>6, <1>7 DEF Known
<1>9. Known(d)'
  <2>1. <<d[1], HandOf(d)>> = p /\ d[3] = found'[p] /\ d[1] # "pipe"
    BY <1>6, <1>7
  <2> QED
    BY <1>4, <2>1 DEF Known
<1>10. ASSUME NEW e \in Devices, Known(e) PROVE Known(e)'
  <2>1. CASE e[1] = "pipe"
    BY <1>3, <1>10, <2>1 DEF Known
  <2>2. CASE e[1] # "pipe"
    <3>1. PICK q \in Probers : q = <<e[1], HandOf(e)>> /\ e[3] <= found[q]
      BY <1>10, <2>2 DEF Known
    <3>2. e[3] \in Nat
      BY DEF Devices
    <3>3. found[q] \in Nat /\ (found'[q] = found[q] \/ found'[q] = found[q] + 1)
      BY <1>0, <1>4
    <3>4. e[3] <= found'[q]
      BY <3>1, <3>2, <3>3
    <3> QED
      BY <2>2, <3>1, <3>4 DEF Known
  <2> QED
    BY <2>1, <2>2
<1>11. old[p] = None
  BY <1>1, ThreadFacts DEF Names, Named
<1>12. Named(p)'
  <2>1. Busy(p)' /\ p # Provider /\ pc'[p] \notin Setter
    BY <1>1, ThreadFacts DEF Busy, Setter
  <2> QED
    BY <1>2, <1>3, <1>6, <1>11, <2>1 DEF Named
<1>13. \A u \in Threads : u # p => Named(u)'
  BY <1>1, <1>2, <1>3, OthersNamed DEF Names
<1>14. \A g \in Hands : Attached(g)'
  BY <1>3 DEF Names, Attached
<1>15. AllKnown'
  <2>1. /\ live \subseteq Devices
        /\ \A t \in Threads : /\ carrying[t] # None => carrying[t] \in Devices
                              /\ old[t] # None => old[t] \in Devices
        /\ \A h \in Hands : device[h] # None => device[h] \in Devices
    BY DEF TypeOK
  <2>2. \A e \in live' : Known(e)'
    BY <1>3, <1>9, <1>10, <2>1 DEF Names, AllKnown
  <2>3. (\A t \in Threads : carrying[t] # None => Known(carrying[t]))'
    BY <1>2, <1>9, <1>10, <2>1 DEF Names, AllKnown
  <2>4. (\A t \in Threads : old[t] # None => Known(old[t]))'
    BY <1>3, <1>10, <2>1 DEF Names, AllKnown
  <2>5. (\A h \in Hands : device[h] # None => Known(device[h]))'
    BY <1>3, <1>10, <2>1 DEF Names, AllKnown
  <2> QED
    BY <2>2, <2>3, <2>4, <2>5 DEF AllKnown
<1> QED
  BY <1>8, <1>9, <1>12, <1>13, <1>14, <1>15, ThreadFacts DEF Names

LEMMA NamesByPipe ==
  ASSUME TypeOK, Names, NEW h \in Hands, DeliverPipe(h)
  PROVE  Names' /\ ~Known(<<"pipe", h, 1>>)
<1> DEFINE d == <<"pipe", h, 1>>
<1>0. carrying \in [Threads -> Devices \cup {None}]
  BY DEF TypeOK
<1>1. pc[Provider] = "pipes" /\ pc'[Provider] = "read" /\ \A u \in Threads : u # Provider => pc'[u] = pc[u]
  BY ThreadFacts, Moving DEF DeliverPipe
<1>2. carrying'[Provider] = d /\ \A u \in Threads : u # Provider => carrying'[u] = carrying[u]
  BY <1>0, ThreadFacts DEF DeliverPipe
<1>3. /\ live' = live \cup {d} /\ UNCHANGED <<old, device, driver, found>>
      /\ piped' = piped \cup {h} /\ h \notin piped
  BY DEF DeliverPipe
<1>4. d # None /\ d[1] = "pipe" /\ HandOf(d) = h
  BY DeviceFacts
<1>5. ~Known(d)
  BY <1>3, <1>4 DEF Known
<1>6. Known(d)'
  BY <1>3, <1>4 DEF Known
<1>7. \A e : Known(e) => Known(e)'
  BY <1>3 DEF Known
<1>8. old[Provider] = None
  BY <1>1, ThreadFacts DEF Names, Named
<1>9. Named(Provider)'
  <2>1. Busy(Provider)' /\ pc'[Provider] \notin Setter
    BY <1>1 DEF Busy, Setter
  <2> QED
    BY <1>2, <1>3, <1>4, <1>8, <2>1 DEF Named
<1>10. \A u \in Threads : u # Provider => Named(u)'
  BY <1>1, <1>2, <1>3, OthersNamed DEF Names
<1>11. \A g \in Hands : Attached(g)'
  BY <1>3 DEF Names, Attached
<1>12. AllKnown'
  BY <1>2, <1>3, <1>6, <1>7 DEF Names, AllKnown
<1> QED
  BY <1>5, <1>9, <1>10, <1>11, <1>12 DEF Names

LEMMA NamesByDrop ==
  ASSUME TypeOK, Names, DropPipe
  PROVE  Names'
<1>0. carrying \in [Threads -> Devices \cup {None}]
  BY DEF TypeOK
<1>1. pc[Provider] = "read" /\ pc'[Provider] = "pipes" /\ \A u \in Threads : u # Provider => pc'[u] = pc[u]
  BY ThreadFacts, Moving DEF DropPipe
<1>2. carrying'[Provider] = None /\ \A u \in Threads : u # Provider => carrying'[u] = carrying[u]
  BY <1>0, ThreadFacts DEF DropPipe
<1>3. live' \subseteq live /\ UNCHANGED <<old, device, driver, piped, found>>
  BY DEF DropPipe, fixed
<1>4. old[Provider] = None
  BY <1>1, ThreadFacts DEF Names, Named
<1>5. Named(Provider)'
  BY <1>1, <1>2, <1>3, <1>4 DEF Named, Busy, Setter
<1>6. \A u \in Threads : u # Provider => Named(u)'
  BY <1>1, <1>2, <1>3, OthersNamed DEF Names
<1>7. \A g \in Hands : Attached(g)'
  BY <1>3 DEF Names, Attached
<1>8. \A e : Known(e) => Known(e)'
  BY <1>3 DEF Known
<1>9. AllKnown'
  BY <1>2, <1>3, <1>8 DEF Names, AllKnown
<1> QED
  BY <1>5, <1>6, <1>7, <1>9 DEF Names

LEMMA NamesByDeactivation ==
  ASSUME TypeOK, Names, NEW h \in Hands, Deactivate(h)
  PROVE  Names'
<1>1. UNCHANGED <<pc, carrying, old, piped, found>> /\ live' \subseteq live
  BY DEF Deactivate
<1>2. driver' = [driver EXCEPT ![h] = "deactivated"] /\ device' = [device EXCEPT ![h] = None]
  BY DEF Deactivate
<1>3. /\ DOMAIN driver = Hands
      /\ \A g \in Hands : /\ driver'[g] = IF g = h THEN "deactivated" ELSE driver[g]
                          /\ device'[g] = IF g = h THEN None ELSE device[g]
  BY <1>2 DEF TypeOK
<1>4. \A g : driver[g] # "none" => driver'[g] # "none"
  BY <1>2
<1>5. \A u \in Threads : Named(u)'
  BY <1>1, <1>4, OthersNamed DEF Names
<1>6. \A g \in Hands : Attached(g)'
  BY <1>3 DEF Names, Attached
<1>7. \A e : Known(e) => Known(e)'
  BY <1>1 DEF Known
<1>8. AllKnown'
  BY <1>1, <1>3, <1>7 DEF Names, AllKnown
<1> QED
  BY <1>5, <1>6, <1>8 DEF Names

--------------------------------------------------------------------------------
(* Every step keeps the devices in their places.                               *)

LEMMA HandedByReading ==
  ASSUME TypeOK, Names, Locked, Handed, NEW t \in Threads, ReadOld(t), ~raced'
  PROVE  Handed'
<1> DEFINE h == HandOf(carrying[t])
<1>0. old \in [Threads -> Devices \cup {None}] /\ live \subseteq Devices
  BY DEF TypeOK
<1>n. \A u \in Threads : Named(u)
  BY DEF Names
<1>1. pc[t] = "read" /\ pc'[t] = "store" /\ \A u \in Threads : u # t => pc'[u] = pc[u]
  BY Moving DEF ReadOld
<1>2. h \in Hands /\ old[t] = None
  BY <1>n, <1>1, Carried DEF Busy, Named
<1>3. old'[t] = device[h] /\ \A u \in Threads : u # t => old'[u] = old[u]
  BY <1>0 DEF ReadOld
<1>4. UNCHANGED <<carrying, device, driver, live>>
  BY DEF ReadOld, fixed
<1>5. ~raced /\ \A u \in Inside(h) : u # Provider /\ t # Provider
  BY DEF ReadOld
<1>6. Exclusive /\ Kept /\ (\A u \in Threads : Fresh(u) /\ Arrived(u) /\ Doomed(u))
      /\ \A d \in live : Placed(d)
  BY <1>5 DEF Handed
<1>7. Inside(h) = {}
  <2> SUFFICES ASSUME NEW u \in Inside(h) PROVE FALSE
    OBVIOUS
  <2>1. u \in Threads /\ pc[u] \in Setter
    BY DEF Inside
  <2>2. u \in Probers /\ t \in Probers
    BY <1>5, <2>1, ThreadFacts
  <2>3. mutex = u /\ mutex = t
    BY <1>1, <2>1, <2>2 DEF Locked
  <2> QED
    BY <1>1, <2>1, <2>3 DEF Setter
<1>8. \A u \in Threads : pc[u] \in Setter => HandOf(carrying[u]) # h
  BY <1>7 DEF Inside
<1>9. Exclusive'
  <2> SUFFICES ASSUME NEW u \in Threads, NEW v \in Threads, pc'[u] \in Setter, pc'[v] \in Setter,
                      HandOf(carrying[u]) = HandOf(carrying[v])
               PROVE  u = v
    BY <1>4 DEF Exclusive
  <2>1. CASE u # t /\ v # t
    BY <1>1, <1>6, <2>1 DEF Exclusive
  <2>2. CASE u = t \/ v = t
    BY <1>1, <1>8, <2>2
  <2> QED
    BY <2>1, <2>2
<1>10. Kept'
  BY <1>4, <1>6 DEF Kept
<1>11. ASSUME NEW u \in Threads PROVE Fresh(u)'
  <2>1. pc'[u] \in {"lock", "read", "store"} => pc[u] \in {"lock", "read", "store"}
    BY <1>1
  <2> QED
    BY <1>2, <1>3, <1>4, <1>6, <2>1 DEF Fresh
<1>12. ASSUME NEW u \in Threads PROVE Arrived(u)' /\ Doomed(u)'
  <2>1. CASE u = t
    BY <1>1, <1>3, <1>4, <2>1 DEF Arrived, Doomed
  <2>2. CASE u # t
    BY <1>1, <1>3, <1>4, <1>6, <2>2 DEF Arrived, Doomed
  <2> QED
    BY <2>1, <2>2
<1>13. ASSUME NEW d \in live PROVE Placed(d)'
  <2>1. d # None
    BY <1>0, DeviceFacts
  <2> QED
    BY <1>2, <1>3, <1>4, <1>6, <2>1 DEF Placed
<1> QED
  BY <1>4, <1>9, <1>10, <1>11, <1>12, <1>13 DEF Handed

LEMMA HandedByStoring ==
  ASSUME TypeOK, Names, Handed, NEW t \in Threads, StoreNew(t), ~raced'
  PROVE  Handed'
<1> DEFINE h == HandOf(carrying[t])
<1>0. live \subseteq Devices
  BY DEF TypeOK
<1>n. \A u \in Threads : Named(u)
  BY DEF Names
<1>1. pc[t] = "store" /\ pc'[t] = "delete" /\ \A u \in Threads : u # t => pc'[u] = pc[u]
  BY Moving DEF StoreNew
<1>2. h \in Hands /\ carrying[t] # None
  BY <1>n, <1>1, Carried, DeviceFacts DEF Busy, Setter
<1>3. \A g \in Hands : device'[g] = IF g = h THEN carrying[t] ELSE device[g]
  BY DEF StoreNew, TypeOK
<1>4. UNCHANGED <<carrying, old, driver, live, raced>> /\ driver[h] = "ready"
  BY DEF StoreNew, fixed, Usable
<1>6. Exclusive /\ Kept /\ (\A u \in Threads : Fresh(u) /\ Arrived(u) /\ Doomed(u))
      /\ \A d \in live : Placed(d)
  BY <1>4 DEF Handed
<1>7. old[t] = device[h] /\ carrying[t] \in live /\ carrying[t] # old[t]
  BY <1>1, <1>4, <1>6 DEF Arrived, Fresh, Setter
<1>8. \A u \in Threads : u # t /\ pc[u] \in Setter => HandOf(carrying[u]) # h
  BY <1>1, <1>6 DEF Exclusive, Setter
<1>9. Exclusive'
  <2>1. \A u \in Threads : pc'[u] \in Setter <=> pc[u] \in Setter
    BY <1>1 DEF Setter
  <2> QED
    BY <1>4, <1>6, <2>1 DEF Exclusive
<1>10. Kept'
  BY <1>3, <1>4, <1>6, <1>7 DEF Kept
<1>11. ASSUME NEW u \in Threads PROVE Fresh(u)'
  <2> SUFFICES ASSUME pc'[u] \in {"lock", "read", "store"}
               PROVE  /\ carrying[u] \in live
                      /\ \A g \in Hands : carrying[u] # device'[g]
                      /\ \A v \in Threads : carrying[u] # old[v]
    BY <1>4 DEF Fresh
  <2>1. u # t /\ pc[u] = pc'[u]
    BY <1>1
  <2>2. carrying[u] # carrying[t]
    BY <1>n, <1>2, <2>1, CarriedApart
  <2> QED
    BY <1>3, <1>6, <2>1, <2>2 DEF Fresh
<1>12. ASSUME NEW u \in Threads PROVE Arrived(u)'
  <2>1. CASE u = t
    BY <1>1, <1>2, <1>3, <1>4, <2>1 DEF Arrived
  <2>2. CASE u # t
    <3> SUFFICES ASSUME pc'[u] \in Setter, driver[HandOf(carrying[u])] = "ready" PROVE Arrived(u)'
      BY <1>4 DEF Arrived
    <3>1. pc'[u] = pc[u] /\ HandOf(carrying[u]) # h
      BY <1>1, <1>8, <2>2
    <3>2. HandOf(carrying[u]) \in Hands
      BY <1>n, <3>1, Carried DEF Busy
    <3>3. device'[HandOf(carrying[u])] = device[HandOf(carrying[u])]
      BY <1>3, <3>1, <3>2
    <3> QED
      BY <1>4, <1>6, <3>1, <3>3 DEF Arrived
  <2> QED
    BY <2>1, <2>2
<1>13. ASSUME NEW u \in Threads PROVE Doomed(u)'
  <2> SUFFICES ASSUME pc'[u] = "delete", old[u] # None
               PROVE  old[u] \in live /\ \A g \in Hands : old[u] # device'[g]
    BY <1>4 DEF Doomed
  <2>1. CASE u = t
    <3>1. old[t] \in live
      BY <1>2, <1>6, <1>7, <2>1 DEF Kept
    <3>2. \A g \in Hands : g # h => device[g] # old[t]
      BY <1>2, <1>7, <2>1 DEF Names, Attached
    <3> QED
      BY <1>3, <1>7, <2>1, <3>1, <3>2
  <2>2. CASE u # t
    <3>1. pc[u] = "delete" /\ HandOf(carrying[u]) # h
      BY <1>1, <1>8, <2>2 DEF Setter
    <3>2. HandOf(old[u]) # h
      BY <1>n, <3>1 DEF Named
    <3> QED
      BY <1>3, <1>6, <3>1, <3>2 DEF Doomed
  <2> QED
    BY <2>1, <2>2
<1>14. ASSUME NEW d \in live PROVE Placed(d)'
  <2>1. \/ \E g \in Hands : d = device[g]
        \/ \E u \in Threads : d = carrying[u] \/ d = old[u]
    BY <1>6 DEF Placed
  <2>2. CASE d = device[h]
    BY <1>4, <1>7, <2>2 DEF Placed
  <2> QED
    BY <1>3, <1>4, <2>1, <2>2 DEF Placed
<1> QED
  BY <1>4, <1>9, <1>10, <1>11, <1>12, <1>13, <1>14 DEF Handed

LEMMA HandedByDeleting ==
  ASSUME TypeOK, Names, Handed, NEW t \in Threads, DeleteOld(t), ~raced'
  PROVE  Handed'
<1> DEFINE h == HandOf(carrying[t])
<1>0. old \in [Threads -> Devices \cup {None}] /\ live \subseteq Devices
  BY DEF TypeOK
<1>n. \A u \in Threads : Named(u)
  BY DEF Names
<1>1. pc[t] = "delete" /\ pc'[t] = "listen" /\ \A u \in Threads : u # t => pc'[u] = pc[u]
  BY Moving DEF DeleteOld
<1>2. UNCHANGED <<carrying, device, driver, raced>> /\ driver[h] = "ready"
  BY DEF DeleteOld, fixed, Usable
<1>3. old'[t] = None /\ \A u \in Threads : u # t => old'[u] = old[u]
  BY <1>0 DEF DeleteOld
<1>4. live' = live \ {old[t]}
  BY DEF DeleteOld
<1>6. Exclusive /\ Kept /\ (\A u \in Threads : Fresh(u) /\ Arrived(u) /\ Doomed(u))
      /\ \A d \in live : Placed(d)
  BY <1>2 DEF Handed
<1>7. \A g \in Hands : device[g] # None => device[g] # old[t]
  BY <1>1, <1>6 DEF Doomed
<1>9. Exclusive'
  <2>1. \A u \in Threads : pc'[u] \in Setter <=> pc[u] \in Setter
    BY <1>1 DEF Setter
  <2> QED
    BY <1>2, <1>6, <2>1 DEF Exclusive
<1>10. Kept'
  BY <1>2, <1>4, <1>6, <1>7 DEF Kept
<1>11. ASSUME NEW u \in Threads PROVE Fresh(u)'
  <2> SUFFICES ASSUME pc'[u] \in {"lock", "read", "store"}
               PROVE  /\ carrying[u] \in live'
                      /\ \A g \in Hands : carrying[u] # device[g]
                      /\ \A v \in Threads : carrying[u] # old'[v]
    BY <1>2 DEF Fresh
  <2>1. u # t /\ pc[u] = pc'[u]
    BY <1>1
  <2>2. carrying[u] # None
    BY <1>n, <2>1 DEF Named, Busy, Setter
  <2> QED
    BY <1>3, <1>4, <1>6, <2>1, <2>2 DEF Fresh
<1>12. ASSUME NEW u \in Threads PROVE Arrived(u)'
  <2>1. CASE u = t
    BY <1>1, <1>2, <1>6, <2>1 DEF Arrived, Setter
  <2>2. CASE u # t
    BY <1>1, <1>2, <1>3, <1>6, <2>2 DEF Arrived
  <2> QED
    BY <2>1, <2>2
<1>13. ASSUME NEW u \in Threads PROVE Doomed(u)'
  <2> SUFFICES ASSUME pc'[u] = "delete", old'[u] # None
               PROVE  old'[u] \in live' /\ \A g \in Hands : old'[u] # device[g]
    BY <1>2 DEF Doomed
  <2>1. u # t /\ pc[u] = "delete" /\ old'[u] = old[u]
    BY <1>1, <1>3
  <2>2. HandOf(carrying[u]) # h
    BY <1>1, <1>6, <2>1 DEF Exclusive, Setter
  <2>3. old[t] # None => old[u] # old[t]
    BY <1>n, <2>1, <2>2 DEF Named
  <2>4. old[u] \in live /\ \A g \in Hands : old[u] # device[g]
    BY <1>6, <2>1 DEF Doomed
  <2>5. old[u] # old[t]
    BY <2>1, <2>3
  <2> QED
    BY <1>4, <2>1, <2>4, <2>5
<1>14. ASSUME NEW d \in live' PROVE Placed(d)'
  <2>1. d # old[t] /\ Placed(d)
    BY <1>4, <1>6
  <2> QED
    BY <1>2, <1>3, <2>1 DEF Placed
<1> QED
  BY <1>9, <1>10, <1>11, <1>12, <1>13, <1>14 DEF Handed

LEMMA HandedByListening ==
  ASSUME TypeOK, Names, Handed, NEW t \in Threads, Listen(t), ~raced'
  PROVE  Handed'
<1> DEFINE h == HandOf(carrying[t])
<1>0. carrying \in [Threads -> Devices \cup {None}] /\ live \subseteq Devices
  BY DEF TypeOK
<1>n. \A u \in Threads : Named(u)
  BY DEF Names
<1>1. /\ pc[t] = "listen" /\ pc'[t] \in {"pipes", "sleep"}
      /\ \A u \in Threads : u # t => pc'[u] = pc[u]
  BY Moving DEF Listen
<1>2. UNCHANGED <<old, device, driver, live, raced>> /\ driver[h] = "ready"
  BY DEF Listen, fixed, Usable
<1>3. carrying'[t] = None /\ \A u \in Threads : u # t => carrying'[u] = carrying[u]
  BY <1>0 DEF Listen
<1>6. Exclusive /\ Kept /\ (\A u \in Threads : Fresh(u) /\ Arrived(u) /\ Doomed(u))
      /\ \A d \in live : Placed(d)
  BY <1>2 DEF Handed
<1>7. h \in Hands /\ device[h] = carrying[t]
  BY <1>n, <1>1, <1>2, <1>6, Carried DEF Arrived, Busy, Setter
<1>8. pc'[t] \notin {"lock", "read"} \cup Setter
  BY <1>1 DEF Setter
<1>9. Exclusive'
  BY <1>1, <1>3, <1>6, <1>8 DEF Exclusive
<1>10. Kept'
  BY <1>2, <1>6 DEF Kept
<1>11. ASSUME NEW u \in Threads PROVE Fresh(u)' /\ Arrived(u)' /\ Doomed(u)'
  <2>1. CASE u = t
    BY <1>1, <1>8, <2>1 DEF Fresh, Arrived, Doomed, Setter
  <2>2. CASE u # t
    <3>1. pc'[u] = pc[u] /\ carrying'[u] = carrying[u]
      BY <1>1, <1>3, <2>2
    <3> QED
      BY <1>2, <1>6, <3>1 DEF Fresh, Arrived, Doomed
  <2> QED
    BY <2>1, <2>2
<1>12. ASSUME NEW d \in live PROVE Placed(d)'
  BY <1>2, <1>3, <1>6, <1>7 DEF Placed
<1> QED
  BY <1>2, <1>9, <1>10, <1>11, <1>12 DEF Handed

\* A new device that a thread outside the callback picks up.
LEMMA HandedByPickingUp ==
  ASSUME TypeOK, Names, Handed, NEW t \in Threads, NEW d \in Devices, ~Known(d), ~raced',
         pc[t] \in {"inquire", "pipes"}, pc'[t] \in {"lock", "read"},
         \A u \in Threads : u # t => pc'[u] = pc[u],
         carrying'[t] = d, \A u \in Threads : u # t => carrying'[u] = carrying[u],
         live' = live \cup {d}, UNCHANGED <<old, device, driver, raced>>
  PROVE  Handed'
<1>n. \A u \in Threads : Named(u)
  BY DEF Names
<1>6. Exclusive /\ Kept /\ (\A u \in Threads : Fresh(u) /\ Arrived(u) /\ Doomed(u))
      /\ \A e \in live : Placed(e)
  BY DEF Handed
<1>1. pc[t] \notin {"lock", "read"} \cup Setter /\ pc'[t] \notin Setter
  BY DEF Setter
<1>2. carrying[t] = None
  BY <1>n, <1>1 DEF Named, Busy
<1>3. d # None
  BY DeviceFacts
<1>4. (\A g \in Hands : d # device[g]) /\ \A u \in Threads : d # old[u]
  BY <1>3 DEF Names, AllKnown
<1>9. Exclusive'
  BY <1>1, <1>6 DEF Exclusive
<1>10. Kept'
  BY <1>6 DEF Kept
<1>11. ASSUME NEW u \in Threads PROVE Fresh(u)' /\ Arrived(u)' /\ Doomed(u)'
  <2>1. CASE u = t
    BY <1>1, <1>4, <2>1 DEF Fresh, Arrived, Doomed, Setter
  <2>2. CASE u # t
    <3>1. pc'[u] = pc[u] /\ carrying'[u] = carrying[u]
      BY <2>2
    <3> QED
      BY <1>6, <3>1 DEF Fresh, Arrived, Doomed
  <2> QED
    BY <2>1, <2>2
<1>12. ASSUME NEW e \in live' PROVE Placed(e)'
  <2>1. CASE e = d
    BY <2>1 DEF Placed
  <2>2. CASE e # d
    <3>1. Placed(e) /\ e # None
      BY <1>6, <2>2, DeviceFacts DEF TypeOK
    <3> QED
      BY <1>2, <3>1 DEF Placed
  <2> QED
    BY <2>1, <2>2
<1> QED
  BY <1>9, <1>10, <1>11, <1>12 DEF Handed

LEMMA HandedByFinding ==
  ASSUME TypeOK, Names, Handed, NEW p \in Probers, Found(p), ~raced'
  PROVE  Handed'
<1>1. PICK d : d = Latest(p)'
  OBVIOUS
<1>2. carrying \in [Threads -> Devices \cup {None}]
  BY DEF TypeOK
<1>3. d \in Devices
  <2>1. found[p] \in Nat /\ found'[p] = found[p] + 1
    BY DEF Found, TypeOK
  <2> QED
    BY <1>1, <2>1, LatestFacts DEF Latest
<1>4. ~Known(d)
  BY <1>1, NamesByFinding
<1>5. pc[p] = "inquire" /\ pc'[p] = "lock" /\ \A u \in Threads : u # p => pc'[u] = pc[u]
  BY ThreadFacts, Moving DEF Found
<1>6. carrying'[p] = d /\ \A u \in Threads : u # p => carrying'[u] = carrying[u]
  BY <1>1, <1>2, ThreadFacts DEF Found
<1>7. live' = live \cup {d} /\ UNCHANGED <<old, device, driver, raced>>
  BY <1>1 DEF Found, fixed
<1> QED
  BY <1>3, <1>4, <1>5, <1>6, <1>7, ThreadFacts, HandedByPickingUp

LEMMA HandedByPipe ==
  ASSUME TypeOK, Names, Handed, NEW h \in Hands, DeliverPipe(h), ~raced'
  PROVE  Handed'
<1>1. PICK d : d = <<"pipe", h, 1>>
  OBVIOUS
<1>2. carrying \in [Threads -> Devices \cup {None}]
  BY DEF TypeOK
<1>3. d \in Devices /\ ~Known(d)
  BY <1>1, DeviceFacts, NamesByPipe
<1>5. /\ pc[Provider] = "pipes" /\ pc'[Provider] = "read"
      /\ \A u \in Threads : u # Provider => pc'[u] = pc[u]
  BY ThreadFacts, Moving DEF DeliverPipe
<1>6. carrying'[Provider] = d /\ \A u \in Threads : u # Provider => carrying'[u] = carrying[u]
  BY <1>1, <1>2, ThreadFacts DEF DeliverPipe
<1>7. live' = live \cup {d} /\ UNCHANGED <<old, device, driver, raced>>
  BY <1>1 DEF DeliverPipe
<1> QED
  BY <1>3, <1>5, <1>6, <1>7, ThreadFacts, HandedByPickingUp

LEMMA HandedByDropping ==
  ASSUME TypeOK, Names, Handed, DropPipe, ~raced'
  PROVE  Handed'
<1> DEFINE d == carrying[Provider]
<1>0. carrying \in [Threads -> Devices \cup {None}] /\ live \subseteq Devices
  BY DEF TypeOK
<1>n. \A u \in Threads : Named(u)
  BY DEF Names
<1>1. /\ pc[Provider] = "read" /\ pc'[Provider] = "pipes"
      /\ \A u \in Threads : u # Provider => pc'[u] = pc[u]
  BY ThreadFacts, Moving DEF DropPipe
<1>2. carrying'[Provider] = None /\ \A u \in Threads : u # Provider => carrying'[u] = carrying[u]
  BY <1>0, ThreadFacts DEF DropPipe
<1>3. live' = live \ {d} /\ UNCHANGED <<old, device, driver, raced>>
  BY DEF DropPipe, fixed
<1>6. Exclusive /\ Kept /\ (\A u \in Threads : Fresh(u) /\ Arrived(u) /\ Doomed(u))
      /\ \A e \in live : Placed(e)
  BY <1>3 DEF Handed
<1>4. d # None /\ (\A g \in Hands : d # device[g]) /\ \A u \in Threads : d # old[u]
  BY <1>n, <1>1, <1>6, ThreadFacts DEF Fresh, Named, Busy
<1>5. pc'[Provider] \notin {"lock", "read"} \cup Setter
  BY <1>1 DEF Setter
<1>9. Exclusive'
  BY <1>1, <1>2, <1>5, <1>6 DEF Exclusive
<1>10. Kept'
  BY <1>3, <1>4, <1>6 DEF Kept
<1>11. ASSUME NEW u \in Threads PROVE Fresh(u)' /\ Arrived(u)' /\ Doomed(u)'
  <2>1. CASE u = Provider
    BY <1>1, <1>5, <2>1 DEF Fresh, Arrived, Doomed, Setter
  <2>2. CASE u # Provider
    <3>1. pc'[u] = pc[u] /\ carrying'[u] = carrying[u]
      BY <1>1, <1>2, <2>2
    <3>2. carrying[u] # d
      BY <1>n, <1>4, <2>2, ThreadFacts, CarriedApart
    <3>3. Fresh(u)'
      BY <1>3, <1>6, <3>1, <3>2 DEF Fresh
    <3>4. Arrived(u)'
      BY <1>3, <1>6, <3>1 DEF Arrived
    <3>5. Doomed(u)'
      BY <1>3, <1>4, <1>6, <3>1 DEF Doomed
    <3> QED
      BY <3>3, <3>4, <3>5
  <2> QED
    BY <2>1, <2>2
<1>12. ASSUME NEW e \in live' PROVE Placed(e)'
  <2>1. Placed(e) /\ e # d
    BY <1>3, <1>6
  <2> QED
    BY <1>2, <1>3, <2>1 DEF Placed
<1> QED
  BY <1>9, <1>10, <1>11, <1>12 DEF Handed

LEMMA HandedByDeactivation ==
  ASSUME TypeOK, Names, Handed, NEW h \in Hands, Deactivate(h), ~raced'
  PROVE  Handed'
<1>0. live \subseteq Devices
  BY DEF TypeOK
<1>n. \A u \in Threads : Named(u)
  BY DEF Names
<1>1. UNCHANGED <<pc, carrying, old, raced>> /\ live' = live \ {device[h]}
  BY DEF Deactivate
<1>2. /\ DOMAIN driver = Hands
      /\ \A g \in Hands : /\ driver'[g] = IF g = h THEN "deactivated" ELSE driver[g]
                          /\ device'[g] = IF g = h THEN None ELSE device[g]
  BY DEF TypeOK, Deactivate
<1>6. Exclusive /\ Kept /\ (\A u \in Threads : Fresh(u) /\ Arrived(u) /\ Doomed(u))
      /\ \A e \in live : Placed(e)
  BY <1>1 DEF Handed
<1>9. Exclusive'
  BY <1>1, <1>6 DEF Exclusive
<1>10. Kept'
  <2> SUFFICES ASSUME NEW g \in Hands PROVE device'[g] \in live' \cup {None}
    BY DEF Kept
  <2>1. CASE g = h
    BY <1>2, <2>1
  <2>2. CASE g # h
    <3>1. device[g] # None => device[g] # device[h]
      BY <2>2 DEF Names, Attached
    <3> QED
      BY <1>1, <1>2, <1>6, <2>2, <3>1 DEF Kept
  <2> QED
    BY <2>1, <2>2
<1>11. ASSUME NEW u \in Threads PROVE Fresh(u)'
  <2> SUFFICES ASSUME pc[u] \in {"lock", "read", "store"}
               PROVE  /\ carrying[u] \in live'
                      /\ \A g \in Hands : carrying[u] # device'[g]
                      /\ \A v \in Threads : carrying[u] # old[v]
    BY <1>1 DEF Fresh
  <2>1. carrying[u] # None
    BY <1>n DEF Named, Busy, Setter
  <2>2. Fresh(u)
    BY <1>6
  <2> QED
    BY <1>1, <1>2, <2>1, <2>2 DEF Fresh
<1>12. ASSUME NEW u \in Threads PROVE Arrived(u)'
  <2> SUFFICES ASSUME pc[u] \in Setter, driver'[HandOf(carrying[u])] = "ready" PROVE Arrived(u)'
    BY <1>1 DEF Arrived
  <2>1. HandOf(carrying[u]) \in Hands
    BY <1>n, Carried DEF Busy
  <2>2. /\ driver[HandOf(carrying[u])] = "ready"
        /\ device'[HandOf(carrying[u])] = device[HandOf(carrying[u])]
    BY <1>2, <2>1
  <2> QED
    BY <1>1, <1>6, <2>2 DEF Arrived
<1>13. ASSUME NEW u \in Threads PROVE Doomed(u)'
  <2>1. Doomed(u)
    BY <1>6
  <2> QED
    BY <1>1, <1>2, <2>1 DEF Doomed
<1>14. ASSUME NEW e \in live' PROVE Placed(e)'
  <2>1. Placed(e) /\ e # device[h]
    BY <1>1, <1>6
  <2> QED
    BY <1>1, <1>2, <2>1 DEF Placed
<1> QED
  BY <1>9, <1>10, <1>11, <1>12, <1>13, <1>14 DEF Handed

--------------------------------------------------------------------------------
(* Every step keeps the invariant.                                             *)

LEMMA CrashedByHandover ==
  ASSUME TypeOK, Names, Locked, Handed, NEW t \in Threads, NEW at, NEW alive,
         Crash(t, at, alive), at \in {"read"} \cup Setter,
         at = "delete" => alive = (old[t] \in live \cup {None}),
         at = "listen" => alive = (device[HandOf(carrying[t])] \in live),
         at \in {"read", "store"} => alive
  PROVE  CrashNeedsARace'
<1> DEFINE h == HandOf(carrying[t])
<1>n. Named(t)
  BY DEF Names
<1>1. pc[t] = at /\ UNCHANGED <<pc, raced, driver>> /\ driver[h] # "none" /\ ~Usable(t, alive)
  BY DEF Crash, handover, fixed
<1>2. h \in Hands /\ carrying[t] \in Devices /\ carrying[t] # None
  BY <1>n, <1>1, Carried, DeviceFacts DEF Busy
<1>3. CASE driver[h] # "ready"
  <2>1. driver[h] = "deactivated"
    BY <1>1, <1>2, <1>3 DEF TypeOK
  <2>2. pc[Provider] # "stopped"
    <3>1. CASE t = Provider
      BY <1>1, <3>1 DEF Setter
    <3>2. CASE t \in Probers
      BY <1>1, <3>2 DEF Locked, Setter
    <3> QED
      BY <3>1, <3>2, ThreadFacts
  <2> QED
    BY <1>1, <1>2, <2>1, <2>2 DEF CrashNeedsARace
<1>4. CASE driver[h] = "ready" /\ ~raced
  <2>1. Kept /\ Arrived(t) /\ Doomed(t)
    BY <1>4 DEF Handed
  <2>2. ~alive
    BY <1>1, <1>4 DEF Usable
  <2>3. CASE at = "delete"
    BY <1>1, <2>1, <2>2, <2>3 DEF Doomed
  <2>4. CASE at = "listen"
    <3>1. device[h] = carrying[t]
      BY <1>1, <1>4, <2>1, <2>4 DEF Arrived, Setter
    <3>2. device[h] \in live
      BY <1>2, <2>1, <3>1 DEF Kept
    <3> QED
      BY <2>2, <2>4, <3>2
  <2> QED
    BY <2>2, <2>3, <2>4 DEF Setter
<1> QED
  BY <1>1, <1>3, <1>4 DEF CrashNeedsARace

LEMMA SetterInvariant ==
  ASSUME IInv, NEW t \in Threads, SetDeviceDriver(t), ~crashed
  PROVE  (Names /\ Handed /\ CrashNeedsARace)'
<1>1. TypeOK /\ Names /\ Locked /\ Handed
  BY DEF IInv
<1>2. CASE ReadOld(t) \/ StoreNew(t) \/ DeleteOld(t) \/ Listen(t)
  <2>1. UNCHANGED crashed
    BY <1>2 DEF ReadOld, StoreNew, DeleteOld, Listen
  <2>2. Names'
    BY <1>1, <2>1, NamesByHandover
  <2>3. Handed'
    <3>1. CASE ~raced'
      BY <1>1, <1>2, <3>1, HandedByReading, HandedByStoring, HandedByDeleting, HandedByListening
    <3>2. CASE raced'
      BY <3>2 DEF Handed
    <3> QED
      BY <3>1, <3>2
  <2>4. CrashNeedsARace'
    BY <2>1 DEF CrashNeedsARace
  <2> QED
    BY <2>2, <2>3, <2>4
<1>3. ASSUME NEW at, NEW alive, Crash(t, at, alive) PROVE Names' /\ Handed'
  <2>1. UNCHANGED <<pc, handover, found, fixed, live>>
    BY <1>3 DEF Crash
  <2>2. Quiet
    BY <2>1 DEF Quiet, fixed
  <2> QED
    BY <1>1, <2>1, <2>2, QuietNames, QuietHanded DEF fixed
<1>4. CASE Crash(t, "read", TRUE)
  BY <1>1, <1>3, <1>4, CrashedByHandover
<1>5. CASE Crash(t, "store", TRUE)
  BY <1>1, <1>3, <1>5, CrashedByHandover DEF Setter
<1>6. CASE Crash(t, "delete", old[t] \in live \cup {None})
  BY <1>1, <1>3, <1>6, CrashedByHandover DEF Setter
<1>7. CASE Crash(t, "listen", device[HandOf(carrying[t])] \in live)
  BY <1>1, <1>3, <1>7, CrashedByHandover DEF Setter
<1> QED
  BY <1>2, <1>4, <1>5, <1>6, <1>7 DEF SetDeviceDriver

LEMMA NextInvariant == IInv /\ [Next]_vars => IInv'
<1> SUFFICES ASSUME IInv, [Next]_vars PROVE IInv'
  OBVIOUS
<1>1. TypeOK /\ Names /\ Locked /\ Handed /\ CrashNeedsARace
  BY DEF IInv
<1>2. CASE Next
  <2>1. TypeOK'
    BY <1>1, <1>2, StartingTypes, EndingTypes, ProberTypes DEF Next
  <2>2. Locked'
    BY <1>1, <1>2, NextLocked
  <2>3. ~crashed
    BY <1>2 DEF Next
  <2>4. CASE Quiet /\ UNCHANGED <<found, piped, crashed>>
    <3>1. Names' /\ Handed'
      BY <1>1, <2>4, QuietNames, QuietHanded
    <3> QED
      BY <2>1, <2>2, <2>3, <2>4, <3>1 DEF IInv, CrashNeedsARace
  <2>5. ASSUME NEW p \in Probers, Found(p) PROVE IInv'
    <3>1. Names'
      BY <1>1, <2>5, NamesByFinding
    <3>2. Handed'
      BY <1>1, <2>5, HandedByFinding DEF Handed
    <3>3. ~crashed'
      BY <2>3, <2>5 DEF Found
    <3> QED
      BY <2>1, <2>2, <3>1, <3>2, <3>3 DEF IInv, CrashNeedsARace
  <2>6. ASSUME NEW h \in Hands, DeliverPipe(h) PROVE IInv'
    <3>1. Names'
      BY <1>1, <2>6, NamesByPipe
    <3>2. Handed'
      BY <1>1, <2>6, HandedByPipe DEF Handed
    <3>3. ~crashed'
      BY <2>3, <2>6 DEF DeliverPipe
    <3> QED
      BY <2>1, <2>2, <3>1, <3>2, <3>3 DEF IInv, CrashNeedsARace
  <2>7. CASE DropPipe
    <3>1. Names'
      BY <1>1, <2>7, NamesByDrop
    <3>2. Handed'
      BY <1>1, <2>7, HandedByDropping DEF Handed
    <3>3. ~crashed'
      BY <2>3, <2>7 DEF DropPipe
    <3> QED
      BY <2>1, <2>2, <3>1, <3>2, <3>3 DEF IInv, CrashNeedsARace
  <2>8. ASSUME NEW h \in Hands, Deactivate(h) PROVE IInv'
    <3>1. Names'
      BY <1>1, <2>8, NamesByDeactivation
    <3>2. Handed'
      BY <1>1, <2>8, HandedByDeactivation DEF Handed
    <3>3. ~raced => ~crashed'
      BY <1>1, <2>8 DEF Deactivate, Handed, Kept
    <3>4. UNCHANGED raced
      BY <2>8 DEF Deactivate
    <3>5. CrashNeedsARace'
      BY <3>3, <3>4 DEF CrashNeedsARace
    <3> QED
      BY <2>1, <2>2, <3>1, <3>2, <3>5 DEF IInv
  <2>9. ASSUME NEW t \in Threads, SetDeviceDriver(t) PROVE IInv'
    BY <2>1, <2>2, <2>3, <2>9, SetterInvariant DEF IInv
  <2> QED
    BY <1>1, <1>2, <2>4, <2>5, <2>6, <2>7, <2>8, <2>9, StepKinds
<1>3. CASE UNCHANGED vars
  <2>1. Quiet /\ UNCHANGED <<found, piped, crashed, mutex>> /\ UNCHANGED <<raced, driver, pc>>
    BY <1>3 DEF vars, Quiet, handover
  <2>2. Names' /\ Handed'
    BY <1>1, <2>1, QuietNames, QuietHanded
  <2>3. Locked'
    BY <1>1, <2>1, StayLocked
  <2>4. CrashNeedsARace'
    BY <1>1, <2>1 DEF CrashNeedsARace
  <2>5. TypeOK'
    BY <1>1, <1>3 DEF TypeOK, vars
  <2> QED
    BY <2>2, <2>3, <2>4, <2>5 DEF IInv
<1> QED
  BY <1>2, <1>3

LEMMA Invariance == Spec => []IInv
BY InitInvariant, NextInvariant, PTL DEF Spec

--------------------------------------------------------------------------------
(* The theorems.                                                               *)

\* The variables keep their types, whichever threads run when and whichever gloves
\* come and go.
THEOREM TypeCorrect == Spec => []TypeOK
<1>1. IInv => TypeOK
  BY DEF IInv
<1> QED
  BY <1>1, Invariance, PTL

\* However many gloves, drivers and transports there are, a freed device or an ended
\* driver is used only after a race of Init with a prober, or in the time between
\* SteamVR's Deactivate and the end of Cleanup.
THEOREM CrashesNeedARace == Spec => []CrashNeedsARace
<1>1. IInv => CrashNeedsARace
  BY DEF IInv
<1> QED
  BY <1>1, Invariance, PTL

\* And without such a race every device is a driver's, on its way to one, or about
\* to be deleted, and none of these has been deleted already unless its driver was
\* deactivated under a thread: SetDeviceDriver neither leaks a device nor deletes one
\* twice.
THEOREM NoDeviceIsLost == Spec => []DevicesAreOwned
<1>1. IInv => DevicesAreOwned
  <2> SUFFICES ASSUME IInv, ~raced, ~crashed
               PROVE  /\ live \subseteq Owned
                      /\ (\A h \in Hands : driver[h] = "deactivated" => Inside(h) = {}) =>
                           Owned \ {None} \subseteq live
    BY DEF DevicesAreOwned
  <2>1. /\ Kept /\ (\A t \in Threads : Fresh(t) /\ Arrived(t) /\ Doomed(t))
        /\ \A d \in live : Placed(d)
    BY DEF IInv, Handed
  <2>2. live \subseteq Devices /\ \A t \in Threads : Named(t)
    BY DEF IInv, TypeOK, Names
  <2>3. live \subseteq Owned
    <3> SUFFICES ASSUME NEW d \in live PROVE d \in Owned
      OBVIOUS
    <3>1. Placed(d) /\ d # None
      BY <2>1, <2>2, DeviceFacts
    <3> QED
      BY <3>1 DEF Placed, Owned, InHand
  <2>4. ASSUME \A h \in Hands : driver[h] = "deactivated" => Inside(h) = {}
        PROVE  Owned \ {None} \subseteq live
    <3>1. \A h \in Hands : device[h] # None => device[h] \in live
      BY <2>1 DEF Kept
    <3>2. ASSUME NEW t \in Threads, carrying[t] # None PROVE carrying[t] \in live
      <4>1. Busy(t)
        BY <2>2, <3>2 DEF Named
      <4>2. CASE pc[t] \in {"lock", "read", "store"}
        BY <2>1, <4>2 DEF Fresh
      <4>3. CASE pc[t] \in {"delete", "listen"}
        <5>1. pc[t] \in Setter
          BY <4>3 DEF Setter
        <5>2. HandOf(carrying[t]) \in Hands /\ driver[HandOf(carrying[t])] # "none"
          BY <2>2, <4>1, <5>1, Carried DEF IInv, Named
        <5>3. driver[HandOf(carrying[t])] # "deactivated"
          BY <2>4, <5>1, <5>2 DEF Inside
        <5>4. driver[HandOf(carrying[t])] = "ready"
          BY <5>2, <5>3 DEF IInv, TypeOK
        <5>5. device[HandOf(carrying[t])] = carrying[t]
          BY <2>1, <4>3, <5>1, <5>4 DEF Arrived
        <5> QED
          BY <3>1, <3>2, <5>2, <5>5
      <4> QED
        BY <4>1, <4>2, <4>3 DEF Busy, Setter
    <3>3. ASSUME NEW t \in Threads, old[t] # None PROVE old[t] \in live
      <4>1. pc[t] \in {"store", "delete"} /\ HandOf(old[t]) = HandOf(carrying[t])
        BY <2>2, <3>3 DEF Named
      <4>2. CASE pc[t] = "delete"
        BY <2>1, <3>3, <4>2 DEF Doomed
      <4>3. CASE pc[t] = "store"
        <5>1. pc[t] \in Setter
          BY <4>3 DEF Setter
        <5>2. HandOf(carrying[t]) \in Hands /\ driver[HandOf(carrying[t])] # "none"
          BY <2>2, <5>1, Carried DEF IInv, Named, Busy
        <5>3. driver[HandOf(carrying[t])] # "deactivated"
          BY <2>4, <5>1, <5>2 DEF Inside
        <5>4. driver[HandOf(carrying[t])] = "ready"
          BY <5>2, <5>3 DEF IInv, TypeOK
        <5>5. old[t] = device[HandOf(carrying[t])]
          BY <2>1, <4>3, <5>1, <5>4 DEF Arrived
        <5> QED
          BY <3>1, <3>3, <5>2, <5>5
      <4> QED
        BY <4>1, <4>2, <4>3
    <3> QED
      BY <3>1, <3>2, <3>3 DEF Owned, InHand
  <2> QED
    BY <2>3, <2>4
<1> QED
  BY <1>1, Invariance, PTL

================================================================================
