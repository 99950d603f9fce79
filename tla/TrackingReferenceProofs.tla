------------------------ MODULE TrackingReferenceProofs ------------------------
(* Machine-checked proofs about TrackingReference, for any hands, drivers and  *)
(* devices and any number of changes.                                          *)
EXTENDS TrackingReference, TLAPS

--------------------------------------------------------------------------------
(* The inductive invariant.                                                    *)

\* What a hand's thread posts is a device it has found.
Posting == {"post", "insert", "iterate", "deliver"}
Reports(h) == found[h] = last_found[h] /\ (thread[h] \in Posting => last_found[h] # 0)

\* The main thread gives a reference to a callback it has registered, and the one that
\* is stored, unless a handler stores another in between.
Registers ==
  /\ IF main \in {"replay", "store"} THEN adding \in callbacks ELSE adding = NoHand
  /\ main = "store" /\ ~raced => replayed = references[adding]

\* Only a registration under a running handler leaves it freed memory, and only that
\* ends the driver.
FreedByARace == dangling # {} \/ crashed => raced

\* The handler of hand h has stored the reference before it calls the callbacks; the
\* hand's own is one of them if it is registered by now; and a registered hand has
\* the reference that is stored, when neither its handler nor its registration runs.
Delivers(h) ==
  ~raced =>
    /\ thread[h] \in {"iterate", "deliver"} => references[h] = last_found[h]
    /\ thread[h] = "deliver" /\ h \in callbacks => h \in view[h]
    /\ controller_id[h] # 0 => references[h] # 0
    /\ h \in callbacks /\ adding # h /\ thread[h] \notin {"iterate", "deliver"} =>
         controller_id[h] = references[h]

IInv ==
  /\ TypeOK /\ Registers /\ FreedByARace
  /\ \A h \in Hands : Reports(h) /\ Delivers(h)

LEMMA InitInvariant == Init => IInv
<1> SUFFICES ASSUME Init PROVE IInv
  OBVIOUS
<1>1. TypeOK
  <2>1. 0 \in MaybeId /\ 0 \in 0 .. MaxChanges
    BY BoundAssumption DEF MaybeId
  <2> QED
    BY <2>1 DEF Init, TypeOK
<1> QED
  BY <1>1 DEF IInv, Init, Registers, FreedByARace, Reports, Delivers, Posting

--------------------------------------------------------------------------------
(* Every step keeps each part of it.                                           *)

LEMMA NextTypeOK ==
  ASSUME TypeOK, Registers, Next
  PROVE  TypeOK'
<1>1. CASE StartServer
  BY <1>1 DEF StartServer, driverVars, overlayVars, TypeOK, MaybeId
<1>2. CASE CreateOverlay
  BY <1>2 DEF CreateOverlay, Constructing, driverVars, overlayVars, TypeOK, MaybeId
<1>3. ASSUME NEW g \in Drivers, AddCallback(g) PROVE TypeOK'
  BY <1>3 DEF AddCallback, driverVars, overlayVars, TypeOK, MaybeId
<1>4. CASE ReadReference
  <2>1. adding \in Hands /\ callbacks \subseteq Drivers
    BY <1>4, DriversAssumption DEF TypeOK, Registers, ReadReference
  <2>2. replayed' \in MaybeId
    BY <1>4, <2>1 DEF TypeOK, ReadReference
  <2>3. /\ main' \in {"running", "add", "store"}
        /\ adding' = NoHand \/ adding' = adding
    BY <1>4 DEF ReadReference, Constructing
  <2> QED
    BY <1>4, <2>2, <2>3 DEF ReadReference, TypeOK, overlayVars
<1>5. CASE ReplayReference
  BY <1>5 DEF ReplayReference, Constructing, driverVars, overlayVars, TypeOK, MaybeId
<1>6. CASE Cleanup
  BY <1>6 DEF Cleanup, driverVars, overlayVars, TypeOK, MaybeId
<1>7. CASE ServerListens
  BY <1>7 DEF ServerListens, driverVars, overlayVars, TypeOK, MaybeId
<1>8. ASSUME NEW g \in Hands, SpawnThread(g) PROVE TypeOK'
  BY <1>8 DEF SpawnThread, driverVars, overlayVars, TypeOK, MaybeId
<1>9. CASE SetActive
  BY <1>9 DEF SetActive, driverVars, overlayVars, TypeOK, MaybeId
<1>10. CASE Quit
  BY <1>10 DEF Quit, driverVars, overlayVars, TypeOK, MaybeId
<1>11. CASE Shutdown
  BY <1>11 DEF Shutdown, driverVars, overlayVars, TypeOK, MaybeId
<1>12. ASSUME NEW g \in Hands, TestActive(g) PROVE TypeOK'
  BY <1>12 DEF TestActive, Goes, driverVars, overlayVars, TypeOK, MaybeId
<1>13. ASSUME NEW g \in Hands, Scan(g) PROVE TypeOK'
  BY <1>13 DEF Scan, Goes, driverVars, overlayVars, TypeOK, MaybeId
<1>14. ASSUME NEW g \in Hands, Post(g) PROVE TypeOK'
  BY <1>14 DEF Post, Goes, driverVars, overlayVars, TypeOK, MaybeId
<1>15. ASSUME NEW g \in Hands, Sleep(g) PROVE TypeOK'
  BY <1>15 DEF Sleep, Goes, driverVars, overlayVars, TypeOK, MaybeId
<1>16. ASSUME NEW g \in Hands, Insert(g) PROVE TypeOK'
  BY <1>16 DEF Insert, Goes, driverVars, overlayVars, TypeOK, MaybeId
<1>17. ASSUME NEW g \in Hands, Iterate(g) PROVE TypeOK'
  BY <1>17 DEF Iterate, Goes, driverVars, overlayVars, TypeOK, MaybeId
<1>18. ASSUME NEW g \in Hands, Deliver(g) PROVE TypeOK'
  BY <1>18 DEF Deliver, Goes, Forget, driverVars, overlayVars, TypeOK, MaybeId
<1>19. ASSUME NEW g \in Hands, DeliverNothing(g) PROVE TypeOK'
  BY <1>19 DEF DeliverNothing, Goes, Forget, driverVars, overlayVars, TypeOK, MaybeId
<1>20. ASSUME NEW g \in Hands, Crash(g) PROVE TypeOK'
  BY <1>20 DEF Crash, driverVars, overlayVars, TypeOK, MaybeId
<1>21. ASSUME NEW g \in Hands, ConnectionLost(g) PROVE TypeOK'
  BY <1>21 DEF ConnectionLost, driverVars, overlayVars, TypeOK, MaybeId
<1>22. ASSUME NEW g \in Hands, DevicesChange(g) PROVE TypeOK'
  <2>1. PICK i \in MaybeId : shown' = [shown EXCEPT ![g] = i]
    BY <1>22 DEF DevicesChange
  <2>2. shown' \in [Hands -> MaybeId]
    BY <2>1 DEF TypeOK
  <2>3. changes' \in 0 .. MaxChanges
    BY <1>22, BoundAssumption DEF DevicesChange, TypeOK
  <2>4. UNCHANGED <<driverVars, server, references, controller_id, overlayVars, thread, last_found, found,
                    view, dangling, refused, raced, crashed>>
    BY <1>22 DEF DevicesChange
  <2> QED
    BY <2>2, <2>3, <2>4 DEF driverVars, overlayVars, TypeOK
<1> QED
  BY <1>1, <1>2, <1>3, <1>4, <1>5, <1>6, <1>7, <1>8, <1>9, <1>10, <1>11,
     <1>12, <1>13, <1>14, <1>15, <1>16, <1>17, <1>18, <1>19, <1>20, <1>21, <1>22 DEF Next, Main, Overlay, Discovery

LEMMA NextReports ==
  ASSUME TypeOK, NEW h \in Hands, Reports(h), Next
  PROVE  Reports(h)'
<1>0. DOMAIN thread = Hands /\ DOMAIN found = Hands /\ DOMAIN last_found = Hands
  BY DEF TypeOK
<1>1. CASE StartServer
  BY <1>1, <1>0 DEF StartServer, driverVars, overlayVars, Reports, Posting
<1>2. CASE CreateOverlay
  BY <1>2, <1>0 DEF CreateOverlay, Constructing, driverVars, overlayVars, Reports, Posting
<1>3. ASSUME NEW g \in Drivers, AddCallback(g) PROVE Reports(h)'
  BY <1>3, <1>0 DEF AddCallback, driverVars, overlayVars, Reports, Posting
<1>4. CASE ReadReference
  BY <1>4, <1>0 DEF ReadReference, Constructing, driverVars, overlayVars, Reports, Posting
<1>5. CASE ReplayReference
  BY <1>5, <1>0 DEF ReplayReference, Constructing, driverVars, overlayVars, Reports, Posting
<1>6. CASE Cleanup
  BY <1>6, <1>0 DEF Cleanup, driverVars, overlayVars, Reports, Posting
<1>7. CASE ServerListens
  BY <1>7, <1>0 DEF ServerListens, driverVars, overlayVars, Reports, Posting
<1>8. ASSUME NEW g \in Hands, SpawnThread(g) PROVE Reports(h)'
  BY <1>8, <1>0 DEF SpawnThread, driverVars, overlayVars, Reports, Posting
<1>9. CASE SetActive
  BY <1>9, <1>0 DEF SetActive, driverVars, overlayVars, Reports, Posting
<1>10. CASE Quit
  BY <1>10, <1>0 DEF Quit, driverVars, overlayVars, Reports, Posting
<1>11. CASE Shutdown
  BY <1>11, <1>0 DEF Shutdown, driverVars, overlayVars, Reports, Posting
<1>12. ASSUME NEW g \in Hands, TestActive(g) PROVE Reports(h)'
  BY <1>12, <1>0 DEF TestActive, Goes, driverVars, overlayVars, Reports, Posting
<1>13. ASSUME NEW g \in Hands, Scan(g) PROVE Reports(h)'
  BY <1>13, <1>0 DEF Scan, Goes, driverVars, overlayVars, Reports, Posting
<1>14. ASSUME NEW g \in Hands, Post(g) PROVE Reports(h)'
  BY <1>14, <1>0 DEF Post, Goes, driverVars, overlayVars, Reports, Posting
<1>15. ASSUME NEW g \in Hands, Sleep(g) PROVE Reports(h)'
  BY <1>15, <1>0 DEF Sleep, Goes, driverVars, overlayVars, Reports, Posting
<1>16. ASSUME NEW g \in Hands, Insert(g) PROVE Reports(h)'
  BY <1>16, <1>0 DEF Insert, Goes, driverVars, overlayVars, Reports, Posting
<1>17. ASSUME NEW g \in Hands, Iterate(g) PROVE Reports(h)'
  BY <1>17, <1>0 DEF Iterate, Goes, driverVars, overlayVars, Reports, Posting
<1>18. ASSUME NEW g \in Hands, Deliver(g) PROVE Reports(h)'
  BY <1>18, <1>0 DEF Deliver, Goes, Forget, driverVars, overlayVars, Reports, Posting
<1>19. ASSUME NEW g \in Hands, DeliverNothing(g) PROVE Reports(h)'
  BY <1>19, <1>0 DEF DeliverNothing, Goes, Forget, driverVars, overlayVars, Reports, Posting
<1>20. ASSUME NEW g \in Hands, Crash(g) PROVE Reports(h)'
  BY <1>20, <1>0 DEF Crash, driverVars, overlayVars, Reports, Posting
<1>21. ASSUME NEW g \in Hands, ConnectionLost(g) PROVE Reports(h)'
  BY <1>21, <1>0 DEF ConnectionLost, driverVars, overlayVars, Reports, Posting
<1>22. ASSUME NEW g \in Hands, DevicesChange(g) PROVE Reports(h)'
  BY <1>22, <1>0 DEF DevicesChange, driverVars, overlayVars, Reports, Posting
<1> QED
  BY <1>1, <1>2, <1>3, <1>4, <1>5, <1>6, <1>7, <1>8, <1>9, <1>10, <1>11,
     <1>12, <1>13, <1>14, <1>15, <1>16, <1>17, <1>18, <1>19, <1>20, <1>21, <1>22 DEF Next, Main, Overlay, Discovery

LEMMA NextRegisters ==
  ASSUME TypeOK, Registers, Next
  PROVE  Registers'
<1>0. /\ DOMAIN references = Hands /\ callbacks \subseteq Drivers /\ Drivers \subseteq Hands
      /\ main \in {"server", "process", "add", "replay", "store", "running", "stopped"}
  BY DriversAssumption DEF TypeOK
<1>1. CASE StartServer
  BY <1>1, <1>0 DEF StartServer, driverVars, overlayVars, Registers
<1>2. CASE CreateOverlay
  BY <1>2, <1>0 DEF CreateOverlay, Constructing, driverVars, overlayVars, Registers
<1>3. ASSUME NEW g \in Drivers, AddCallback(g) PROVE Registers'
  BY <1>3, <1>0 DEF AddCallback, driverVars, overlayVars, Registers
<1>4. CASE ReadReference
  BY <1>4, <1>0 DEF ReadReference, Constructing, driverVars, overlayVars, Registers
<1>5. CASE ReplayReference
  BY <1>5, <1>0 DEF ReplayReference, Constructing, driverVars, overlayVars, Registers
<1>6. CASE Cleanup
  BY <1>6, <1>0 DEF Cleanup, driverVars, overlayVars, Registers
<1>7. CASE ServerListens
  BY <1>7, <1>0 DEF ServerListens, driverVars, overlayVars, Registers
<1>8. ASSUME NEW g \in Hands, SpawnThread(g) PROVE Registers'
  BY <1>8, <1>0 DEF SpawnThread, driverVars, overlayVars, Registers
<1>9. CASE SetActive
  BY <1>9, <1>0 DEF SetActive, driverVars, overlayVars, Registers
<1>10. CASE Quit
  BY <1>10, <1>0 DEF Quit, driverVars, overlayVars, Registers
<1>11. CASE Shutdown
  BY <1>11, <1>0 DEF Shutdown, driverVars, overlayVars, Registers
<1>12. ASSUME NEW g \in Hands, TestActive(g) PROVE Registers'
  BY <1>12, <1>0 DEF TestActive, Goes, driverVars, overlayVars, Registers
<1>13. ASSUME NEW g \in Hands, Scan(g) PROVE Registers'
  BY <1>13, <1>0 DEF Scan, Goes, driverVars, overlayVars, Registers
<1>14. ASSUME NEW g \in Hands, Post(g) PROVE Registers'
  BY <1>14, <1>0 DEF Post, Goes, driverVars, overlayVars, Registers
<1>15. ASSUME NEW g \in Hands, Sleep(g) PROVE Registers'
  BY <1>15, <1>0 DEF Sleep, Goes, driverVars, overlayVars, Registers
<1>16. ASSUME NEW g \in Hands, Insert(g) PROVE Registers'
  BY <1>16, <1>0 DEF Insert, Goes, driverVars, overlayVars, Registers
<1>17. ASSUME NEW g \in Hands, Iterate(g) PROVE Registers'
  BY <1>17, <1>0 DEF Iterate, Goes, driverVars, overlayVars, Registers
<1>18. ASSUME NEW g \in Hands, Deliver(g) PROVE Registers'
  BY <1>18, <1>0 DEF Deliver, Goes, Forget, driverVars, overlayVars, Registers
<1>19. ASSUME NEW g \in Hands, DeliverNothing(g) PROVE Registers'
  BY <1>19, <1>0 DEF DeliverNothing, Goes, Forget, driverVars, overlayVars, Registers
<1>20. ASSUME NEW g \in Hands, Crash(g) PROVE Registers'
  BY <1>20, <1>0 DEF Crash, driverVars, overlayVars, Registers
<1>21. ASSUME NEW g \in Hands, ConnectionLost(g) PROVE Registers'
  BY <1>21, <1>0 DEF ConnectionLost, driverVars, overlayVars, Registers
<1>22. ASSUME NEW g \in Hands, DevicesChange(g) PROVE Registers'
  BY <1>22, <1>0 DEF DevicesChange, driverVars, overlayVars, Registers
<1> QED
  BY <1>1, <1>2, <1>3, <1>4, <1>5, <1>6, <1>7, <1>8, <1>9, <1>10, <1>11,
     <1>12, <1>13, <1>14, <1>15, <1>16, <1>17, <1>18, <1>19, <1>20, <1>21, <1>22 DEF Next, Main, Overlay, Discovery

LEMMA NextFreed ==
  ASSUME TypeOK, FreedByARace, Next
  PROVE  FreedByARace'
<1>0. raced \in BOOLEAN /\ crashed \in BOOLEAN
  BY DEF TypeOK
<1>1. CASE StartServer
  BY <1>1, <1>0 DEF StartServer, driverVars, overlayVars, FreedByARace
<1>2. CASE CreateOverlay
  BY <1>2, <1>0 DEF CreateOverlay, Constructing, driverVars, overlayVars, FreedByARace
<1>3. ASSUME NEW g \in Drivers, AddCallback(g) PROVE FreedByARace'
  BY <1>3, <1>0 DEF AddCallback, driverVars, overlayVars, FreedByARace
<1>4. CASE ReadReference
  BY <1>4, <1>0 DEF ReadReference, Constructing, driverVars, overlayVars, FreedByARace
<1>5. CASE ReplayReference
  BY <1>5, <1>0 DEF ReplayReference, Constructing, driverVars, overlayVars, FreedByARace
<1>6. CASE Cleanup
  BY <1>6, <1>0 DEF Cleanup, driverVars, overlayVars, FreedByARace
<1>7. CASE ServerListens
  BY <1>7, <1>0 DEF ServerListens, driverVars, overlayVars, FreedByARace
<1>8. ASSUME NEW g \in Hands, SpawnThread(g) PROVE FreedByARace'
  BY <1>8, <1>0 DEF SpawnThread, driverVars, overlayVars, FreedByARace
<1>9. CASE SetActive
  BY <1>9, <1>0 DEF SetActive, driverVars, overlayVars, FreedByARace
<1>10. CASE Quit
  BY <1>10, <1>0 DEF Quit, driverVars, overlayVars, FreedByARace
<1>11. CASE Shutdown
  BY <1>11, <1>0 DEF Shutdown, driverVars, overlayVars, FreedByARace
<1>12. ASSUME NEW g \in Hands, TestActive(g) PROVE FreedByARace'
  BY <1>12, <1>0 DEF TestActive, Goes, driverVars, overlayVars, FreedByARace
<1>13. ASSUME NEW g \in Hands, Scan(g) PROVE FreedByARace'
  BY <1>13, <1>0 DEF Scan, Goes, driverVars, overlayVars, FreedByARace
<1>14. ASSUME NEW g \in Hands, Post(g) PROVE FreedByARace'
  BY <1>14, <1>0 DEF Post, Goes, driverVars, overlayVars, FreedByARace
<1>15. ASSUME NEW g \in Hands, Sleep(g) PROVE FreedByARace'
  BY <1>15, <1>0 DEF Sleep, Goes, driverVars, overlayVars, FreedByARace
<1>16. ASSUME NEW g \in Hands, Insert(g) PROVE FreedByARace'
  BY <1>16, <1>0 DEF Insert, Goes, driverVars, overlayVars, FreedByARace
<1>17. ASSUME NEW g \in Hands, Iterate(g) PROVE FreedByARace'
  BY <1>17, <1>0 DEF Iterate, Goes, driverVars, overlayVars, FreedByARace
<1>18. ASSUME NEW g \in Hands, Deliver(g) PROVE FreedByARace'
  BY <1>18, <1>0 DEF Deliver, Goes, Forget, driverVars, overlayVars, FreedByARace
<1>19. ASSUME NEW g \in Hands, DeliverNothing(g) PROVE FreedByARace'
  BY <1>19, <1>0 DEF DeliverNothing, Goes, Forget, driverVars, overlayVars, FreedByARace
<1>20. ASSUME NEW g \in Hands, Crash(g) PROVE FreedByARace'
  BY <1>20, <1>0 DEF Crash, driverVars, overlayVars, FreedByARace
<1>21. ASSUME NEW g \in Hands, ConnectionLost(g) PROVE FreedByARace'
  BY <1>21, <1>0 DEF ConnectionLost, driverVars, overlayVars, FreedByARace
<1>22. ASSUME NEW g \in Hands, DevicesChange(g) PROVE FreedByARace'
  BY <1>22, <1>0 DEF DevicesChange, driverVars, overlayVars, FreedByARace
<1> QED
  BY <1>1, <1>2, <1>3, <1>4, <1>5, <1>6, <1>7, <1>8, <1>9, <1>10, <1>11,
     <1>12, <1>13, <1>14, <1>15, <1>16, <1>17, <1>18, <1>19, <1>20, <1>21, <1>22 DEF Next, Main, Overlay, Discovery

LEMMA NextDelivers ==
  ASSUME TypeOK, Registers, FreedByARace, NEW h \in Hands, Reports(h), Delivers(h), Next
  PROVE  Delivers(h)'
<1>0. /\ DOMAIN thread = Hands /\ DOMAIN references = Hands /\ DOMAIN last_found = Hands
      /\ DOMAIN view = Hands /\ DOMAIN controller_id = Hands
      /\ callbacks \subseteq Hands /\ NoHand \notin Hands /\ raced \in BOOLEAN
  BY DriversAssumption, NoHandAssumption DEF TypeOK
<1>1. CASE StartServer
  BY <1>1, <1>0 DEF StartServer, driverVars, overlayVars, Delivers, Reports, Registers, FreedByARace, Posting
<1>2. CASE CreateOverlay
  BY <1>2, <1>0 DEF CreateOverlay, Constructing, driverVars, overlayVars, Delivers, Reports, Registers, FreedByARace, Posting
<1>3. ASSUME NEW g \in Drivers, AddCallback(g) PROVE Delivers(h)'
  BY <1>3, <1>0 DEF AddCallback, driverVars, overlayVars, Delivers, Reports, Registers, FreedByARace, Posting
<1>4. CASE ReadReference
  BY <1>4, <1>0 DEF ReadReference, Constructing, driverVars, overlayVars, Delivers, Reports, Registers, FreedByARace, Posting
<1>5. CASE ReplayReference
  BY <1>5, <1>0 DEF ReplayReference, Constructing, driverVars, overlayVars, Delivers, Reports, Registers, FreedByARace, Posting
<1>6. CASE Cleanup
  BY <1>6, <1>0 DEF Cleanup, driverVars, overlayVars, Delivers, Reports, Registers, FreedByARace, Posting
<1>7. CASE ServerListens
  BY <1>7, <1>0 DEF ServerListens, driverVars, overlayVars, Delivers, Reports, Registers, FreedByARace, Posting
<1>8. ASSUME NEW g \in Hands, SpawnThread(g) PROVE Delivers(h)'
  BY <1>8, <1>0 DEF SpawnThread, driverVars, overlayVars, Delivers, Reports, Registers, FreedByARace, Posting
<1>9. CASE SetActive
  BY <1>9, <1>0 DEF SetActive, driverVars, overlayVars, Delivers, Reports, Registers, FreedByARace, Posting
<1>10. CASE Quit
  BY <1>10, <1>0 DEF Quit, driverVars, overlayVars, Delivers, Reports, Registers, FreedByARace, Posting
<1>11. CASE Shutdown
  BY <1>11, <1>0 DEF Shutdown, driverVars, overlayVars, Delivers, Reports, Registers, FreedByARace, Posting
<1>12. ASSUME NEW g \in Hands, TestActive(g) PROVE Delivers(h)'
  BY <1>12, <1>0 DEF TestActive, Goes, driverVars, overlayVars, Delivers, Reports, Registers, FreedByARace, Posting
<1>13. ASSUME NEW g \in Hands, Scan(g) PROVE Delivers(h)'
  BY <1>13, <1>0 DEF Scan, Goes, driverVars, overlayVars, Delivers, Reports, Registers, FreedByARace, Posting
<1>14. ASSUME NEW g \in Hands, Post(g) PROVE Delivers(h)'
  BY <1>14, <1>0 DEF Post, Goes, driverVars, overlayVars, Delivers, Reports, Registers, FreedByARace, Posting
<1>15. ASSUME NEW g \in Hands, Sleep(g) PROVE Delivers(h)'
  BY <1>15, <1>0 DEF Sleep, Goes, driverVars, overlayVars, Delivers, Reports, Registers, FreedByARace, Posting
<1>16. ASSUME NEW g \in Hands, Insert(g) PROVE Delivers(h)'
  BY <1>16, <1>0 DEF Insert, Goes, driverVars, overlayVars, Delivers, Reports, Registers, FreedByARace, Posting
<1>17. ASSUME NEW g \in Hands, Iterate(g) PROVE Delivers(h)'
  BY <1>17, <1>0 DEF Iterate, Goes, driverVars, overlayVars, Delivers, Reports, Registers, FreedByARace, Posting
<1>18. ASSUME NEW g \in Hands, Deliver(g) PROVE Delivers(h)'
  BY <1>18, <1>0 DEF Deliver, Goes, Forget, driverVars, overlayVars, Delivers, Reports, Registers, FreedByARace, Posting
<1>19. ASSUME NEW g \in Hands, DeliverNothing(g) PROVE Delivers(h)'
  BY <1>19, <1>0 DEF DeliverNothing, Goes, Forget, driverVars, overlayVars, Delivers, Reports, Registers, FreedByARace, Posting
<1>20. ASSUME NEW g \in Hands, Crash(g) PROVE Delivers(h)'
  BY <1>20, <1>0 DEF Crash, driverVars, overlayVars, Delivers, Reports, Registers, FreedByARace, Posting
<1>21. ASSUME NEW g \in Hands, ConnectionLost(g) PROVE Delivers(h)'
  BY <1>21, <1>0 DEF ConnectionLost, driverVars, overlayVars, Delivers, Reports, Registers, FreedByARace, Posting
<1>22. ASSUME NEW g \in Hands, DevicesChange(g) PROVE Delivers(h)'
  BY <1>22, <1>0 DEF DevicesChange, driverVars, overlayVars, Delivers, Reports, Registers, FreedByARace, Posting
<1> QED
  BY <1>1, <1>2, <1>3, <1>4, <1>5, <1>6, <1>7, <1>8, <1>9, <1>10, <1>11,
     <1>12, <1>13, <1>14, <1>15, <1>16, <1>17, <1>18, <1>19, <1>20, <1>21, <1>22 DEF Next, Main, Overlay, Discovery

LEMMA NextInvariant == IInv /\ [Next]_vars => IInv'
<1> SUFFICES ASSUME IInv, [Next]_vars PROVE IInv'
  OBVIOUS
<1>1. CASE Next
  BY <1>1, NextTypeOK, NextReports, NextRegisters, NextFreed, NextDelivers DEF IInv
<1>2. CASE UNCHANGED vars
  BY <1>2 DEF vars, IInv, TypeOK, Reports, Registers, FreedByARace, Delivers
<1> QED
  BY <1>1, <1>2

LEMMA Invariance == Spec => []IInv
BY InitInvariant, NextInvariant, PTL DEF Spec

--------------------------------------------------------------------------------
(* The theorems.                                                               *)

\* The variables keep their types.
THEOREM TypeCorrect == Spec => []TypeOK
<1>1. IInv => TypeOK
  BY DEF IInv
<1> QED
  BY <1>1, Invariance, PTL

\* However many hands there are and however their devices change, a registered hand
\* has the reference that is stored for it as soon as neither its handler nor its
\* registration runs, unless a registration and a handler ran at once.
THEOREM ReferencesReachTheirHands == Spec => []EveryReferenceReachesItsHand
<1>1. IInv => EveryReferenceReachesItsHand
  BY DriversAssumption DEF IInv, TypeOK, Delivers, EveryReferenceReachesItsHand
<1> QED
  BY <1>1, Invariance, PTL

================================================================================
