-------------------------- MODULE NamedPipeInputProofs -------------------------
(* Machine-checked proofs about NamedPipeInput, for any hands, any number of   *)
(* pipes for each and any period.                                              *)
EXTENDS NamedPipeInput, FiniteSetTheorems, TLAPS

--------------------------------------------------------------------------------
(* The threads of a hand are its own.                                          *)

LEMMA ThreadFacts ==
  /\ Listeners \subseteq Threads
  /\ \A h \in Hands :
       /\ ListenersOf(h) \subseteq ThreadsOf(h) /\ ListenersOf(h) \subseteq Listeners
       /\ ThreadsOf(h) \subseteq Threads
       /\ <<h, 0>> \in ThreadsOf(h) /\ <<h, 0>> \notin Listeners
       /\ \A t \in ThreadsOf(h) : t[1] = h /\ \A g \in Hands : t \in ThreadsOf(g) => g = h
  /\ \A t \in Threads : t[1] \in Hands /\ t \in ThreadsOf(t[1])
  /\ \A t \in Listeners : t \in ListenersOf(t[1])
BY VersionsAssumption DEF Threads, Listeners, ThreadsOf, ListenersOf

--------------------------------------------------------------------------------
(* The inductive invariant.                                                    *)

\* A pipe's thread runs from the time the callbacks of the Impl are there, and has
\* ended when the device is gone.
Lifetimes ==
  \A h \in Hands :
    /\ owner[h] \in {"new", "outer"} => \A t \in ListenersOf(h) : pc[t] = "off"
    /\ owner[h] = "gone" => \A t \in ListenersOf(h) : pc[t] = "ended"

\* The threads of hand h's pipes that are about to announce it, and those that have
\* but have not registered it yet.
Announcing(h) == {t \in ListenersOf(h) : pc[t] = "announce"}
Unregistered(h) ==
  {t \in ListenersOf(h) : pc[t] = "register" \/ (pc[t] \in Logging /\ message[t] = h)}

\* Each pipe announces the hand once at most: what was announced and never
\* registered was announced by different threads.
Announcements ==
  \A h \in Hands :
    /\ ~registered[h] => announced[h] = Cardinality(Unregistered(h))
    /\ registered[h] => announced[h] + Cardinality(Announcing(h)) <= Versions
    /\ \A t \in ListenersOf(h) : pc[t] \in Logging => message[t] \in {h, "data"}

\* Threads that bend, or send, at the same time know of each other.
Alone(part, S) == \A t, u \in S : t # u /\ {pc[t], pc[u]} \subseteq part => together[t]

\* The parts of the skeleton that a lone thread has written are still its own.
Bones ==
  /\ \A h \in Hands : Alone(Bending, ThreadsOf(h))
  /\ \A t \in Threads : ~together[t] =>
       /\ pc[t] \in {"second", "report"} => skeleton[t[1]][1] = t
       /\ pc[t] = "report" => skeleton[t[1]][2] = t

\* While no two threads have been in Log, what was last delivered is the last
\* message, or the one before it while that is on its way.
Logs ==
  ~mixed =>
    /\ \A t, u \in Threads : t # u => ~({pc[t], pc[u]} \subseteq Logging)
    /\ \A t \in Threads :
         /\ pc[t] = "assign" => last_message # message[t]
         /\ pc[t] = "deliver" => last_message = message[t] /\ delivered # message[t]
    /\ (\A t \in Threads : pc[t] # "deliver") => delivered = last_message

\* A bundle never leaves before the time that is kept for it, nor, when all are
\* kept, MaxDelay after it.
Clocks ==
  /\ Alone(Sending, Listeners)
  /\ sent <= last_send_time
  /\ (\A t \in Listeners : pc[t] # "store") => last_send_time <= sent + MaxDelay
  /\ \A t \in Listeners :
       /\ pc[t] = "store" => sent <= now[t]
       /\ pc[t] = "send" /\ ~together[t] => last_send_time - now[t] >= Period

IInv == /\ TypeOK /\ Lifetimes /\ Announcements /\ Bones /\ Logs /\ Clocks
        /\ CrashNeedsDestruction

LEMMA HandsListeners ==
  ASSUME NEW h \in Hands
  PROVE  IsFiniteSet(ListenersOf(h)) /\ Cardinality(ListenersOf(h)) = Versions
<1>1. IsFiniteSet({h}) /\ Cardinality({h}) = 1
  BY FS_Singleton
<1>2. IsFiniteSet(1 .. Versions) /\ Cardinality(1 .. Versions) = Versions
  BY VersionsAssumption, FS_Interval
<1>3. /\ IsFiniteSet({h} \X (1 .. Versions))
      /\ Cardinality({h} \X (1 .. Versions)) = Cardinality({h}) * Cardinality(1 .. Versions)
  BY <1>1, <1>2, FS_Product
<1> QED
  BY <1>1, <1>2, <1>3, VersionsAssumption DEF ListenersOf

LEMMA StayAlone ==
  ASSUME NEW part, NEW S, Alone(part, S),
         \A t \in S : pc'[t] \in part => pc[t] \in part /\ (together[t] => together'[t])
  PROVE  Alone(part, S)'
BY DEF Alone

--------------------------------------------------------------------------------
(* The invariant holds at first, and every step keeps each of its parts.      *)
(* A step of a thread moves it alone, from a place to a place.                 *)

LEMMA InitInvariant == Init => IInv
<1> SUFFICES ASSUME Init PROVE IInv
  OBVIOUS
<1>1. TypeOK
  <2>1. MaxAge \in Nat /\ MaxDelay \in Nat
    BY PeriodAssumption DEF MaxAge
  <2>2. [part \in {1, 2} |-> None] \in Skeletons
    BY DEF Skeletons
  <2>3. "off" \in Places /\ "new" \in Stages /\ "data" \in Messages
    BY DEF Places, Stages, Messages
  <2>4. crashed \in BOOLEAN /\ mixed \in BOOLEAN
    BY DEF Init
  <2>5. /\ owner \in [Hands -> Stages] /\ registered \in [Hands -> BOOLEAN] /\ announced \in [Hands -> Nat]
        /\ pc \in [Threads -> Places] /\ together \in [Threads -> BOOLEAN]
        /\ skeleton \in [Hands -> Skeletons] /\ message \in [Threads -> Messages]
    BY <2>2, <2>3 DEF Init
  <2>6. last_message \in Messages \cup {""} /\ delivered \in Messages \cup {""}
    BY DEF Init
  <2>7. last_send_time = MaxAge /\ sent = MaxAge /\ now = [t \in Threads |-> 0]
    BY DEF Init
  <2>8. now \in [Threads -> 0 .. MaxDelay] /\ last_send_time \in 0 .. MaxAge /\ sent \in 0 .. MaxAge
    BY <2>1, <2>7
  <2> QED
    BY <2>4, <2>5, <2>6, <2>8 DEF TypeOK
<1>2. \A t \in Threads : pc[t] = "off"
  BY DEF Init
<1>3. \A t \in Listeners : t \in Threads
  BY ThreadFacts
<1>4. \A h \in Hands : \A t \in ThreadsOf(h) : t \in Threads
  BY ThreadFacts
<1>5. \A h \in Hands : \A t \in ListenersOf(h) : t \in Threads
  BY ThreadFacts
<1>6. Lifetimes
  BY <1>2, <1>5 DEF Lifetimes, Init
<1>7. Announcements
  <2> SUFFICES ASSUME NEW h \in Hands PROVE Announcements!(h)
    BY DEF Announcements
  <2>1. Unregistered(h) = {}
    BY <1>2, <1>5 DEF Unregistered, Logging
  <2> QED
    BY <2>1, <1>2, <1>5, FS_EmptySet DEF Init, Logging
<1>8. Bones
  BY <1>2, <1>4 DEF Bones, Alone, Bending
<1>9. Logs
  BY <1>2 DEF Logs, Logging, Init
<1>10. Clocks
  <2>1. MaxAge \in Nat /\ MaxDelay \in Nat
    BY PeriodAssumption DEF MaxAge
  <2>4. last_send_time = MaxAge /\ sent = MaxAge
    BY DEF Init
  <2>2. sent <= last_send_time /\ last_send_time <= sent + MaxDelay
    BY <2>1, <2>4
  <2>3. Alone(Sending, Listeners)
    BY <1>2, <1>3 DEF Alone, Sending
  <2> QED
    BY <2>2, <2>3, <1>2, <1>3 DEF Clocks
<1>11. CrashNeedsDestruction
  BY DEF Init, CrashNeedsDestruction
<1> QED
  BY <1>1, <1>6, <1>7, <1>8, <1>9, <1>10, <1>11 DEF IInv

LEMMA NextTypeOK == IInv /\ [Next]_vars => TypeOK'
<1> SUFFICES ASSUME IInv, [Next]_vars PROVE TypeOK'
  OBVIOUS
<1>a. TypeOK
  BY DEF IInv
<1>owner. owner \in [Hands -> Stages]
  BY <1>a DEF TypeOK
<1>pc. pc \in [Threads -> Places]
  BY <1>a DEF TypeOK
<1>together. together \in [Threads -> BOOLEAN]
  BY <1>a DEF TypeOK
<1>registered. registered \in [Hands -> BOOLEAN]
  BY <1>a DEF TypeOK
<1>announced. announced \in [Hands -> Nat]
  BY <1>a DEF TypeOK
<1>message. message \in [Threads -> Messages]
  BY <1>a DEF TypeOK
<1>mixed. mixed \in BOOLEAN
  BY <1>a DEF TypeOK
<1>crashed. crashed \in BOOLEAN
  BY <1>a DEF TypeOK
<1>lm. last_message \in Messages \cup {""}
  BY <1>a DEF TypeOK
<1>delivered. delivered \in Messages \cup {""}
  BY <1>a DEF TypeOK
<1>now. now \in [Threads -> 0 .. MaxDelay]
  BY <1>a DEF TypeOK
<1>last. last_send_time \in 0 .. MaxAge
  BY <1>a DEF TypeOK
<1>sent. sent \in 0 .. MaxAge
  BY <1>a DEF TypeOK
<1>skeleton. skeleton \in [Hands -> Skeletons]
  BY <1>a DEF TypeOK
<1>g. Hands \subseteq Messages /\ "data" \in Messages
  BY DEF Messages
<1>d. MaxAge \in Nat /\ MaxDelay \in Nat /\ MaxDelay <= MaxAge
  BY PeriodAssumption DEF MaxAge
<1>b. \A h \in Hands : ListenersOf(h) \subseteq Threads /\ ThreadsOf(h) \subseteq Threads /\ <<h, 0>> \in Threads
  BY ThreadFacts
<1>1. ASSUME NEW h \in Hands, BeginListener(h) \/ Destroy(h) PROVE TypeOK'
  <2>1. owner' \in [Hands -> Stages]
    BY <1>1, <1>owner DEF BeginListener, Destroy, Advance, Stages
  <2> QED
    BY <1>1, <2>1, <1>a DEF TypeOK, logger, osc, BeginListener, Destroy, Advance
<1>2. ASSUME NEW h \in Hands, Activate(h) PROVE TypeOK'
  <2>1. <<h, 0>> \in Threads
    BY <1>b
  <2>2. "first" \in Places
    BY DEF Places, Bending, Logging, Sending
  <2>3. pc' \in [Threads -> Places]
    BY <1>2, <2>1, <2>2, <1>pc DEF Activate, Go
  <2>4. together' \in [Threads -> BOOLEAN]
    BY <1>2, <2>1, <1>together, <1>pc DEF Activate, Meet
  <2> QED
    BY <1>2, <2>3, <2>4, <1>a DEF TypeOK, logger, osc, Activate
<1>3. ASSUME NEW h \in Hands, NEW t \in ListenersOf(h), StartPipe(h, t) \/ StopPipe(h, t) PROVE TypeOK'
  <2>1. t \in Threads
    BY <1>b
  <2>2. "wait" \in Places /\ "ended" \in Places
    BY DEF Places, Bending, Logging, Sending
  <2>3. pc' \in [Threads -> Places]
    BY <1>3, <2>1, <2>2, <1>pc DEF StartPipe, StopPipe, Go
  <2> QED
    BY <1>3, <2>3, <1>a DEF TypeOK, logger, osc, StartPipe, StopPipe
<1>4. ASSUME NEW h \in Hands, NEW t \in ListenersOf(h), Client(t) PROVE TypeOK'
  <2>1. t \in Threads
    BY <1>b
  <2>2. "event" \in Places /\ "data" \in Places /\ "wait" \in Places
    BY DEF Places, Bending, Logging, Sending
  <2>3. pc' \in [Threads -> Places]
    BY <1>4, <2>1, <2>2, <1>pc DEF Client, Go
  <2> QED
    BY <1>4, <2>3, <1>a DEF TypeOK, logger, osc, Client
<1>5. ASSUME NEW h \in Hands, NEW t \in ListenersOf(h), OnEvent(h, t) PROVE TypeOK'
  <2>1. t \in Threads
    BY <1>b
  <2>2. "idle" \in Places /\ "announce" \in Places
    BY DEF Places, Bending, Logging, Sending
  <2>3. pc' \in [Threads -> Places]
    BY <1>5, <2>1, <2>2, <1>pc DEF OnEvent, Call, HasImplCallbacks, Go
  <2>4. crashed' \in BOOLEAN
    BY <1>5, <2>1, <1>crashed DEF OnEvent, Call, HasImplCallbacks
  <2> QED
    BY <1>5, <2>3, <2>4, <1>a DEF TypeOK, logger, osc, OnEvent, Call, HasImplCallbacks
<1>6. ASSUME NEW h \in Hands, NEW t \in ListenersOf(h), Announce(h, t) PROVE TypeOK'
  <2>1. t \in Threads
    BY <1>b
  <2>2. "compare" \in Places
    BY DEF Places, Bending, Logging, Sending
  <2>3. pc' \in [Threads -> Places]
    BY <1>6, <2>1, <2>2, <1>pc DEF Announce, Call, Log, HasCallbacks, Go
  <2>4. message' \in [Threads -> Messages]
    BY <1>6, <2>1, <1>g, <1>message DEF Announce, Call, Log, HasCallbacks, logger
  <2>5. mixed' \in BOOLEAN
    BY <1>6, <2>1, <1>mixed DEF Announce, Call, Log, HasCallbacks, logger
  <2>6. announced' \in [Hands -> Nat]
    BY <1>6, <2>1, <1>announced DEF Announce, Call, Log, HasCallbacks
  <2>7. crashed' \in BOOLEAN
    BY <1>6, <2>1, <1>crashed DEF Announce, Call, Log, HasCallbacks
  <2> QED
    BY <1>6, <2>3, <2>4, <2>5, <2>6, <2>7, <1>a DEF TypeOK, logger, osc, Announce, Call, Log, HasCallbacks
<1>7. ASSUME NEW h \in Hands, NEW t \in ListenersOf(h), Register(h, t) PROVE TypeOK'
  <2>1. t \in Threads
    BY <1>b
  <2>2. "idle" \in Places
    BY DEF Places, Bending, Logging, Sending
  <2>3. pc' \in [Threads -> Places]
    BY <1>7, <2>1, <2>2, <1>pc DEF Register, Go
  <2>4. registered' \in [Hands -> BOOLEAN]
    BY <1>7, <2>1, <1>registered DEF Register
  <2> QED
    BY <1>7, <2>3, <2>4, <1>a DEF TypeOK, logger, osc, Register
<1>8. ASSUME NEW h \in Hands, NEW t \in ListenersOf(h), Data(h, t) PROVE TypeOK'
  <2>1. t \in Threads
    BY <1>b
  <2>2. "compare" \in Places
    BY DEF Places, Bending, Logging, Sending
  <2>3. pc' \in [Threads -> Places]
    BY <1>8, <2>1, <2>2, <1>pc DEF Data, Call, Log, HasImplCallbacks, Go
  <2>4. message' \in [Threads -> Messages]
    BY <1>8, <2>1, <1>message, <1>g DEF Data, Call, Log, HasImplCallbacks, logger
  <2>5. mixed' \in BOOLEAN
    BY <1>8, <2>1, <1>mixed DEF Data, Call, Log, HasImplCallbacks, logger
  <2>6. crashed' \in BOOLEAN
    BY <1>8, <2>1, <1>crashed DEF Data, Call, Log, HasImplCallbacks
  <2> QED
    BY <1>8, <2>3, <2>4, <2>5, <2>6, <1>a DEF TypeOK, logger, osc, Data, Call, Log, HasImplCallbacks
<1>9. ASSUME NEW h \in Hands, NEW t \in ListenersOf(h), Pass(h, t) PROVE TypeOK'
  <2>1. t \in Threads
    BY <1>b
  <2>2. "first" \in Places
    BY DEF Places, Bending, Logging, Sending
  <2>3. pc' \in [Threads -> Places]
    BY <1>9, <2>1, <2>2, <1>pc DEF Pass, Call, HasCallbacks, Go
  <2>4. together' \in [Threads -> BOOLEAN]
    BY <1>9, <2>1, <1>together, <1>pc DEF Pass, Call, Meet, HasCallbacks
  <2>5. crashed' \in BOOLEAN
    BY <1>9, <2>1, <1>crashed DEF Pass, Call, HasCallbacks
  <2> QED
    BY <1>9, <2>3, <2>4, <2>5, <1>a DEF TypeOK, logger, osc, Pass, Call, HasCallbacks
<1>10. ASSUME NEW h \in Hands, NEW t \in ListenersOf(h), Compare(t) PROVE TypeOK'
  <2>1. t \in Threads
    BY <1>b
  <2>2. "pass" \in Places /\ "register" \in Places /\ "assign" \in Places
    BY DEF Places, Bending, Logging, Sending
  <2>3. pc' \in [Threads -> Places]
    BY <1>10, <2>1, <2>2, <1>pc DEF Compare, Logged, Go
  <2> QED
    BY <1>10, <2>3, <1>a DEF TypeOK, logger, osc, Compare
<1>11. ASSUME NEW h \in Hands, NEW t \in ListenersOf(h), Assign(t) \/ DeliverLog(t) PROVE TypeOK'
  <2>1. t \in Threads
    BY <1>b
  <2>2. "deliver" \in Places /\ "pass" \in Places /\ "register" \in Places
    BY DEF Places, Bending, Logging, Sending
  <2>3. pc' \in [Threads -> Places]
    BY <1>11, <2>1, <2>2, <1>pc DEF Assign, DeliverLog, Logged, Go
  <2>4. last_message' \in Messages \cup {""}
    BY <1>11, <2>1, <1>lm, <1>message DEF Assign, DeliverLog
  <2>5. delivered' \in Messages \cup {""}
    BY <1>11, <2>1, <1>delivered, <1>message DEF Assign, DeliverLog
  <2> QED
    BY <1>11, <2>3, <2>4, <2>5, <1>a DEF TypeOK, logger, osc, Assign, DeliverLog
<1>12. ASSUME NEW h \in Hands, NEW t \in ListenersOf(h), ReadClock(t) PROVE TypeOK'
  <2>1. t \in Threads
    BY <1>b
  <2>2. "test" \in Places
    BY DEF Places, Bending, Logging, Sending
  <2>3. pc' \in [Threads -> Places]
    BY <1>12, <2>1, <2>2, <1>pc DEF ReadClock, Go
  <2>4. together' \in [Threads -> BOOLEAN]
    BY <1>12, <2>1, <1>together, <1>pc DEF ReadClock, Meet
  <2> QED
    BY <1>12, <2>3, <2>4, <1>a DEF TypeOK, logger, osc, ReadClock
<1>13. ASSUME NEW h \in Hands, NEW t \in ListenersOf(h), Test(t) PROVE TypeOK'
  <2>1. t \in Threads
    BY <1>b
  <2>2. "idle" \in Places /\ "send" \in Places
    BY DEF Places, Bending, Logging, Sending
  <2>3. pc' \in [Threads -> Places]
    BY <1>13, <2>1, <2>2, <1>pc DEF Test, Rests, Go
  <2>4. now' \in [Threads -> 0 .. MaxDelay]
    BY <1>13, <2>1, <1>now, <1>d DEF Test, Rests, Go
  <2> QED
    BY <1>13, <2>3, <2>4, <1>a DEF TypeOK, logger, osc, Test, Rests
<1>14. ASSUME NEW h \in Hands, NEW t \in ListenersOf(h), SendBundle(t) \/ StoreTime(t) PROVE TypeOK'
  <2>1. t \in Threads
    BY <1>b
  <2>2. "store" \in Places /\ "idle" \in Places
    BY DEF Places, Bending, Logging, Sending
  <2>3. pc' \in [Threads -> Places]
    BY <1>14, <2>1, <2>2, <1>pc DEF SendBundle, StoreTime, Go
  <2>4. now' \in [Threads -> 0 .. MaxDelay]
    BY <1>14, <2>1, <1>now, <1>d DEF SendBundle, StoreTime, Go
  <2>5. last_send_time' \in 0 .. MaxAge
    BY <1>14, <2>1, <1>last, <1>now, <1>d DEF SendBundle, StoreTime
  <2>6. sent' \in 0 .. MaxAge
    BY <1>14, <2>1, <1>sent, <1>d DEF SendBundle, StoreTime
  <2> QED
    BY <1>14, <2>3, <2>4, <2>5, <2>6, <1>a DEF TypeOK, logger, osc, SendBundle, StoreTime
<1>15. ASSUME NEW h \in Hands, NEW t \in ThreadsOf(h), WriteFirst(h, t) \/ WriteSecond(h, t) PROVE TypeOK'
  <2>1. t \in Threads
    BY <1>b
  <2>2. "second" \in Places /\ "report" \in Places
    BY DEF Places, Bending, Logging, Sending
  <2>3. pc' \in [Threads -> Places]
    BY <1>15, <2>1, <2>2, <1>pc DEF WriteFirst, WriteSecond, Go
  <2>4. skeleton' \in [Hands -> Skeletons]
    <3>1. PICK part \in {1, 2} : skeleton' = [skeleton EXCEPT ![h][part] = t]
      BY <1>15 DEF WriteFirst, WriteSecond
    <3>2. skeleton[h] \in [{1, 2} -> Threads \cup {None}]
      BY <1>skeleton DEF Skeletons
    <3>3. [skeleton[h] EXCEPT ![part] = t] \in Skeletons
      BY <2>1, <3>2 DEF Skeletons
    <3> QED
      BY <1>skeleton, <3>1, <3>3
  <2> QED
    BY <1>15, <2>3, <2>4, <1>a DEF TypeOK, logger, osc, WriteFirst, WriteSecond
<1>16. ASSUME NEW h \in Hands, NEW t \in ThreadsOf(h), Report(h, t) PROVE TypeOK'
  <2>1. t \in Threads
    BY <1>b
  <2>2. "clock" \in Places /\ "ended" \in Places
    BY DEF Places, Bending, Logging, Sending
  <2>3. pc' \in [Threads -> Places]
    BY <1>16, <2>1, <2>2, <1>pc DEF Report, Go
  <2> QED
    BY <1>16, <2>3, <1>a DEF TypeOK, logger, osc, Report
<1>17. ASSUME Tick PROVE TypeOK'
  <2>1. now' \in [Threads -> 0 .. MaxDelay]
    BY <1>17, <1>now, <1>d DEF Tick, Older
  <2>2. last_send_time' \in 0 .. MaxAge
    BY <1>17, <1>last, <1>now, <1>d DEF Tick, Older
  <2>3. sent' \in 0 .. MaxAge
    BY <1>17, <1>sent, <1>d DEF Tick, Older
  <2> QED
    BY <1>17, <2>1, <2>2, <2>3, <1>a DEF TypeOK, logger, osc, Tick, Older
<1>18. CASE UNCHANGED vars
  BY <1>18, <1>a DEF vars, TypeOK
<1> QED
  BY <1>1, <1>2, <1>3, <1>4, <1>5, <1>6, <1>7, <1>8, <1>9, <1>10, <1>11, <1>12, <1>13, <1>14, <1>15, <1>16, <1>17, <1>18 DEF Next, Listen, Bend

\* Listeners start after the callbacks are assigned and are joined before "gone".
LEMMA NextLifetimes == IInv /\ [Next]_vars => Lifetimes'
<1> SUFFICES ASSUME IInv, [Next]_vars PROVE Lifetimes'
  OBVIOUS
<1>a. /\ owner \in [Hands -> Stages]
      /\ pc \in [Threads -> Places]
      /\ Lifetimes
  BY DEF IInv, TypeOK
<1>b. \A h \in Hands :
        /\ ListenersOf(h) \subseteq ThreadsOf(h) /\ ListenersOf(h) \subseteq Listeners
        /\ ThreadsOf(h) \subseteq Threads
        /\ <<h, 0>> \in ThreadsOf(h) /\ <<h, 0>> \notin Listeners
        /\ \A t \in ThreadsOf(h) : \A g \in Hands : t \in ThreadsOf(g) => g = h
  BY ThreadFacts
<1> USE <1>a, <1>b DEF Lifetimes, Bending, Logging, Sending
<1>1. ASSUME NEW h \in Hands, BeginListener(h) \/ Destroy(h) PROVE Lifetimes'
  <2>1. pc' = pc
    BY <1>1 DEF BeginListener, Destroy, Advance
  <2>2. ASSUME NEW g \in Hands, g # h PROVE owner'[g] = owner[g]
    BY <1>1, <2>2 DEF BeginListener, Destroy, Advance
  <2>3. \/ owner[h] \in {"new", "outer"}
        \/ owner'[h] \notin {"new", "outer", "gone"}
        \/ owner'[h] = "gone" /\ \A t \in ListenersOf(h) : pc[t] = "ended"
    BY <1>1 DEF BeginListener, Destroy, Advance
  <2>4. owner[h] \in {"new", "outer"} => owner'[h] # "gone"
    BY <1>1 DEF BeginListener, Destroy, Advance
  <2>5. ASSUME NEW g \in Hands PROVE Lifetimes!(g)'
    <3>1. CASE g # h
      BY <2>1, <2>2, <3>1
    <3>2. CASE g = h
      BY <2>1, <2>3, <2>4, <3>2
    <3> QED
      BY <3>1, <3>2
  <2> QED
    BY <2>5
<1>2. ASSUME NEW h \in Hands, Activate(h) PROVE Lifetimes'
  <2>1. owner' = owner /\ pc' = [pc EXCEPT ![<<h, 0>>] = "first"]
    BY <1>2 DEF Activate, Go
  <2>2. \A u \in Listeners : pc'[u] = pc[u]
    BY <2>1, ThreadFacts
  <2> QED
    BY <2>1, <2>2
<1>3. ASSUME NEW h \in Hands, NEW t \in ListenersOf(h), StartPipe(h, t) \/ StopPipe(h, t) PROVE Lifetimes'
  <2>1. /\ owner[h] \in {"inner", "join"} /\ owner' = owner /\ pc[t] # "ended"
        /\ \A u \in Threads : u # t => pc'[u] = pc[u]
    BY <1>3 DEF StartPipe, StopPipe, Go
  <2>2. ASSUME NEW g \in Hands PROVE Lifetimes!(g)'
    <3>1. CASE g = h
      BY <2>1, <3>1
    <3>2. CASE g # h
      <4>1. ASSUME NEW u \in ListenersOf(g) PROVE u \in Threads /\ u # t
        <5>1. u \in ThreadsOf(g) /\ t \in ThreadsOf(h) /\ u \in Threads
          BY ThreadFacts
        <5>2. u \in ThreadsOf(h) => g = h
          BY <5>1, ThreadFacts
        <5> QED
          BY <3>2, <5>1, <5>2
      <4> QED
        BY <2>1, <4>1
    <3> QED
      BY <3>1, <3>2
  <2> QED
    BY <2>2
<1>4. ASSUME NEW h \in Hands, NEW t \in ListenersOf(h), Client(t) PROVE Lifetimes'
  BY <1>4 DEF Client, Go
<1>5. ASSUME NEW h \in Hands, NEW t \in ListenersOf(h), OnEvent(h, t) PROVE Lifetimes'
  BY <1>5 DEF OnEvent, Call, HasImplCallbacks, Go
<1>6. ASSUME NEW h \in Hands, NEW t \in ListenersOf(h), Announce(h, t) PROVE Lifetimes'
  BY <1>6 DEF Announce, Call, Log, HasCallbacks, Go
<1>7. ASSUME NEW h \in Hands, NEW t \in ListenersOf(h), Register(h, t) PROVE Lifetimes'
  BY <1>7 DEF Register, Go
<1>8. ASSUME NEW h \in Hands, NEW t \in ListenersOf(h), Data(h, t) PROVE Lifetimes'
  BY <1>8 DEF Data, Call, Log, HasImplCallbacks, Go
<1>9. ASSUME NEW h \in Hands, NEW t \in ListenersOf(h), Pass(h, t) PROVE Lifetimes'
  BY <1>9 DEF Pass, Call, HasCallbacks, Go
<1>10. ASSUME NEW h \in Hands, NEW t \in ListenersOf(h), Compare(t) PROVE Lifetimes'
  BY <1>10 DEF Compare, Go
<1>11. ASSUME NEW h \in Hands, NEW t \in ListenersOf(h), Assign(t) \/ DeliverLog(t) PROVE Lifetimes'
  BY <1>11 DEF Assign, DeliverLog, Go
<1>12. ASSUME NEW h \in Hands, NEW t \in ListenersOf(h), ReadClock(t) PROVE Lifetimes'
  BY <1>12 DEF ReadClock, Go
<1>13. ASSUME NEW h \in Hands, NEW t \in ListenersOf(h), Test(t) PROVE Lifetimes'
  BY <1>13 DEF Test, Go
<1>14. ASSUME NEW h \in Hands, NEW t \in ListenersOf(h), SendBundle(t) \/ StoreTime(t) PROVE Lifetimes'
  BY <1>14 DEF SendBundle, StoreTime, Go
<1>15. ASSUME NEW h \in Hands, NEW t \in ThreadsOf(h), WriteFirst(h, t) \/ WriteSecond(h, t) PROVE Lifetimes'
  BY <1>15 DEF WriteFirst, WriteSecond, Go
<1>16. ASSUME NEW h \in Hands, NEW t \in ThreadsOf(h), Report(h, t) PROVE Lifetimes'
  BY <1>16 DEF Report, Go
<1>17. ASSUME Tick PROVE Lifetimes'
  BY <1>17 DEF Tick
<1>18. CASE UNCHANGED vars
  BY <1>18 DEF vars, logger, osc
<1> QED
  BY <1>1, <1>2, <1>3, <1>4, <1>5, <1>6, <1>7, <1>8, <1>9, <1>10, <1>11, <1>12, <1>13, <1>14, <1>15, <1>16, <1>17, <1>18 DEF Next, Listen, Bend

\* A callback that is not there was cleared: those not yet assigned have no users.
LEMMA NextCrashNeedsDestruction == IInv /\ [Next]_vars => CrashNeedsDestruction'
<1> SUFFICES ASSUME IInv, [Next]_vars PROVE CrashNeedsDestruction'
  OBVIOUS
<1>a. /\ owner \in [Hands -> Stages]
      /\ pc \in [Threads -> Places]
      /\ Lifetimes /\ CrashNeedsDestruction
  BY DEF IInv, TypeOK
<1>c. ~crashed \/ (crashed' = crashed /\ owner' = owner)
  BY DEF Next, vars
<1>b. \A h \in Hands :
        /\ ListenersOf(h) \subseteq ThreadsOf(h) /\ ListenersOf(h) \subseteq Listeners
        /\ ThreadsOf(h) \subseteq Threads
        /\ <<h, 0>> \in ThreadsOf(h) /\ <<h, 0>> \notin Listeners
        /\ \A t \in ThreadsOf(h) : \A g \in Hands : t \in ThreadsOf(g) => g = h
  BY ThreadFacts
<1> USE <1>a, <1>b DEF Lifetimes, CrashNeedsDestruction, Stages, Bending, Logging, Sending
<1>1. ASSUME NEW h \in Hands, BeginListener(h) \/ Destroy(h) PROVE CrashNeedsDestruction'
  <2>1. crashed' = FALSE
    BY <1>1, <1>c DEF BeginListener, Destroy, Advance
  <2> QED
    BY <2>1
<1>2. ASSUME NEW h \in Hands, Activate(h) PROVE CrashNeedsDestruction'
  BY <1>2 DEF Activate
<1>3. ASSUME NEW h \in Hands, NEW t \in ListenersOf(h), StartPipe(h, t) \/ StopPipe(h, t) PROVE CrashNeedsDestruction'
  BY <1>3 DEF StartPipe, StopPipe
<1>4. ASSUME NEW h \in Hands, NEW t \in ListenersOf(h), Client(t) PROVE CrashNeedsDestruction'
  BY <1>4 DEF Client
<1>5. ASSUME NEW h \in Hands, NEW t \in ListenersOf(h), OnEvent(h, t) PROVE CrashNeedsDestruction'
  BY <1>5 DEF OnEvent, Call, HasImplCallbacks
<1>6. ASSUME NEW h \in Hands, NEW t \in ListenersOf(h), Announce(h, t) PROVE CrashNeedsDestruction'
  <2>1. CASE ~HasCallbacks(h)
    <3>1. owner' = owner /\ pc[t] \notin {"off", "ended"}
      BY <1>6, <2>1 DEF Announce, Call
    <3> QED
      BY <2>1, <3>1 DEF HasCallbacks
  <2>2. CASE HasCallbacks(h)
    <3>1. crashed' = crashed /\ owner' = owner
      BY <1>6, <2>2 DEF Announce, Call, Log
    <3> QED
      BY <1>c, <3>1
  <2> QED
    BY <2>1, <2>2
<1>7. ASSUME NEW h \in Hands, NEW t \in ListenersOf(h), Register(h, t) PROVE CrashNeedsDestruction'
  BY <1>7 DEF Register
<1>8. ASSUME NEW h \in Hands, NEW t \in ListenersOf(h), Data(h, t) PROVE CrashNeedsDestruction'
  <2>1. CASE ~HasImplCallbacks(h)
    <3>1. owner' = owner /\ pc[t] \notin {"off", "ended"}
      BY <1>8, <2>1 DEF Data, Call
    <3> QED
      BY <2>1, <3>1 DEF HasImplCallbacks
  <2>2. CASE HasImplCallbacks(h)
    <3>1. crashed' = crashed /\ owner' = owner
      BY <1>8, <2>2 DEF Data, Call, Log
    <3> QED
      BY <1>c, <3>1
  <2> QED
    BY <2>1, <2>2
<1>9. ASSUME NEW h \in Hands, NEW t \in ListenersOf(h), Pass(h, t) PROVE CrashNeedsDestruction'
  BY <1>9 DEF Pass, Call, HasCallbacks
<1>10. ASSUME NEW h \in Hands, NEW t \in ListenersOf(h), Compare(t) PROVE CrashNeedsDestruction'
  BY <1>10 DEF Compare, Logged
<1>11. ASSUME NEW h \in Hands, NEW t \in ListenersOf(h), Assign(t) \/ DeliverLog(t) PROVE CrashNeedsDestruction'
  BY <1>11 DEF Assign, DeliverLog, Logged
<1>12. ASSUME NEW h \in Hands, NEW t \in ListenersOf(h), ReadClock(t) PROVE CrashNeedsDestruction'
  BY <1>12 DEF ReadClock
<1>13. ASSUME NEW h \in Hands, NEW t \in ListenersOf(h), Test(t) PROVE CrashNeedsDestruction'
  BY <1>13 DEF Test, Rests
<1>14. ASSUME NEW h \in Hands, NEW t \in ListenersOf(h), SendBundle(t) \/ StoreTime(t) PROVE CrashNeedsDestruction'
  BY <1>14 DEF SendBundle, StoreTime
<1>15. ASSUME NEW h \in Hands, NEW t \in ThreadsOf(h), WriteFirst(h, t) \/ WriteSecond(h, t) PROVE CrashNeedsDestruction'
  BY <1>15 DEF WriteFirst, WriteSecond
<1>16. ASSUME NEW h \in Hands, NEW t \in ThreadsOf(h), Report(h, t) PROVE CrashNeedsDestruction'
  BY <1>16 DEF Report
<1>17. ASSUME Tick PROVE CrashNeedsDestruction'
  BY <1>17 DEF Tick, Older
<1>18. CASE UNCHANGED vars
  BY <1>18 DEF vars, logger, osc
<1> QED
  BY <1>1, <1>2, <1>3, <1>4, <1>5, <1>6, <1>7, <1>8, <1>9, <1>10, <1>11, <1>12, <1>13, <1>14, <1>15, <1>16, <1>17, <1>18 DEF Next, Listen, Bend

\* A step that announces a hand, registers it, or leaves both as they are.
LEMMA NextAnnouncements == IInv /\ [Next]_vars => Announcements'
<1> SUFFICES ASSUME IInv, [Next]_vars PROVE Announcements'
  OBVIOUS
<1> DEFINE Quiet ==
      /\ registered' = registered /\ announced' = announced
      /\ \A g \in Hands : \A u \in ListenersOf(g) :
           /\ pc'[u] \in Logging => pc[u] \in Logging /\ message'[u] = message[u]
           /\ pc'[u] = "register" => pc[u] = "register"
           /\ pc[u] = "register" \/ pc[u] \in Logging => pc'[u] = pc[u]
           /\ registered[g] => (pc'[u] = "announce" => pc[u] = "announce")
<1>pc. pc \in [Threads -> Places]
  BY DEF IInv, TypeOK
<1>m. message \in [Threads -> Messages]
  BY DEF IInv, TypeOK
<1>r. registered \in [Hands -> BOOLEAN] /\ announced \in [Hands -> Nat]
  BY DEF IInv, TypeOK
<1>b. \A h \in Hands : /\ ListenersOf(h) \subseteq Threads /\ ThreadsOf(h) \subseteq Threads
                       /\ \A g \in Hands : <<h, 0>> \notin ListenersOf(g)
  BY ThreadFacts
<1>c. \A g, h \in Hands : g # h => ListenersOf(g) \cap ListenersOf(h) = {}
  <2> SUFFICES ASSUME NEW g \in Hands, NEW h \in Hands, NEW u \in ListenersOf(g), u \in ListenersOf(h)
               PROVE  g = h
    OBVIOUS
  <2>1. u \in ThreadsOf(g) /\ u \in ThreadsOf(h)
    BY ThreadFacts
  <2> QED
    BY <2>1, ThreadFacts
<1>n. Announcements
  BY DEF IInv
<1>f. \A h \in Hands : /\ IsFiniteSet(Announcing(h)) /\ Cardinality(Announcing(h)) \in Nat
                       /\ IsFiniteSet(Unregistered(h)) /\ Cardinality(Unregistered(h)) \in Nat
  <2> TAKE h \in Hands
  <2>1. Announcing(h) \subseteq ListenersOf(h) /\ Unregistered(h) \subseteq ListenersOf(h)
    BY DEF Announcing, Unregistered
  <2> QED
    BY <2>1, HandsListeners, FS_Subset, FS_CardinalityType
<1>q. Quiet => Announcements'
  <2> SUFFICES ASSUME Quiet PROVE Announcements'
    OBVIOUS
  <2> SUFFICES ASSUME NEW h \in Hands PROVE Announcements!(h)'
    BY DEF Announcements
  <2>1. Unregistered(h)' = Unregistered(h)
    BY DEF Unregistered
  <2>2. registered[h] => Cardinality(Announcing(h)') <= Cardinality(Announcing(h))
    <3>1. registered[h] => Announcing(h)' \subseteq Announcing(h)
      BY DEF Announcing
    <3> QED
      BY <3>1, <1>f, FS_Subset
  <2>3. registered[h] => Cardinality(Announcing(h)') \in Nat
    <3>1. registered[h] => Announcing(h)' \subseteq Announcing(h)
      BY DEF Announcing
    <3> QED
      BY <3>1, <1>f, FS_Subset, FS_CardinalityType
  <2> QED
    BY <2>1, <2>2, <2>3, <1>n, <1>f, <1>r, VersionsAssumption DEF Announcements
<1>l. ASSUME NEW h \in Hands, NEW t \in ListenersOf(h),
             registered' = registered, announced' = announced, message' = message,
             \A u \in Threads : u # t => pc'[u] = pc[u],
             pc[t] \in Logging, pc'[t] \in Logging \cup {Logged(t)}
      PROVE  Announcements'
  <2> SUFFICES ASSUME NEW g \in Hands PROVE Announcements!(g)'
    BY DEF Announcements
  <2>1. message[t] \in {h, "data"} /\ h # "data"
    BY <1>l, <1>n, HandsAssumption DEF Announcements
  <2>2. /\ pc'[t] = "register" => message[t] = h
        /\ message[t] = h => pc'[t] = "register" \/ pc'[t] \in Logging
        /\ pc[t] # "register" /\ pc[t] # "announce" /\ pc'[t] # "announce"
    BY <1>l, <2>1 DEF Logged, Logging
  <2>3. Unregistered(g)' = Unregistered(g) /\ Announcing(g)' = Announcing(g)
    <3>1. CASE g = h
      BY <1>l, <1>b, <2>2, <3>1 DEF Unregistered, Announcing
    <3>2. CASE g # h
      BY <1>l, <1>b, <1>c, <3>2 DEF Unregistered, Announcing
    <3> QED
      BY <3>1, <3>2
  <2>4. \A u \in ListenersOf(g) : pc'[u] \in Logging => message'[u] \in {g, "data"}
    BY <1>l, <1>b, <1>n DEF Announcements
  <2> QED
    BY <1>l, <2>3, <2>4, <1>n DEF Announcements
<1>1. ASSUME NEW h \in Hands, BeginListener(h) \/ Destroy(h) PROVE Announcements'
  <2>1. Quiet
    BY <1>1, <1>pc, <1>b DEF BeginListener, Destroy, Advance, Logging, logger
  <2> QED
    BY <2>1, <1>q
<1>2. ASSUME NEW h \in Hands, Activate(h) PROVE Announcements'
  <2>1. Quiet
    BY <1>2, <1>pc, <1>b DEF Activate, Go, Logging, logger
  <2> QED
    BY <2>1, <1>q
<1>3. ASSUME NEW h \in Hands, NEW t \in ListenersOf(h), StartPipe(h, t) \/ StopPipe(h, t) PROVE Announcements'
  <2>1. Quiet
    BY <1>3, <1>pc, <1>b DEF StartPipe, StopPipe, Go, Logging, logger
  <2> QED
    BY <2>1, <1>q
<1>4. ASSUME NEW h \in Hands, NEW t \in ListenersOf(h), Client(t) PROVE Announcements'
  <2>1. Quiet
    BY <1>4, <1>pc, <1>b DEF Client, Go, Logging, logger
  <2> QED
    BY <2>1, <1>q
<1>5. ASSUME NEW h \in Hands, NEW t \in ListenersOf(h), OnEvent(h, t) PROVE Announcements'
  <2>1. CASE ~HasImplCallbacks(h)
    <3>1. Quiet
      BY <1>5, <2>1 DEF OnEvent, Call, logger
    <3> QED
      BY <3>1, <1>q
  <2>2. CASE HasImplCallbacks(h)
    <3>1. /\ t \in Threads /\ registered' = registered /\ announced' = announced /\ message' = message
          /\ pc[t] = "event" /\ pc'[t] = (IF registered[h] THEN "idle" ELSE "announce")
          /\ \A u \in Threads : u # t => pc'[u] = pc[u]
      BY <1>5, <2>2, <1>b, <1>pc DEF OnEvent, Call, Go, logger
    <3>2. \A g \in Hands : t \in ListenersOf(g) => g = h
      BY <1>c
    <3>3. Quiet
      BY <3>1, <3>2, <1>b DEF Logging
    <3> QED
      BY <3>3, <1>q
  <2> QED
    BY <2>1, <2>2
<1>6. ASSUME NEW h \in Hands, NEW t \in ListenersOf(h), Announce(h, t) PROVE Announcements'
  <2>0. CASE ~HasCallbacks(h)
    <3>1. Quiet
      BY <1>6, <2>0 DEF Announce, Call, logger
    <3> QED
      BY <3>1, <1>q
  <2>5. CASE HasCallbacks(h)
    <3>1. /\ t \in Threads /\ registered' = registered /\ announced' = [announced EXCEPT ![h] = @ + 1]
          /\ message' = [message EXCEPT ![t] = h]
          /\ pc[t] = "announce" /\ pc'[t] = "compare" /\ \A u \in Threads : u # t => pc'[u] = pc[u]
      BY <1>6, <2>5, <1>b, <1>pc DEF Announce, Call, Log, Go
    <3>2. /\ Announcing(h)' = Announcing(h) \ {t} /\ t \in Announcing(h)
          /\ Unregistered(h)' = Unregistered(h) \cup {t} /\ t \notin Unregistered(h)
      BY <3>1, <1>b, <1>m DEF Announcing, Unregistered, Logging
    <3>3. ASSUME NEW g \in Hands, g # h
          PROVE  Announcing(g)' = Announcing(g) /\ Unregistered(g)' = Unregistered(g)
      BY <3>1, <3>3, <1>b, <1>c, <1>m DEF Announcing, Unregistered
    <3>4. ASSUME NEW g \in Hands, NEW u \in ListenersOf(g), pc'[u] \in Logging PROVE message'[u] \in {g, "data"}
      <4>1. CASE u = t
        BY <3>1, <4>1, <1>c, <1>m
      <4>2. CASE u # t
        BY <3>1, <3>4, <4>2, <1>b, <1>m, <1>n DEF Announcements
      <4> QED
        BY <4>1, <4>2
    <3>5. /\ Cardinality(Announcing(h)') = Cardinality(Announcing(h)) - 1
          /\ Cardinality(Unregistered(h)') = Cardinality(Unregistered(h)) + 1
      <4>1. IsFiniteSet(Announcing(h)) /\ IsFiniteSet(Unregistered(h))
        BY <1>f
      <4>2. Cardinality(Announcing(h) \ {t}) = Cardinality(Announcing(h)) - 1
        BY <3>2, <4>1, FS_RemoveElement
      <4>3. Cardinality(Unregistered(h) \cup {t}) = Cardinality(Unregistered(h)) + 1
        BY <3>2, <4>1, FS_AddElement
      <4> QED
        BY <3>2, <4>2, <4>3
    <3>6. Announcements!(h)'
      <4>1. /\ ~registered[h] => announced[h] = Cardinality(Unregistered(h))
            /\ registered[h] => announced[h] + Cardinality(Announcing(h)) <= Versions
        BY <1>n DEF Announcements
      <4>2. /\ registered'[h] = registered[h] /\ announced'[h] = announced[h] + 1
            /\ announced[h] \in Nat /\ Cardinality(Announcing(h)) \in Nat /\ Versions \in Nat
        BY <3>1, <1>r, <1>f, VersionsAssumption
      <4>3. /\ ~registered'[h] => announced'[h] = Cardinality(Unregistered(h)')
            /\ registered'[h] => announced'[h] + Cardinality(Announcing(h)') <= Versions
        BY <3>5, <4>1, <4>2
      <4> QED
        BY <3>4, <4>3
    <3>7. ASSUME NEW g \in Hands, g # h PROVE Announcements!(g)'
      BY <3>1, <3>3, <3>4, <3>7, <1>n, <1>r DEF Announcements
    <3> QED
      BY <3>6, <3>7 DEF Announcements
  <2> QED
    BY <2>0, <2>5
<1>7. ASSUME NEW h \in Hands, NEW t \in ListenersOf(h), Register(h, t) PROVE Announcements'
  <2>1. /\ t \in Threads /\ announced' = announced /\ message' = message
        /\ registered' = [registered EXCEPT ![h] = TRUE]
        /\ pc[t] = "register" /\ pc'[t] = "idle" /\ \A u \in Threads : u # t => pc'[u] = pc[u]
    BY <1>7, <1>b, <1>pc DEF Register, Go, logger
  <2>2. ASSUME NEW g \in Hands PROVE Announcing(g)' = Announcing(g)
    BY <2>1, <1>b DEF Announcing
  <2>3. ASSUME NEW g \in Hands, g # h PROVE Unregistered(g)' = Unregistered(g)
    BY <2>1, <2>3, <1>b, <1>c DEF Unregistered
  <2>4. ASSUME NEW g \in Hands, NEW u \in ListenersOf(g), pc'[u] \in Logging PROVE message'[u] \in {g, "data"}
    BY <2>1, <2>4, <1>b, <1>n DEF Announcements, Logging
  <2>5. announced[h] + Cardinality(Announcing(h)) <= Versions
    <3>1. CASE registered[h]
      BY <3>1, <1>n DEF Announcements
    <3>2. CASE ~registered[h]
      <4>1. announced[h] = Cardinality(Unregistered(h))
        BY <3>2, <1>n DEF Announcements
      <4>2. Unregistered(h) \cap Announcing(h) = {} /\ Unregistered(h) \cup Announcing(h) \subseteq ListenersOf(h)
        BY DEF Unregistered, Announcing, Logging
      <4>3. Cardinality(Unregistered(h) \cup Announcing(h)) <= Versions
        BY <4>2, HandsListeners, FS_Subset
      <4>4. /\ Cardinality(Unregistered(h) \cup Announcing(h))
                 = Cardinality(Unregistered(h)) + Cardinality(Announcing(h)) - Cardinality(Unregistered(h) \cap Announcing(h))
            /\ Cardinality(Unregistered(h) \cap Announcing(h)) = 0
        BY <4>2, <1>f, FS_Union, FS_EmptySet
      <4> QED
        BY <4>1, <4>3, <4>4, <1>f, VersionsAssumption
    <3> QED
      BY <3>1, <3>2
  <2> QED
    BY <2>1, <2>2, <2>3, <2>4, <2>5, <1>n, <1>r DEF Announcements
<1>8. ASSUME NEW h \in Hands, NEW t \in ListenersOf(h), Data(h, t) PROVE Announcements'
  <2>0. CASE ~HasImplCallbacks(h)
    <3>1. Quiet
      BY <1>8, <2>0 DEF Data, Call, logger
    <3> QED
      BY <3>1, <1>q
  <2>5. CASE HasImplCallbacks(h)
    <3>1. /\ t \in Threads /\ registered' = registered /\ announced' = announced
          /\ message' = [message EXCEPT ![t] = "data"]
          /\ pc[t] = "data" /\ pc'[t] = "compare" /\ \A u \in Threads : u # t => pc'[u] = pc[u]
      BY <1>8, <2>5, <1>b, <1>pc DEF Data, Call, Log, Go
    <3>2. ASSUME NEW g \in Hands
          PROVE  Announcing(g)' = Announcing(g) /\ Unregistered(g)' = Unregistered(g)
      <4>1. g # "data"
        BY HandsAssumption
      <4> QED
        BY <3>1, <4>1, <1>b, <1>m DEF Announcing, Unregistered, Logging
    <3>3. ASSUME NEW g \in Hands, NEW u \in ListenersOf(g), pc'[u] \in Logging PROVE message'[u] \in {g, "data"}
      BY <3>1, <3>3, <1>b, <1>m, <1>n DEF Announcements
    <3> QED
      BY <3>1, <3>2, <3>3, <1>n DEF Announcements
  <2> QED
    BY <2>0, <2>5
<1>9. ASSUME NEW h \in Hands, NEW t \in ListenersOf(h), Pass(h, t) PROVE Announcements'
  <2>1. Quiet
    BY <1>9, <1>pc, <1>b DEF Pass, Call, HasCallbacks, Go, Logging, logger
  <2> QED
    BY <2>1, <1>q
<1>10. ASSUME NEW h \in Hands, NEW t \in ListenersOf(h), Compare(t) PROVE Announcements'
  <2>1. /\ registered' = registered /\ announced' = announced /\ message' = message
        /\ \A u \in Threads : u # t => pc'[u] = pc[u]
        /\ pc[t] \in Logging /\ pc'[t] \in Logging \cup {Logged(t)}
    BY <1>10, <1>b, <1>pc DEF Compare, Go, logger, Logging
  <2> QED
    BY <2>1, <1>l
<1>11. ASSUME NEW h \in Hands, NEW t \in ListenersOf(h), Assign(t) \/ DeliverLog(t) PROVE Announcements'
  <2>1. /\ registered' = registered /\ announced' = announced /\ message' = message
        /\ \A u \in Threads : u # t => pc'[u] = pc[u]
        /\ pc[t] \in Logging /\ pc'[t] \in Logging \cup {Logged(t)}
    BY <1>11, <1>b, <1>pc DEF Assign, DeliverLog, Go, Logging
  <2> QED
    BY <2>1, <1>l
<1>12. ASSUME NEW h \in Hands, NEW t \in ListenersOf(h), ReadClock(t) PROVE Announcements'
  <2>1. Quiet
    BY <1>12, <1>pc, <1>b DEF ReadClock, Go, Logging, logger
  <2> QED
    BY <2>1, <1>q
<1>13. ASSUME NEW h \in Hands, NEW t \in ListenersOf(h), Test(t) PROVE Announcements'
  <2>1. Quiet
    BY <1>13, <1>pc, <1>b DEF Test, Go, Logging, logger
  <2> QED
    BY <2>1, <1>q
<1>14. ASSUME NEW h \in Hands, NEW t \in ListenersOf(h), SendBundle(t) \/ StoreTime(t) PROVE Announcements'
  <2>1. Quiet
    BY <1>14, <1>pc, <1>b DEF SendBundle, StoreTime, Go, Logging, logger
  <2> QED
    BY <2>1, <1>q
<1>15. ASSUME NEW h \in Hands, NEW t \in ThreadsOf(h), WriteFirst(h, t) \/ WriteSecond(h, t) PROVE Announcements'
  <2>1. Quiet
    BY <1>15, <1>pc, <1>b DEF WriteFirst, WriteSecond, Go, Logging, logger
  <2> QED
    BY <2>1, <1>q
<1>16. ASSUME NEW h \in Hands, NEW t \in ThreadsOf(h), Report(h, t) PROVE Announcements'
  <2>1. Quiet
    BY <1>16, <1>pc, <1>b DEF Report, Go, Logging, logger
  <2> QED
    BY <2>1, <1>q
<1>17. ASSUME Tick PROVE Announcements'
  <2>1. Quiet
    BY <1>17, <1>pc, <1>b DEF Tick, Logging, logger
  <2> QED
    BY <2>1, <1>q
<1>18. CASE UNCHANGED vars
  <2>1. Quiet
    BY <1>18 DEF vars, logger
  <2> QED
    BY <2>1, <1>q
<1> QED
  BY <1>1, <1>2, <1>3, <1>4, <1>5, <1>6, <1>7, <1>8, <1>9, <1>10, <1>11, <1>12, <1>13, <1>14, <1>15, <1>16, <1>17, <1>18 DEF Next, Listen, Bend

\* A thread that comes to the skeleton knows of those at it, and they of it.
LEMMA NextBones == IInv /\ [Next]_vars => Bones'
<1> SUFFICES ASSUME IInv, [Next]_vars PROVE Bones'
  OBVIOUS
<1> DEFINE Quiet == /\ skeleton' = skeleton
                    /\ \A u \in Threads : pc'[u] \in Bending =>
                         pc'[u] = pc[u] /\ (together[u] => together'[u])
<1>pc. pc \in [Threads -> Places]
  BY DEF IInv, TypeOK
<1>t. together \in [Threads -> BOOLEAN]
  BY DEF IInv, TypeOK
<1>s. skeleton \in [Hands -> [{1, 2} -> Threads \cup {None}]]
  BY DEF IInv, TypeOK, Skeletons
<1>b. \A h \in Hands : ListenersOf(h) \subseteq Threads /\ ThreadsOf(h) \subseteq Threads /\ <<h, 0>> \in ThreadsOf(h)
  BY ThreadFacts
<1>c. \A h \in Hands : \A t \in ThreadsOf(h) : t[1] = h
  BY ThreadFacts
<1>d. \A t \in Threads : t[1] \in Hands /\ t \in ThreadsOf(t[1])
  BY ThreadFacts
<1>e. \A h \in Hands : ListenersOf(h) \subseteq ThreadsOf(h)
  BY ThreadFacts
<1>n. Bones
  BY DEF IInv
<1>q. Quiet => Bones'
  <2> SUFFICES ASSUME Quiet PROVE Bones'
    OBVIOUS
  <2>1. ASSUME NEW h \in Hands PROVE Alone(Bending, ThreadsOf(h))'
    <3>1. \A u \in ThreadsOf(h) : pc'[u] \in Bending => pc[u] \in Bending /\ (together[u] => together'[u])
      BY <1>b
    <3> QED
      BY <3>1, <1>n, StayAlone DEF Bones
  <2>2. ASSUME NEW t \in Threads, ~together'[t], pc'[t] \in {"second", "report"}
        PROVE  pc[t] = pc'[t] /\ ~together[t]
    BY <2>2 DEF Bending
  <2> QED
    BY <2>1, <2>2, <1>n DEF Bones
<1>1. ASSUME NEW h \in Hands, BeginListener(h) \/ Destroy(h) PROVE Bones'
  <2>1. Quiet
    BY <1>1, <1>pc, <1>t, <1>b DEF BeginListener, Destroy, Advance, Bending, Logging, Sending, logger, osc
  <2> QED
    BY <2>1, <1>q
<1>2. ASSUME NEW h \in Hands, Activate(h) PROVE Bones'
  <2>1. /\ <<h, 0>> \in ThreadsOf(h) /\ skeleton' = skeleton /\ pc'[<<h, 0>>] = "first"
        /\ \A u \in Threads : u # <<h, 0>> => pc'[u] = pc[u]
    BY <1>2, <1>b, <1>pc DEF Activate, Go
  <2>2. together' = [u \in Threads |->
                       IF u = <<h, 0>> THEN \E v \in ThreadsOf(h) \ {<<h, 0>>} : pc[v] \in Bending
                       ELSE together[u] \/ (u \in ThreadsOf(h) /\ pc[u] \in Bending)]
    BY <1>2 DEF Activate, Meet
  <2>3. \A g \in Hands : Alone(Bending, ThreadsOf(g))'
    <3> SUFFICES ASSUME NEW g \in Hands, NEW u \in ThreadsOf(g), NEW v \in ThreadsOf(g), u # v,
                        pc'[u] \in Bending, pc'[v] \in Bending
                 PROVE  together'[u]
      BY DEF Alone
    <3>0. u \in Threads /\ v \in Threads
      BY <1>b
    <3>1. CASE u = <<h, 0>>
      BY <2>1, <2>2, <3>0, <3>1, <1>c
    <3>2. CASE v = <<h, 0>>
      BY <2>1, <2>2, <3>0, <3>2, <1>c
    <3>3. CASE u # <<h, 0>> /\ v # <<h, 0>>
      <4>1. together[u]
        BY <2>1, <3>0, <3>3, <1>n DEF Bones, Alone
      <4> QED
        BY <4>1, <2>2, <3>0, <3>3
    <3> QED
      BY <3>1, <3>2, <3>3
  <2>4. ASSUME NEW u \in Threads, ~together'[u], pc'[u] \in {"second", "report"}
        PROVE  pc[u] = pc'[u] /\ ~together[u]
    BY <2>1, <2>2, <2>4
  <2> QED
    BY <2>1, <2>3, <2>4, <1>n DEF Bones
<1>3. ASSUME NEW h \in Hands, NEW t \in ListenersOf(h), StartPipe(h, t) \/ StopPipe(h, t) PROVE Bones'
  <2>1. Quiet
    BY <1>3, <1>pc, <1>t, <1>b DEF StartPipe, StopPipe, Go, Bending, Logging, Sending, logger, osc
  <2> QED
    BY <2>1, <1>q
<1>4. ASSUME NEW h \in Hands, NEW t \in ListenersOf(h), Client(t) PROVE Bones'
  <2>1. Quiet
    BY <1>4, <1>pc, <1>t, <1>b DEF Client, Go, Bending, Logging, Sending, logger, osc
  <2> QED
    BY <2>1, <1>q
<1>5. ASSUME NEW h \in Hands, NEW t \in ListenersOf(h), OnEvent(h, t) PROVE Bones'
  <2>1. Quiet
    BY <1>5, <1>pc, <1>t, <1>b DEF OnEvent, Call, HasImplCallbacks, Go, Bending, Logging, Sending, logger, osc
  <2> QED
    BY <2>1, <1>q
<1>6. ASSUME NEW h \in Hands, NEW t \in ListenersOf(h), Announce(h, t) PROVE Bones'
  <2>1. Quiet
    BY <1>6, <1>pc, <1>t, <1>b DEF Announce, Call, Log, HasCallbacks, Go, Bending, Logging, Sending, logger, osc
  <2> QED
    BY <2>1, <1>q
<1>7. ASSUME NEW h \in Hands, NEW t \in ListenersOf(h), Register(h, t) PROVE Bones'
  <2>1. Quiet
    BY <1>7, <1>pc, <1>t, <1>b DEF Register, Go, Bending, Logging, Sending, logger, osc
  <2> QED
    BY <2>1, <1>q
<1>8. ASSUME NEW h \in Hands, NEW t \in ListenersOf(h), Data(h, t) PROVE Bones'
  <2>1. Quiet
    BY <1>8, <1>pc, <1>t, <1>b DEF Data, Call, Log, HasImplCallbacks, Go, Bending, Logging, Sending, logger, osc
  <2> QED
    BY <2>1, <1>q
<1>9. ASSUME NEW h \in Hands, NEW t \in ListenersOf(h), Pass(h, t) PROVE Bones'
  <2>0. CASE ~HasCallbacks(h)
    <3>1. Quiet
      BY <1>9, <2>0 DEF Pass, Call
    <3> QED
      BY <3>1, <1>q
  <2>5. CASE HasCallbacks(h)
    <3>1. /\ t \in ThreadsOf(h) /\ skeleton' = skeleton /\ pc'[t] = "first"
          /\ \A u \in Threads : u # t => pc'[u] = pc[u]
      BY <1>9, <2>5, <1>b, <1>e, <1>pc DEF Pass, Call, Go
    <3>2. together' = [u \in Threads |->
                         IF u = t THEN \E v \in ThreadsOf(h) \ {t} : pc[v] \in Bending
                         ELSE together[u] \/ (u \in ThreadsOf(h) /\ pc[u] \in Bending)]
      BY <1>9, <2>5 DEF Pass, Call, Meet
    <3>3. \A g \in Hands : Alone(Bending, ThreadsOf(g))'
      <4> SUFFICES ASSUME NEW g \in Hands, NEW u \in ThreadsOf(g), NEW v \in ThreadsOf(g), u # v,
                          pc'[u] \in Bending, pc'[v] \in Bending
                   PROVE  together'[u]
        BY DEF Alone
      <4>0. u \in Threads /\ v \in Threads
        BY <1>b
      <4>1. CASE u = t
        BY <3>1, <3>2, <4>0, <4>1, <1>c
      <4>2. CASE v = t
        BY <3>1, <3>2, <4>0, <4>2, <1>c
      <4>3. CASE u # t /\ v # t
        <5>1. together[u]
          BY <3>1, <4>0, <4>3, <1>n DEF Bones, Alone
        <5> QED
          BY <5>1, <3>2, <4>0, <4>3
      <4> QED
        BY <4>1, <4>2, <4>3
    <3>4. ASSUME NEW u \in Threads, ~together'[u], pc'[u] \in {"second", "report"}
          PROVE  pc[u] = pc'[u] /\ ~together[u]
      BY <3>1, <3>2, <3>4
    <3> QED
      BY <3>1, <3>3, <3>4, <1>n DEF Bones
  
  <2> QED
    BY <2>0, <2>5
<1>10. ASSUME NEW h \in Hands, NEW t \in ListenersOf(h), Compare(t) PROVE Bones'
  <2>1. Quiet
    BY <1>10, <1>pc, <1>t, <1>b DEF Compare, Logged, Go, Bending, Logging, Sending, logger, osc
  <2> QED
    BY <2>1, <1>q
<1>11. ASSUME NEW h \in Hands, NEW t \in ListenersOf(h), Assign(t) \/ DeliverLog(t) PROVE Bones'
  <2>1. Quiet
    BY <1>11, <1>pc, <1>t, <1>b DEF Assign, DeliverLog, Logged, Go, Bending, Logging, Sending, logger, osc
  <2> QED
    BY <2>1, <1>q
<1>12. ASSUME NEW h \in Hands, NEW t \in ListenersOf(h), ReadClock(t) PROVE Bones'
  <2>1. Quiet
    BY <1>12, <1>pc, <1>t, <1>b DEF ReadClock, Meet, Go, Bending, Logging, Sending, logger, osc
  <2> QED
    BY <2>1, <1>q
<1>13. ASSUME NEW h \in Hands, NEW t \in ListenersOf(h), Test(t) PROVE Bones'
  <2>1. Quiet
    BY <1>13, <1>pc, <1>t, <1>b DEF Test, Go, Bending, Logging, Sending, logger, osc
  <2> QED
    BY <2>1, <1>q
<1>14. ASSUME NEW h \in Hands, NEW t \in ListenersOf(h), SendBundle(t) \/ StoreTime(t) PROVE Bones'
  <2>1. Quiet
    BY <1>14, <1>pc, <1>t, <1>b DEF SendBundle, StoreTime, Go, Bending, Logging, Sending, logger, osc
  <2> QED
    BY <2>1, <1>q
<1>15. ASSUME NEW h \in Hands, NEW t \in ThreadsOf(h), WriteFirst(h, t) \/ WriteSecond(h, t) PROVE Bones'
  <2>1. PICK part \in {1, 2} :
          /\ skeleton' = [skeleton EXCEPT ![h][part] = t]
          /\ part = 1 => pc[t] = "first" /\ pc'[t] = "second"
          /\ part = 2 => pc[t] = "second" /\ pc'[t] = "report"
    <3>0. t \in Threads
      BY <1>b
    <3>1. CASE WriteFirst(h, t)
      BY <3>0, <3>1, <1>pc DEF WriteFirst, Go
    <3>2. CASE WriteSecond(h, t)
      BY <3>0, <3>2, <1>pc DEF WriteSecond, Go
    <3> QED
      BY <1>15, <3>1, <3>2
  <2>2. t \in Threads /\ t[1] = h /\ together' = together /\ \A u \in Threads : u # t => pc'[u] = pc[u]
    <3>1. together' = together /\ \A u \in Threads : u # t => pc'[u] = pc[u]
      BY <1>15, <1>pc DEF WriteFirst, WriteSecond, Go
    <3> QED
      BY <3>1, <1>b, <1>c
  <2>3. pc[t] \in Bending /\ pc'[t] \in Bending
    BY <2>1 DEF Bending
  <2>4. ASSUME NEW g \in Hands PROVE Alone(Bending, ThreadsOf(g))'
    <3>1. \A u \in ThreadsOf(g) : pc'[u] \in Bending => pc[u] \in Bending /\ (together[u] => together'[u])
      BY <2>2, <2>3, <1>b
    <3> QED
      BY <3>1, <1>n, StayAlone DEF Bones
  <2>5. ASSUME NEW u \in Threads, ~together'[u]
        PROVE  /\ pc'[u] \in {"second", "report"} => skeleton'[u[1]][1] = u
               /\ pc'[u] = "report" => skeleton'[u[1]][2] = u
    <3>1. CASE u = t
      BY <2>1, <2>2, <2>5, <3>1, <1>n, <1>s DEF Bones
    <3>2. CASE u # t /\ u[1] = h
      <4>1. u \in ThreadsOf(h)
        BY <3>2, <1>d
      <4>2. pc[u] \notin Bending
        BY <2>2, <2>3, <2>5, <3>2, <4>1, <1>n DEF Bones, Alone
      <4> QED
        BY <2>2, <3>2, <4>2 DEF Bending
    <3>3. CASE u[1] # h
      <4>1. skeleton'[u[1]] = skeleton[u[1]] /\ pc'[u] = pc[u]
        BY <2>1, <2>2, <3>3, <1>d, <1>s
      <4> QED
        BY <2>2, <2>5, <4>1, <1>n DEF Bones
    <3> QED
      BY <3>1, <3>2, <3>3
  <2> QED
    BY <2>4, <2>5 DEF Bones
<1>16. ASSUME NEW h \in Hands, NEW t \in ThreadsOf(h), Report(h, t) PROVE Bones'
  <2>1. Quiet
    BY <1>16, <1>pc, <1>t, <1>b DEF Report, Go, Bending, Logging, Sending, logger, osc
  <2> QED
    BY <2>1, <1>q
<1>17. ASSUME Tick PROVE Bones'
  <2>1. Quiet
    BY <1>17, <1>pc, <1>t, <1>b DEF Tick, Bending, Logging, Sending, logger, osc
  <2> QED
    BY <2>1, <1>q
<1>18. CASE UNCHANGED vars
  <2>1. Quiet
    BY <1>18 DEF vars
  <2> QED
    BY <2>1, <1>q
<1> QED
  BY <1>1, <1>2, <1>3, <1>4, <1>5, <1>6, <1>7, <1>8, <1>9, <1>10, <1>11, <1>12, <1>13, <1>14, <1>15, <1>16, <1>17, <1>18 DEF Next, Listen, Bend

LEMMA NextLogs == IInv /\ [Next]_vars => Logs'
<1> SUFFICES ASSUME IInv, [Next]_vars PROVE Logs'
  OBVIOUS
<1>a. /\ pc \in [Threads -> Places]
      /\ message \in [Threads -> Hands \cup {"data"}] /\ Logs
  BY DEF IInv, TypeOK, Messages
<1>b. \A h \in Hands :
        /\ ListenersOf(h) \subseteq ThreadsOf(h) /\ ListenersOf(h) \subseteq Listeners
        /\ ThreadsOf(h) \subseteq Threads
        /\ <<h, 0>> \in ThreadsOf(h) /\ <<h, 0>> \notin Listeners
        /\ \A t \in ThreadsOf(h) : \A g \in Hands : t \in ThreadsOf(g) => g = h
  BY ThreadFacts
<1> USE <1>a, <1>b DEF Logs, Bending, Logging, Sending, logger, osc
<1>1. ASSUME NEW h \in Hands, BeginListener(h) \/ Destroy(h) PROVE Logs'
  BY <1>1 DEF BeginListener, Destroy, Advance
<1>2. ASSUME NEW h \in Hands, Activate(h) PROVE Logs'
  BY <1>2 DEF Activate, Go
<1>3. ASSUME NEW h \in Hands, NEW t \in ListenersOf(h), StartPipe(h, t) \/ StopPipe(h, t) PROVE Logs'
  BY <1>3 DEF StartPipe, StopPipe, Go
<1>4. ASSUME NEW h \in Hands, NEW t \in ListenersOf(h), Client(t) PROVE Logs'
  BY <1>4 DEF Client, Go
<1>5. ASSUME NEW h \in Hands, NEW t \in ListenersOf(h), OnEvent(h, t) PROVE Logs'
  BY <1>5 DEF OnEvent, Call, HasImplCallbacks, Go
<1>6. ASSUME NEW h \in Hands, NEW t \in ListenersOf(h), Announce(h, t) PROVE Logs'
  <2>1. CASE ~HasCallbacks(h)
    BY <1>6, <2>1 DEF Announce, Call
  <2>2. CASE HasCallbacks(h)
    <3>1. /\ pc'[t] = "compare" /\ \A u \in Threads : u # t => pc'[u] = pc[u] /\ message'[u] = message[u]
          /\ last_message' = last_message /\ delivered' = delivered
          /\ pc[t] \notin Logging
          /\ mixed' = (mixed \/ \E u \in Threads \ {t} : pc[u] \in Logging)
      BY <1>6, <2>2 DEF Announce, Call, Log, Go
    <3> QED
      BY <3>1
  <2> QED
    BY <2>1, <2>2
<1>7. ASSUME NEW h \in Hands, NEW t \in ListenersOf(h), Register(h, t) PROVE Logs'
  BY <1>7 DEF Register, Go
<1>8. ASSUME NEW h \in Hands, NEW t \in ListenersOf(h), Data(h, t) PROVE Logs'
  <2>1. CASE ~HasImplCallbacks(h)
    BY <1>8, <2>1 DEF Data, Call
  <2>2. CASE HasImplCallbacks(h)
    <3>1. /\ pc'[t] = "compare" /\ \A u \in Threads : u # t => pc'[u] = pc[u] /\ message'[u] = message[u]
          /\ last_message' = last_message /\ delivered' = delivered
          /\ pc[t] \notin Logging
          /\ mixed' = (mixed \/ \E u \in Threads \ {t} : pc[u] \in Logging)
      BY <1>8, <2>2 DEF Data, Call, Log, Go
    <3> QED
      BY <3>1
  <2> QED
    BY <2>1, <2>2
<1>9. ASSUME NEW h \in Hands, NEW t \in ListenersOf(h), Pass(h, t) PROVE Logs'
  BY <1>9 DEF Pass, Call, HasCallbacks, Go
<1>10. ASSUME NEW h \in Hands, NEW t \in ListenersOf(h), Compare(t) PROVE Logs'
  BY <1>10 DEF Compare, Logged, Go
<1>11. ASSUME NEW h \in Hands, NEW t \in ListenersOf(h), Assign(t) \/ DeliverLog(t) PROVE Logs'
  <2>1. /\ pc[t] \in Logging /\ message' = message /\ mixed' = mixed /\ t \in Threads
        /\ \A u \in Threads : u # t => pc'[u] = pc[u]
    BY <1>11 DEF Assign, DeliverLog, Go
  <2>2. CASE Assign(t)
    <3>1. pc[t] = "assign" /\ pc'[t] = "deliver" /\ last_message' = message[t] /\ delivered' = delivered
      BY <2>2 DEF Assign, Go
    <3> QED
      BY <2>1, <3>1
  <2>3. CASE DeliverLog(t)
    <3>1. pc[t] = "deliver" /\ pc'[t] \notin Logging /\ last_message' = last_message /\ delivered' = message[t]
      BY <2>3 DEF DeliverLog, Go, Logged
    <3> QED
      BY <2>1, <3>1
  <2> QED
    BY <1>11, <2>2, <2>3
<1>12. ASSUME NEW h \in Hands, NEW t \in ListenersOf(h), ReadClock(t) PROVE Logs'
  BY <1>12 DEF ReadClock, Go
<1>13. ASSUME NEW h \in Hands, NEW t \in ListenersOf(h), Test(t) PROVE Logs'
  BY <1>13 DEF Test, Go
<1>14. ASSUME NEW h \in Hands, NEW t \in ListenersOf(h), SendBundle(t) \/ StoreTime(t) PROVE Logs'
  BY <1>14 DEF SendBundle, StoreTime, Go
<1>15. ASSUME NEW h \in Hands, NEW t \in ThreadsOf(h), WriteFirst(h, t) \/ WriteSecond(h, t) PROVE Logs'
  BY <1>15 DEF WriteFirst, WriteSecond, Go
<1>16. ASSUME NEW h \in Hands, NEW t \in ThreadsOf(h), Report(h, t) PROVE Logs'
  BY <1>16 DEF Report, Go
<1>17. ASSUME Tick PROVE Logs'
  BY <1>17 DEF Tick
<1>18. CASE UNCHANGED vars
  BY <1>18 DEF vars, logger, osc
<1> QED
  BY <1>1, <1>2, <1>3, <1>4, <1>5, <1>6, <1>7, <1>8, <1>9, <1>10, <1>11, <1>12, <1>13, <1>14, <1>15, <1>16, <1>17, <1>18 DEF Next, Listen, Bend

\* What ages alike stays ordered; the clocks are read and kept one thread at a time.
LEMMA NextClocks == IInv /\ [Next]_vars => Clocks'
<1> SUFFICES ASSUME IInv, [Next]_vars PROVE Clocks'
  OBVIOUS
<1> DEFINE Quiet == /\ last_send_time' = last_send_time /\ sent' = sent
                    /\ \A u \in Listeners :
                         /\ pc'[u] \in Sending =>
                              pc'[u] = pc[u] /\ now'[u] = now[u] /\ (together[u] => together'[u])
                         /\ pc[u] = "store" => pc'[u] = "store"
<1>pc. pc \in [Threads -> Places]
  BY DEF IInv, TypeOK
<1>t. together \in [Threads -> BOOLEAN]
  BY DEF IInv, TypeOK
<1>w. now \in [Threads -> 0 .. MaxDelay]
  BY DEF IInv, TypeOK
<1>s. last_send_time \in 0 .. MaxAge /\ sent \in 0 .. MaxAge
  BY DEF IInv, TypeOK
<1>m. MaxDelay \in Nat /\ Period \in Nat /\ MaxAge = Period + MaxDelay
  BY PeriodAssumption DEF MaxAge
<1>b. /\ Listeners \subseteq Threads
      /\ \A h \in Hands : ListenersOf(h) \subseteq Listeners /\ ThreadsOf(h) \subseteq Threads
                          /\ <<h, 0>> \in Threads /\ <<h, 0>> \notin Listeners
  BY ThreadFacts
<1>n. Clocks
  BY DEF IInv
<1>q. Quiet => Clocks'
  <2> SUFFICES ASSUME Quiet PROVE Clocks'
    OBVIOUS
  <2>1. Alone(Sending, Listeners)'
    <3>1. \A u \in Listeners : pc'[u] \in Sending => pc[u] \in Sending /\ (together[u] => together'[u])
      OBVIOUS
    <3> QED
      BY <3>1, <1>n, StayAlone DEF Clocks
  <2>2. (\A u \in Listeners : pc'[u] # "store") => last_send_time' <= sent' + MaxDelay
    BY <1>n DEF Clocks
  <2>3. ASSUME NEW u \in Listeners
        PROVE  /\ pc'[u] = "store" => sent' <= now'[u]
               /\ pc'[u] = "send" /\ ~together'[u] => last_send_time' - now'[u] >= Period
    BY <1>n DEF Clocks, Sending
  <2> QED
    BY <2>1, <2>2, <2>3, <1>n DEF Clocks
<1>1. ASSUME NEW h \in Hands, BeginListener(h) \/ Destroy(h) PROVE Clocks'
  <2>1. Quiet
    BY <1>1, <1>pc, <1>t, <1>b DEF BeginListener, Destroy, Advance, Bending, Logging, Sending, logger, osc
  <2> QED
    BY <2>1, <1>q
<1>2. ASSUME NEW h \in Hands, Activate(h) PROVE Clocks'
  <2>1. Quiet
    BY <1>2, <1>pc, <1>t, <1>b DEF Activate, Meet, Go, Bending, Logging, Sending, logger, osc
  <2> QED
    BY <2>1, <1>q
<1>3. ASSUME NEW h \in Hands, NEW t \in ListenersOf(h), StartPipe(h, t) \/ StopPipe(h, t) PROVE Clocks'
  <2>1. Quiet
    BY <1>3, <1>pc, <1>t, <1>b DEF StartPipe, StopPipe, Go, Bending, Logging, Sending, logger, osc
  <2> QED
    BY <2>1, <1>q
<1>4. ASSUME NEW h \in Hands, NEW t \in ListenersOf(h), Client(t) PROVE Clocks'
  <2>1. Quiet
    BY <1>4, <1>pc, <1>t, <1>b DEF Client, Go, Bending, Logging, Sending, logger, osc
  <2> QED
    BY <2>1, <1>q
<1>5. ASSUME NEW h \in Hands, NEW t \in ListenersOf(h), OnEvent(h, t) PROVE Clocks'
  <2>1. Quiet
    BY <1>5, <1>pc, <1>t, <1>b DEF OnEvent, Call, HasImplCallbacks, Go, Bending, Logging, Sending, logger, osc
  <2> QED
    BY <2>1, <1>q
<1>6. ASSUME NEW h \in Hands, NEW t \in ListenersOf(h), Announce(h, t) PROVE Clocks'
  <2>1. Quiet
    BY <1>6, <1>pc, <1>t, <1>b DEF Announce, Call, Log, HasCallbacks, Go, Bending, Logging, Sending, logger, osc
  <2> QED
    BY <2>1, <1>q
<1>7. ASSUME NEW h \in Hands, NEW t \in ListenersOf(h), Register(h, t) PROVE Clocks'
  <2>1. Quiet
    BY <1>7, <1>pc, <1>t, <1>b DEF Register, Go, Bending, Logging, Sending, logger, osc
  <2> QED
    BY <2>1, <1>q
<1>8. ASSUME NEW h \in Hands, NEW t \in ListenersOf(h), Data(h, t) PROVE Clocks'
  <2>1. Quiet
    BY <1>8, <1>pc, <1>t, <1>b DEF Data, Call, Log, HasImplCallbacks, Go, Bending, Logging, Sending, logger, osc
  <2> QED
    BY <2>1, <1>q
<1>9. ASSUME NEW h \in Hands, NEW t \in ListenersOf(h), Pass(h, t) PROVE Clocks'
  <2>1. Quiet
    BY <1>9, <1>pc, <1>t, <1>b DEF Pass, Call, Meet, HasCallbacks, Go, Bending, Logging, Sending, logger, osc
  <2> QED
    BY <2>1, <1>q
<1>10. ASSUME NEW h \in Hands, NEW t \in ListenersOf(h), Compare(t) PROVE Clocks'
  <2>1. Quiet
    BY <1>10, <1>pc, <1>t, <1>b DEF Compare, Logged, Go, Bending, Logging, Sending, logger, osc
  <2> QED
    BY <2>1, <1>q
<1>11. ASSUME NEW h \in Hands, NEW t \in ListenersOf(h), Assign(t) \/ DeliverLog(t) PROVE Clocks'
  <2>1. Quiet
    BY <1>11, <1>pc, <1>t, <1>b DEF Assign, DeliverLog, Logged, Go, Bending, Logging, Sending, logger, osc
  <2> QED
    BY <2>1, <1>q
<1>12. ASSUME NEW h \in Hands, NEW t \in ListenersOf(h), ReadClock(t) PROVE Clocks'
  <2>1. /\ t \in Listeners /\ pc'[t] = "test" /\ last_send_time' = last_send_time /\ sent' = sent /\ now' = now
        /\ pc[t] # "store" /\ \A u \in Threads : u # t => pc'[u] = pc[u]
    BY <1>12, <1>b, <1>pc DEF ReadClock, Go, osc
  <2>2. together' = [u \in Threads |->
                       IF u = t THEN \E v \in Listeners \ {t} : pc[v] \in Sending
                       ELSE together[u] \/ (u \in Listeners /\ pc[u] \in Sending)]
    BY <1>12 DEF ReadClock, Meet
  <2>3. Alone(Sending, Listeners)'
    <3> SUFFICES ASSUME NEW u \in Listeners, NEW v \in Listeners, u # v, pc'[u] \in Sending, pc'[v] \in Sending
                 PROVE  together'[u]
      BY DEF Alone
    <3>0. u \in Threads /\ v \in Threads
      BY <1>b
    <3>1. CASE u = t
      BY <2>1, <2>2, <3>0, <3>1
    <3>2. CASE v = t
      BY <2>1, <2>2, <3>0, <3>2
    <3>3. CASE u # t /\ v # t
      <4>1. together[u]
        BY <2>1, <3>0, <3>3, <1>n DEF Clocks, Alone
      <4> QED
        BY <4>1, <2>2, <3>0, <3>3
    <3> QED
      BY <3>1, <3>2, <3>3
  <2>4. ASSUME NEW u \in Listeners
        PROVE  /\ pc'[u] \in {"send", "store"} => u # t /\ pc[u] = pc'[u] /\ (together[u] => together'[u])
               /\ pc[u] = "store" => pc'[u] = "store"
    BY <1>b, <2>1, <2>2
  <2> QED
    BY <2>1, <2>3, <2>4, <1>n DEF Clocks
<1>13. ASSUME NEW h \in Hands, NEW t \in ListenersOf(h), Test(t) PROVE Clocks'
  <2>1. /\ t \in Listeners /\ t \in Threads /\ pc[t] = "test" /\ together' = together
        /\ last_send_time' = last_send_time /\ sent' = sent
        /\ \A u \in Threads : u # t => pc'[u] = pc[u] /\ now'[u] = now[u]
    BY <1>13, <1>b, <1>pc, <1>w DEF Test, Go
  <2>2. \/ pc'[t] = "idle"
        \/ pc'[t] = "send" /\ now'[t] = now[t] /\ last_send_time - now[t] >= Period
    BY <1>13, <2>1, <1>pc, <1>w, <1>s, <1>m DEF Test, Go, Rests
  <2>3. Alone(Sending, Listeners)'
    <3>1. \A u \in Listeners : pc'[u] \in Sending => pc[u] \in Sending /\ (together[u] => together'[u])
      BY <2>1, <2>2, <1>b DEF Sending
    <3> QED
      BY <3>1, <1>n, StayAlone DEF Clocks
  <2>4. ASSUME NEW u \in Listeners
        PROVE  /\ pc'[u] = "store" => sent' <= now'[u]
               /\ pc'[u] = "send" /\ ~together'[u] => last_send_time' - now'[u] >= Period
    BY <1>b, <2>1, <2>2, <1>n DEF Clocks
  <2>5. \A u \in Listeners : pc[u] = "store" => pc'[u] = "store"
    BY <1>b, <2>1
  <2> QED
    BY <2>1, <2>3, <2>4, <2>5, <1>n DEF Clocks
<1>14. ASSUME NEW h \in Hands, NEW t \in ListenersOf(h), SendBundle(t) \/ StoreTime(t) PROVE Clocks'
  <2>1. CASE SendBundle(t)
    <3>1. /\ t \in Listeners /\ t \in Threads /\ pc[t] = "send" /\ pc'[t] = "store" /\ together' = together
          /\ now' = now /\ last_send_time' = last_send_time /\ sent' = 0
          /\ \A u \in Threads : u # t => pc'[u] = pc[u]
      BY <2>1, <1>b, <1>pc DEF SendBundle, Go
    <3>2. Alone(Sending, Listeners)'
      <4>1. \A u \in Listeners : pc'[u] \in Sending => pc[u] \in Sending /\ (together[u] => together'[u])
        BY <3>1, <1>b DEF Sending
      <4> QED
        BY <4>1, <1>n, StayAlone DEF Clocks
    <3>3. ASSUME NEW u \in Listeners
          PROVE  /\ pc'[u] = "store" => sent' <= now'[u]
                 /\ pc'[u] = "send" /\ ~together'[u] => last_send_time' - now'[u] >= Period
      BY <1>b, <1>w, <1>m, <3>1, <1>n DEF Clocks
    <3> QED
      BY <3>1, <3>2, <3>3, <1>s DEF Clocks
  <2>2. CASE StoreTime(t)
    <3>1. /\ t \in Listeners /\ t \in Threads /\ pc[t] = "store" /\ pc'[t] = "idle" /\ together' = together
          /\ last_send_time' = now[t] /\ sent' = sent
          /\ \A u \in Threads : u # t => pc'[u] = pc[u] /\ now'[u] = now[u]
      BY <2>2, <1>b, <1>pc, <1>w DEF StoreTime, Go
    <3>2. Alone(Sending, Listeners)'
      <4>1. \A u \in Listeners : pc'[u] \in Sending => pc[u] \in Sending /\ (together[u] => together'[u])
        BY <3>1, <1>b DEF Sending
      <4> QED
        BY <4>1, <1>n, StayAlone DEF Clocks
    <3>3. ASSUME NEW u \in Listeners, u # t
          PROVE  /\ pc'[u] = "store" => sent' <= now'[u]
                 /\ ~(pc'[u] = "send" /\ ~together'[u])
      <4>1. pc[u] = "send" => together[u]
        BY <3>1, <3>3, <1>n DEF Clocks, Alone, Sending
      <4> QED
        BY <1>b, <3>1, <3>3, <4>1, <1>n DEF Clocks
    <3>4. sent <= now[t] /\ now[t] \in 0 .. MaxDelay
      BY <3>1, <1>w, <1>n DEF Clocks
    <3> QED
      BY <3>1, <3>2, <3>3, <3>4, <1>s, <1>m DEF Clocks
  <2> QED
    BY <1>14, <2>1, <2>2
<1>15. ASSUME NEW h \in Hands, NEW t \in ThreadsOf(h), WriteFirst(h, t) \/ WriteSecond(h, t) PROVE Clocks'
  <2>1. Quiet
    BY <1>15, <1>pc, <1>t, <1>b DEF WriteFirst, WriteSecond, Go, Bending, Logging, Sending, logger, osc
  <2> QED
    BY <2>1, <1>q
<1>16. ASSUME NEW h \in Hands, NEW t \in ThreadsOf(h), Report(h, t) PROVE Clocks'
  <2>1. Quiet
    BY <1>16, <1>pc, <1>t, <1>b DEF Report, Go, Bending, Logging, Sending, logger, osc
  <2> QED
    BY <2>1, <1>q
<1>17. ASSUME Tick PROVE Clocks'
  <2>1. pc' = pc /\ together' = together
    BY <1>17 DEF Tick
  <2>2. last_send_time' = Older(last_send_time) /\ sent' = Older(sent)
    BY <1>17 DEF Tick
  <2>3. \A u \in Listeners : pc[u] \in Sending => now[u] < MaxDelay /\ now'[u] = now[u] + 1
    BY <1>17, <1>b DEF Tick
  <2>4. ASSUME NEW u \in Listeners
        PROVE  /\ pc'[u] = "store" => sent' <= now'[u]
               /\ pc'[u] = "send" /\ ~together'[u] => last_send_time' - now'[u] >= Period
    <3>1. now[u] \in 0 .. MaxDelay
      BY <1>b, <1>w
    <3>2. CASE pc[u] = "store"
      BY <2>1, <2>2, <2>3, <3>1, <3>2, <1>n, <1>s, <1>m DEF Clocks, Sending, Older
    <3>3. CASE pc[u] = "send"
      BY <2>1, <2>2, <2>3, <3>1, <3>3, <1>n, <1>s, <1>m DEF Clocks, Sending, Older
    <3> QED
      BY <2>1, <3>2, <3>3
  <2>5. sent' <= last_send_time'
    BY <2>2, <1>n, <1>s, <1>m DEF Clocks, Older
  <2>6. last_send_time <= sent + MaxDelay => last_send_time' <= sent' + MaxDelay
    BY <2>2, <1>s, <1>m DEF Older
  <2> QED
    BY <2>1, <2>4, <2>5, <2>6, <1>n DEF Clocks, Alone
<1>18. CASE UNCHANGED vars
  <2>1. Quiet
    BY <1>18 DEF vars, osc
  <2> QED
    BY <2>1, <1>q
<1> QED
  BY <1>1, <1>2, <1>3, <1>4, <1>5, <1>6, <1>7, <1>8, <1>9, <1>10, <1>11, <1>12, <1>13, <1>14, <1>15, <1>16, <1>17, <1>18 DEF Next, Listen, Bend

\* Send returns at once only when the time kept is too recent.
RestedOnly ==
  \A t \in Listeners : pc[t] = "test" /\ pc'[t] = "idle" => last_send_time - now[t] < Period

LEMMA NextRestedOnly == IInv /\ [Next]_vars => RestedOnly
<1> SUFFICES ASSUME IInv, [Next]_vars PROVE RestedOnly
  OBVIOUS
<1>pc. pc \in [Threads -> Places]
  BY DEF IInv, TypeOK
<1>b. /\ Listeners \subseteq Threads
      /\ \A h \in Hands : ListenersOf(h) \subseteq Listeners /\ ThreadsOf(h) \subseteq Threads
                          /\ <<h, 0>> \in Threads /\ <<h, 0>> \notin Listeners
  BY ThreadFacts
<1>1. ASSUME NEW h \in Hands, BeginListener(h) \/ Destroy(h) PROVE RestedOnly
  BY <1>1, <1>pc, <1>b DEF RestedOnly, BeginListener, Destroy, Advance
<1>2. ASSUME NEW h \in Hands, Activate(h) PROVE RestedOnly
  BY <1>2, <1>pc, <1>b DEF RestedOnly, Activate, Go
<1>3. ASSUME NEW h \in Hands, NEW t \in ListenersOf(h), StartPipe(h, t) \/ StopPipe(h, t) PROVE RestedOnly
  BY <1>3, <1>pc, <1>b DEF RestedOnly, StartPipe, StopPipe, Go
<1>4. ASSUME NEW h \in Hands, NEW t \in ListenersOf(h), Client(t) PROVE RestedOnly
  BY <1>4, <1>pc, <1>b DEF RestedOnly, Client, Go
<1>5. ASSUME NEW h \in Hands, NEW t \in ListenersOf(h), OnEvent(h, t) PROVE RestedOnly
  BY <1>5, <1>pc, <1>b DEF RestedOnly, OnEvent, Call, HasImplCallbacks, Go
<1>6. ASSUME NEW h \in Hands, NEW t \in ListenersOf(h), Announce(h, t) PROVE RestedOnly
  BY <1>6, <1>pc, <1>b DEF RestedOnly, Announce, Call, Log, HasCallbacks, Go
<1>7. ASSUME NEW h \in Hands, NEW t \in ListenersOf(h), Register(h, t) PROVE RestedOnly
  BY <1>7, <1>pc, <1>b DEF RestedOnly, Register, Go
<1>8. ASSUME NEW h \in Hands, NEW t \in ListenersOf(h), Data(h, t) PROVE RestedOnly
  BY <1>8, <1>pc, <1>b DEF RestedOnly, Data, Call, Log, HasImplCallbacks, Go
<1>9. ASSUME NEW h \in Hands, NEW t \in ListenersOf(h), Pass(h, t) PROVE RestedOnly
  BY <1>9, <1>pc, <1>b DEF RestedOnly, Pass, Call, HasCallbacks, Go
<1>10. ASSUME NEW h \in Hands, NEW t \in ListenersOf(h), Compare(t) PROVE RestedOnly
  BY <1>10, <1>pc, <1>b DEF RestedOnly, Compare, Logged, Go
<1>11. ASSUME NEW h \in Hands, NEW t \in ListenersOf(h), Assign(t) \/ DeliverLog(t) PROVE RestedOnly
  BY <1>11, <1>pc, <1>b DEF RestedOnly, Assign, DeliverLog, Logged, Go
<1>12. ASSUME NEW h \in Hands, NEW t \in ListenersOf(h), ReadClock(t) PROVE RestedOnly
  BY <1>12, <1>pc, <1>b DEF RestedOnly, ReadClock, Go
<1>13. ASSUME NEW h \in Hands, NEW t \in ListenersOf(h), Test(t) PROVE RestedOnly
  <2>1. t \in Listeners /\ \A u \in Threads : u # t => pc'[u] = pc[u]
    BY <1>13, <1>pc, <1>b DEF RestedOnly, Test, Go
  <2>2. pc'[t] = "idle" => Rests(t)
    BY <1>13, <2>1, <1>pc, <1>b DEF Test, Go
  <2> QED
    BY <2>1, <2>2, <1>b DEF Rests, RestedOnly
<1>14. ASSUME NEW h \in Hands, NEW t \in ListenersOf(h), SendBundle(t) \/ StoreTime(t) PROVE RestedOnly
  BY <1>14, <1>pc, <1>b DEF RestedOnly, SendBundle, StoreTime, Go
<1>15. ASSUME NEW h \in Hands, NEW t \in ThreadsOf(h), WriteFirst(h, t) \/ WriteSecond(h, t) PROVE RestedOnly
  BY <1>15, <1>pc, <1>b DEF RestedOnly, WriteFirst, WriteSecond, Go
<1>16. ASSUME NEW h \in Hands, NEW t \in ThreadsOf(h), Report(h, t) PROVE RestedOnly
  BY <1>16, <1>pc, <1>b DEF RestedOnly, Report, Go
<1>17. ASSUME Tick PROVE RestedOnly
  BY <1>17, <1>pc, <1>b DEF RestedOnly, Tick
<1>18. CASE UNCHANGED vars
  BY <1>18 DEF vars, RestedOnly
<1> QED
  BY <1>1, <1>2, <1>3, <1>4, <1>5, <1>6, <1>7, <1>8, <1>9, <1>10, <1>11, <1>12, <1>13, <1>14, <1>15, <1>16, <1>17, <1>18 DEF Next, Listen, Bend

--------------------------------------------------------------------------------
(* The theorems.                                                              *)

LEMMA Invariance == Spec => []IInv
<1>1. IInv /\ [Next]_vars => IInv'
  BY NextTypeOK, NextLifetimes, NextAnnouncements, NextBones, NextLogs, NextClocks,
     NextCrashNeedsDestruction DEF IInv
<1> QED
  BY InitInvariant, <1>1, PTL DEF Spec

\* The types of the threads', the hands' and the shared objects' state.
THEOREM TypeCorrect == Spec => []TypeOK
<1>1. IInv => TypeOK
  BY DEF IInv
<1> QED
  BY <1>1, Invariance, PTL

\* A listener never calls an assigned or a cleared callback but while the destructors
\* are at work (named_pipe_communication_manager.cpp 94-137, 184-189).
THEOREM CrashesNeedDestruction == Spec => []CrashNeedsDestruction
<1>1. IInv => CrashNeedsDestruction
  BY DEF IInv
<1> QED
  BY <1>1, Invariance, PTL

\* A hand is announced once for each of its pipes at most, for any number of pipes
\* (named_pipe_communication_manager.cpp 122-130).
THEOREM AnnouncedOnce == Spec => []AnnouncedOncePerPipe
<1>1. IInv => AnnouncedOncePerPipe
  <2> SUFFICES ASSUME IInv, NEW h \in Hands PROVE announced[h] <= Versions
    BY DEF AnnouncedOncePerPipe
  <2>1. announced[h] \in Nat /\ registered[h] \in BOOLEAN
    BY DEF IInv, TypeOK
  <2>2. Announcing(h) \subseteq ListenersOf(h) /\ Unregistered(h) \subseteq ListenersOf(h)
    BY DEF Announcing, Unregistered
  <2>3. Cardinality(Announcing(h)) \in Nat /\ Cardinality(Unregistered(h)) <= Versions
    BY <2>2, HandsListeners, FS_Subset, FS_CardinalityType
  <2> QED
    BY <2>1, <2>3, VersionsAssumption DEF IInv, Announcements
<1> QED
  BY <1>1, Invariance, PTL

\* A thread that was alone reports the skeleton it has written (knuckle_device_driver.cpp
\* 29-31, 124-127; hand_tracking.cpp 219-235).
THEOREM LoneSkeletonsAreWhole == Spec => []SkeletonsAreWhole
<1>1. IInv => SkeletonsAreWhole
  BY DEF IInv, Bones, SkeletonsAreWhole
<1> QED
  BY <1>1, Invariance, PTL

\* og::Logger's subscribers see no repetition that a race did not cause
\* (opengloves_interface.h 224-233).
THEOREM RepetitionNeedsARace == Spec => []RepeatsNeedARace
<1>1. IInv => RepeatsNeedARace
  BY DEF IInv, Logs, RepeatsNeedARace
<1> QED
  BY <1>1, Invariance, PTL

\* OutputOSCServer::Send keeps bundles apart (output_osc.cpp 56-63).
THEOREM BundlesAreApart == Spec => OneBundlePerPeriod
<1>1. IInv /\ [Next]_vars =>
        \A t \in Listeners :
          /\ pc[t] = "test" /\ pc'[t] = "idle" => sent - now[t] < Period
          /\ pc[t] = "send" /\ pc'[t] = "store" /\ ~together[t] => sent >= Period - MaxDelay
  <2> SUFFICES ASSUME IInv, [Next]_vars, NEW t \in Listeners
               PROVE  /\ pc[t] = "test" /\ pc'[t] = "idle" => sent - now[t] < Period
                      /\ pc[t] = "send" /\ ~together[t] => sent >= Period - MaxDelay
    OBVIOUS
  <2>1. /\ MaxDelay \in Nat /\ Period \in Nat /\ MaxAge \in Nat
        /\ last_send_time \in 0 .. MaxAge /\ sent \in 0 .. MaxAge /\ now[t] \in 0 .. MaxDelay
    <3>1. t \in Threads
      BY ThreadFacts
    <3>2. MaxDelay \in Nat /\ Period \in Nat /\ MaxAge \in Nat
      BY PeriodAssumption DEF MaxAge
    <3> QED
      BY <3>1, <3>2 DEF IInv, TypeOK
  <2>2. Clocks
    BY DEF IInv
  <2>3. pc[t] = "test" /\ pc'[t] = "idle" => sent - now[t] < Period
    BY <2>1, <2>2, NextRestedOnly DEF RestedOnly, Clocks
  <2>4. ASSUME pc[t] = "send", ~together[t] PROVE sent >= Period - MaxDelay
    <3>1. \A u \in Listeners : pc[u] # "store"
      BY <2>2, <2>4 DEF Clocks, Alone, Sending
    <3> QED
      BY <2>1, <2>2, <2>4, <3>1 DEF Clocks
  <2> QED
    BY <2>3, <2>4
<1> QED
  BY <1>1, Invariance, PTL DEF Spec, OneBundlePerPeriod

================================================================================
