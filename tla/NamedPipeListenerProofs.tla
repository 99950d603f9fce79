------------------------ MODULE NamedPipeListenerProofs ------------------------
(* Machine-checked proofs about NamedPipeListener, for every bound.            *)
EXTENDS NamedPipeListener, TLAPS

--------------------------------------------------------------------------------
(* The inductive invariant.                                                    *)

\* Before the first Connect there is no call and no data.
Fresh ==
  /\ io = "none" /\ result = NoResult /\ request = NoResult /\ received = 0
  /\ pc # "connect" => pipe = "none"

\* Where the thread decides what to do next, the event, the outstanding call, the
\* collected result and the state agree.
Agree ==
  /\ pc \in {"off", "create", "connect"} => Fresh
  /\ pc \in {"test", "wait", "collect", "use", "close"} =>
       /\ signalled <=> io = "none"
       /\ io # "none" => result = NoResult
       /\ io = "connect" => state = "Connecting"
       /\ io = "read" => state = "Reading"
       /\ result = Connected => state = "Connecting"
       /\ result \notin {NoResult, Connected} => state = "Reading"
       /\ state = "Callback" <=> request # NoResult
       /\ request # NoResult => io = "none" /\ result = NoResult
       /\ pipe = "listening" <=> io = "connect"
       /\ io = "read" => pipe = "connected" /\ buffer = <<>>
       /\ pipe # "none"
  /\ pc \in {"test", "wait", "close"} =>
       /\ pending_io <=> io # "none" \/ result # NoResult
       /\ state = "Connecting" => pending_io
  /\ pc = "collect" => pending_io /\ io = "none" /\ result # NoResult
  /\ pc = "use" => /\ io = "none" /\ result = NoResult /\ state # "Connecting"
                   /\ state = "Callback" => ~pending_io
  /\ pc \in {"ended", "leaked"} => io = "none" /\ result.n = 0 /\ request = NoResult
  /\ pc = "ended" => pipe = "none"
  /\ pc \in {"connect", "leaked"} => pipe # "none"

\* The owner, thread_active_ and the thread.
Lifecycle ==
  /\ active <=> owner = "running"
  /\ owner = "idle" <=> pc = "off" /\ owner # "gone"
  /\ owner = "gone" => pc \in {"off", "ended", "leaked"}
  /\ late <= 1
  /\ active \/ pc \in {"off", "create", "connect", "wait", "collect", "use"} => late = 0

\* Nothing is buffered or counted on a pipe without a client.
Idle == pipe \in {"none", "listening"} =>
          buffer = <<>> /\ written = <<>> /\ received = 0 /\ request = NoResult /\ result.n = 0

IInv == TypeOK /\ Agree /\ Lifecycle /\ Idle /\ NothingSkipped

--------------------------------------------------------------------------------
(* Types.                                                                      *)

\* The results that are not messages, and the two kinds of result told apart.
LEMMA ResultKinds ==
  /\ NoResult \in Results /\ Connected \in Results /\ Broken \in Results
  /\ NoResult # Connected /\ NoResult # Broken /\ Connected # Broken
  /\ \A m \in Messages : /\ m \in Results /\ m.n \in Nat /\ m.n > 0 /\ m.kind \in Kinds
                          /\ m \notin {NoResult, Connected, Broken}
  /\ NoResult.n = 0 /\ Connected.n = 0 /\ Broken.n = 0 /\ NoResult.kind = "none"
  /\ \A r \in Results : r.kind \in Kinds \/ r.n > 0 => r \in Messages
<1>1. /\ NoResult.n = 0 /\ Connected.n = 0 /\ Broken.n = 0
      /\ NoResult.kind = "none" /\ Connected.kind = "connected" /\ Broken.kind = "broken"
  BY DEF NoResult, Connected, Broken
<1>2. ASSUME NEW m \in Messages PROVE m.n \in Nat /\ m.n > 0 /\ m.kind \in Kinds
  BY DEF Messages
<1>3. "none" \notin Kinds /\ "connected" \notin Kinds /\ "broken" \notin Kinds
  BY DEF Kinds
<1>4. \A r \in Results : r \in Messages \/ r \in {NoResult, Connected, Broken}
  BY DEF Results
<1>5. NoResult \in Results /\ Connected \in Results /\ Broken \in Results
      /\ Messages \subseteq Results
  BY DEF Results
<1> QED
  BY <1>1, <1>2, <1>3, <1>4, <1>5

LEMMA EmptySequences == <<>> \in Seq(Messages) /\ <<>> \in Seq(Kinds) /\ Len(<<>>) = 0
OBVIOUS

LEMMA NamedResults == NoResult \in Results /\ Connected \in Results /\ Broken \in Results
BY ResultKinds

LEMMA ReconnectType ==
  ASSUME TypeOK, DisconnectAndReconnect
  PROVE  /\ pipe' = "listening" /\ io' = "connect" /\ result' \in Results
         /\ signalled' \in BOOLEAN /\ pending_io' \in BOOLEAN /\ state' = "Connecting"
         /\ buffer' \in Seq(Messages) /\ written' \in Seq(Kinds) /\ received' \in Nat
         /\ request' \in Messages \cup {NoResult}
BY EmptySequences, NamedResults DEF DisconnectAndReconnect, ConnectPends

LEMMA NextType == TypeOK /\ [Next]_vars => TypeOK'
<1> SUFFICES ASSUME TypeOK, [Next]_vars PROVE TypeOK'
  OBVIOUS
<1>1. CASE StartListening \/ Stop \/ Join
  <2>1. /\ owner' \in {"running", "join", "gone"} /\ active' \in BOOLEAN /\ pc' \in {"create", pc}
        /\ UNCHANGED <<data, overlapped, channel, received, late>>
    BY <1>1 DEF StartListening, Stop, Join, TypeOK
  <2> QED
    BY <2>1 DEF data, overlapped, channel, TypeOK
<1>2. CASE CreatePipe
  <2>1. /\ pc' \in {"connect", "ended"} /\ pipe' \in {"listening", pipe} /\ signalled' \in {TRUE, signalled}
        /\ UNCHANGED <<owner, active, data, io, result, buffer, written, received, late>>
    BY <1>2 DEF CreatePipe, Goto, Local
  <2>2. /\ pc' \in {"connect", "ended"} /\ UNCHANGED <<owner, active, io, result>>
        /\ UNCHANGED <<pending_io, state, request, buffer, written, received, late>>
    BY <2>1 DEF data
  <2>3. signalled' \in BOOLEAN /\ pipe' \in {"none", "listening", "connected", "broken"}
    BY <2>1 DEF TypeOK
  <2> QED
    BY <2>2, <2>3 DEF TypeOK
<1>3. CASE FirstConnect
  BY <1>3, ResultKinds DEF FirstConnect, ConnectPends, ConnectFindsClient, Goto, Local, TypeOK
<1>4. CASE TestActive \/ Wait
  BY <1>4 DEF TestActive, Wait, Goto, Local, data, overlapped, channel, TypeOK
<1>5. CASE CollectRead
  <2>1. CASE DisconnectAndReconnect /\ pc' = "test"
    BY <1>5, <2>1, ReconnectType DEF CollectRead, Local, TypeOK
  <2>2. CASE /\ result.kind \in {"exact", "short"} /\ pc' = "use"
             /\ pending_io' = FALSE /\ state' = "Callback"
             /\ request' = result /\ result' = NoResult
             /\ UNCHANGED <<signalled, io, channel, received>>
    <3>1. request' \in Messages /\ result' \in Results
      BY <2>2, ResultKinds DEF TypeOK, Kinds
    <3> QED
      BY <1>5, <2>2, <3>1 DEF CollectRead, Local, channel, TypeOK
  <2> QED
    BY <1>5, <2>1, <2>2 DEF CollectRead
<1>6. CASE CollectConnect
  BY <1>6, ResultKinds DEF CollectConnect, Local, channel, TypeOK
<1>7. CASE ReadNow
  <2>1. Head(buffer) \in Messages /\ Tail(buffer) \in Seq(Messages)
    BY <1>7 DEF ReadNow, TypeOK
  <2> QED
    BY <1>7, <2>1 DEF ReadNow, Goto, Local, TypeOK
<1>8. CASE ReadPends
  BY <1>8 DEF ReadPends, Goto, Local, channel, TypeOK
<1>9. CASE ReadFails \/ WrongSize
  BY <1>9, ReconnectType DEF ReadFails, WrongSize, Goto, Local, TypeOK
<1>10. CASE Callback
  <2>1. received' \in Nat /\ late' \in Nat
    BY <1>10 DEF Callback, TypeOK
  <2>2. request' \in Messages \cup {NoResult}
    BY <1>10 DEF Callback
  <2> QED
    BY <1>10, <2>1, <2>2 DEF Callback, Goto, Local, overlapped, channel, TypeOK
<1>11. CASE Close
  BY <1>11, EmptySequences, NamedResults DEF Close, Goto, Local, TypeOK
<1>12. CASE ClientConnects \/ ClientCloses
  <2>1. io' \in {"none", "connect", "read"} /\ result' \in Results /\ signalled' \in BOOLEAN
    BY <1>12, NamedResults DEF ClientConnects, ClientCloses, Completes, overlapped, TypeOK
  <2> QED
    BY <1>12, <2>1 DEF ClientConnects, ClientCloses, data, TypeOK
<1>13. ASSUME NEW kind \in Kinds, ClientWrites(kind) PROVE TypeOK'
  <2> DEFINE m == [n |-> Len(written) + 1, kind |-> kind]
  <2>1. m \in Messages /\ m \in Results
    BY DEF TypeOK, Messages, Results
  <2>2. written' \in Seq(Kinds)
    BY <1>13 DEF ClientWrites, TypeOK
  <2> HIDE DEF m
  <2>3. \/ io' = "none" /\ result' = m /\ signalled' = TRUE /\ buffer' = buffer
        \/ buffer' = Append(buffer, m) /\ UNCHANGED overlapped
    BY <1>13 DEF ClientWrites, Completes, m
  <2>4. buffer' \in Seq(Messages)
    BY <2>1, <2>3 DEF TypeOK
  <2>5. io' \in {"none", "connect", "read"} /\ result' \in Results /\ signalled' \in BOOLEAN
    BY <2>1, <2>3 DEF TypeOK, overlapped
  <2> QED
    BY <1>13, <2>2, <2>4, <2>5 DEF ClientWrites, data, TypeOK
<1>14. CASE UNCHANGED vars
  BY <1>14 DEF vars, TypeOK
<1> QED
  BY <1>1, <1>2, <1>3, <1>4, <1>5, <1>6, <1>7, <1>8, <1>9, <1>10, <1>11, <1>12, <1>13, <1>14
  DEF Next, Listener, Client

LEMMA InitInductive == Init => IInv
<1> SUFFICES ASSUME Init PROVE IInv
  OBVIOUS
<1>1. TypeOK
  BY EmptySequences, NamedResults DEF Init, TypeOK
<1>2. Agree /\ Lifecycle /\ Idle /\ NothingSkipped
  BY ResultKinds DEF Init, Agree, Fresh, Lifecycle, Idle, NothingSkipped
<1> QED
  BY <1>1, <1>2 DEF IInv

\* Every variable keeps its type.
THEOREM TypeCorrect == Spec => []TypeOK
<1>1. Init => TypeOK
  BY InitInductive DEF IInv
<1>2. TypeOK /\ [Next]_vars => TypeOK'
  BY NextType
<1> QED
  BY <1>1, <1>2, PTL DEF Spec

--------------------------------------------------------------------------------
(* The event, the outstanding call and the state.                              *)

LEMMA ReconnectAgrees ==
  ASSUME DisconnectAndReconnect, pc' = "test"
  PROVE  Agree' /\ Idle' /\ NothingSkipped'
<1>1. /\ pipe' = "listening" /\ io' = "connect" /\ result' = NoResult /\ signalled' = FALSE
      /\ pending_io' = TRUE /\ state' = "Connecting" /\ buffer' = <<>> /\ written' = <<>>
      /\ received' = 0 /\ request' = NoResult
  BY DEF DisconnectAndReconnect, ConnectPends
<1> QED
  BY <1>1, ResultKinds DEF Agree, Fresh, Idle, NothingSkipped

LEMMA AgreeStep ==
  ASSUME TypeOK, Agree, Lifecycle, [Next]_vars
  PROVE  Agree'
<1>1. CASE StartListening \/ Stop \/ Join
  BY <1>1 DEF StartListening, Stop, Join, data, overlapped, channel, Agree, Fresh, Lifecycle
<1>2. CASE CreatePipe
  BY <1>2, ResultKinds DEF CreatePipe, Goto, Local, data, Agree, Fresh
<1>3. CASE FirstConnect
  BY <1>3, ResultKinds DEF FirstConnect, ConnectPends, ConnectFindsClient, Goto, Local,
     Agree, Fresh
<1>4. CASE TestActive \/ Wait
  BY <1>4 DEF TestActive, Wait, Goto, Local, data, overlapped, channel, Agree, Fresh, TypeOK
<1>5. CASE CollectRead
  <2>1. CASE DisconnectAndReconnect /\ pc' = "test"
    BY <2>1, ReconnectAgrees
  <2>2. CASE /\ result.kind \in {"exact", "short"} /\ pc' = "use"
             /\ pending_io' = FALSE /\ state' = "Callback"
             /\ request' = result /\ result' = NoResult
             /\ UNCHANGED <<signalled, io, channel, received>>
    BY <1>5, <2>2, ResultKinds DEF CollectRead, channel, Agree
  <2> QED
    BY <1>5, <2>1, <2>2 DEF CollectRead
<1>6. CASE CollectConnect
  BY <1>6, ResultKinds DEF CollectConnect, Local, channel, Agree
<1>7. CASE ReadNow
  <2>1. Head(buffer) \in Messages
    BY <1>7 DEF ReadNow, TypeOK
  <2>2. Head(buffer) # NoResult
    BY <2>1, ResultKinds
  <2> QED
    BY <1>7, <2>2 DEF ReadNow, Goto, Agree
<1>8. CASE ReadPends
  BY <1>8, ResultKinds DEF ReadPends, Goto, channel, Agree, TypeOK
<1>9. CASE ReadFails \/ WrongSize
  BY <1>9, ReconnectAgrees DEF ReadFails, WrongSize, Goto
<1>10. CASE Callback
  BY <1>10, ResultKinds DEF Callback, Goto, overlapped, channel, Agree
<1>11. CASE Close
  BY <1>11, ResultKinds DEF Close, Goto, Agree
<1>12. CASE ClientConnects \/ ClientCloses
  BY <1>12, ResultKinds DEF ClientConnects, ClientCloses, Completes, overlapped, data,
     Agree, Fresh, TypeOK
<1>13. ASSUME NEW kind \in Kinds, ClientWrites(kind) PROVE Agree'
  <2> DEFINE m == [n |-> Len(written) + 1, kind |-> kind]
  <2>1. m \in Messages
    BY DEF TypeOK, Messages
  <2>2. m # NoResult /\ m # Connected /\ m.n # 0
    BY <2>1, ResultKinds
  <2> HIDE DEF m
  <2>3. /\ \/ io = "read" /\ io' = "none" /\ result' = m /\ signalled' = TRUE /\ buffer' = buffer
           \/ io # "read" /\ UNCHANGED overlapped
        /\ pipe = "connected" /\ UNCHANGED <<owner, active, pc, data, pipe, received, late>>
    BY <1>13 DEF ClientWrites, Completes, m
  <2> QED
    BY <2>2, <2>3 DEF overlapped, data, Agree, Fresh, TypeOK
<1>14. CASE UNCHANGED vars
  BY <1>14 DEF vars, Agree, Fresh
<1> QED
  BY <1>1, <1>2, <1>3, <1>4, <1>5, <1>6, <1>7, <1>8, <1>9, <1>10, <1>11, <1>12, <1>13, <1>14
  DEF Next, Listener, Client

LEMMA LifecycleStep ==
  ASSUME TypeOK, Lifecycle, [Next]_vars
  PROVE  Lifecycle'
<1>1. CASE StartListening \/ Stop \/ Join
  BY <1>1 DEF StartListening, Stop, Join, Lifecycle, TypeOK
<1>2. CASE Listener
  <2>1. CASE CreatePipe \/ FirstConnect \/ Close
    BY <2>1 DEF CreatePipe, FirstConnect, Close, Goto, Local, Lifecycle
  <2>2. CASE TestActive \/ Wait
    BY <2>2 DEF TestActive, Wait, Goto, Local, Lifecycle
  <2>3. CASE CollectRead \/ CollectConnect \/ ReadNow \/ ReadPends \/ ReadFails \/ WrongSize
    BY <2>3 DEF CollectRead, CollectConnect, ReadNow, ReadPends, ReadFails, WrongSize, Goto,
       Local, Lifecycle
  <2>4. CASE Callback
    <3>1. late = 0 /\ pc' = "test" /\ UNCHANGED <<owner, active>> /\ owner # "gone"
      BY <2>4 DEF Callback, Goto, Local, Lifecycle
    <3>2. (active /\ late' = 0) \/ (~active /\ late' = 1)
      BY <2>4, <3>1 DEF Callback
    <3>3. pc = "use"
      BY <2>4 DEF Callback, Goto
    <3> QED
      BY <3>1, <3>2, <3>3 DEF Lifecycle
  <2> QED
    BY <1>2, <2>1, <2>2, <2>3, <2>4 DEF Listener
<1>3. CASE Client \/ UNCHANGED vars
  <2>1. UNCHANGED <<owner, active, pc, late>>
    BY <1>3 DEF Client, ClientConnects, ClientCloses, ClientWrites, vars
  <2> QED
    BY <2>1 DEF Lifecycle
<1> QED
  BY <1>1, <1>2, <1>3 DEF Next

LEMMA IdleStep ==
  ASSUME TypeOK, Agree, Idle, [Next]_vars
  PROVE  Idle'
<1>1. CASE StartListening \/ Stop \/ Join
  BY <1>1 DEF StartListening, Stop, Join, data, overlapped, channel, Idle
<1>2. CASE CreatePipe
  BY <1>2, ResultKinds DEF CreatePipe, Goto, data, Idle, Agree, Fresh
<1>3. CASE FirstConnect
  BY <1>3, ResultKinds DEF FirstConnect, ConnectPends, ConnectFindsClient, Goto, Idle
<1>4. CASE TestActive \/ Wait
  BY <1>4 DEF TestActive, Wait, data, overlapped, channel, Idle
<1>5. CASE DisconnectAndReconnect
  BY <1>5, ResultKinds DEF DisconnectAndReconnect, ConnectPends, Idle
<1>6. CASE CollectRead
  BY <1>5, <1>6, ResultKinds DEF CollectRead, channel, Agree, Idle, TypeOK
<1>7. CASE CollectConnect
  BY <1>7, ResultKinds DEF CollectConnect, channel, Idle
<1>8. CASE ReadNow \/ ReadPends
  BY <1>8 DEF ReadNow, ReadPends, channel, Idle
<1>9. CASE ReadFails \/ WrongSize
  BY <1>5, <1>9 DEF ReadFails, WrongSize
<1>10. CASE Callback
  BY <1>10, ResultKinds DEF Callback, channel, overlapped, Idle, TypeOK
<1>11. CASE Close
  BY <1>11, ResultKinds DEF Close, Idle
<1>12. CASE Client \/ UNCHANGED vars
  BY <1>12 DEF Client, ClientConnects, ClientCloses, ClientWrites, vars, Idle
<1> QED
  BY <1>1, <1>2, <1>3, <1>4, <1>6, <1>7, <1>8, <1>9, <1>10, <1>11, <1>12 DEF Next, Listener

--------------------------------------------------------------------------------
(* The messages of a connection.                                               *)

LEMMA SameMessages ==
  ASSUME NothingSkipped, UNCHANGED <<buffer, written, received>>, Held' = Held,
         pipe \in {"connected", "broken"}
  PROVE  NothingSkipped'
BY DEF NothingSkipped, InHand

LEMMA SkippedClientWrites ==
  ASSUME TypeOK, Agree, NothingSkipped, NEW kind \in Kinds, ClientWrites(kind)
  PROVE  NothingSkipped'
<1> DEFINE m == [n |-> Len(written) + 1, kind |-> kind]
<1>1. m.n = Len(written) + 1 /\ m.kind = kind
  OBVIOUS
<1>2. /\ pipe = "connected" /\ pipe' = pipe /\ written' = Append(written, kind)
      /\ UNCHANGED <<request, received>>
      /\ \/ io = "read" /\ result' = m /\ buffer' = buffer
         \/ io # "read" /\ buffer' = Append(buffer, m) /\ result' = result
  BY DEF ClientWrites, Completes, data, overlapped
<1>3. /\ received + InHand + Len(buffer) = Len(written)
      /\ received \in Nat /\ InHand \in {0, 1} /\ Len(buffer) \in Nat /\ Len(written) \in Nat
  BY <1>2 DEF NothingSkipped, InHand, TypeOK
<1>4. /\ Len(written') = Len(written) + 1 /\ written'[Len(written) + 1] = kind
      /\ \A i \in 1..Len(written) : written'[i] = written[i]
  BY <1>2 DEF TypeOK
<1>5. \A i \in 1..received : written'[i] = "exact"
  BY <1>2, <1>3, <1>4 DEF NothingSkipped
<1>6. CASE io = "read"
  <2>1. request = NoResult /\ result = NoResult /\ buffer = <<>>
    BY <1>6 DEF Agree, Fresh, TypeOK
  <2>2. Held = {} /\ InHand = 0 /\ Len(buffer) = 0
    BY <2>1, ResultKinds DEF Held, InHand
  <2>3. received = Len(written)
    BY <1>3, <2>2
  <2>4. result' = m /\ buffer' = <<>> /\ request' = NoResult
    BY <1>2, <1>6, <2>1
  <2> HIDE DEF m
  <2>5. Held' = {m} /\ InHand' = 1
    BY <1>1, <1>3, <2>4, ResultKinds DEF Held, InHand
  <2>6. Len(buffer') = 0
    BY <2>4
  <2> QED
    BY <1>1, <1>2, <1>3, <1>4, <1>5, <2>3, <2>5, <2>6 DEF NothingSkipped
<1>7. CASE io # "read"
  <2>1. buffer' = Append(buffer, m) /\ Held' = Held /\ InHand' = InHand
    BY <1>2, <1>7 DEF Held, InHand
  <2>2. m \in Messages
    BY <1>3 DEF Messages
  <2> HIDE DEF m
  <2>3. /\ Len(buffer') = Len(buffer) + 1 /\ buffer'[Len(buffer) + 1] = m
        /\ \A i \in 1..Len(buffer) : buffer'[i] = buffer[i]
    BY <2>1, <2>2 DEF TypeOK
  <2>4. received' + InHand' + Len(buffer') = Len(written')
    BY <1>2, <1>3, <1>4, <2>1, <2>3
  <2>5. \A h \in Held' : h.n = received' + 1 /\ h.kind = written'[received' + 1]
    <3> SUFFICES ASSUME NEW h \in Held PROVE h.n = received + 1 /\ h.kind = written'[received + 1]
      BY <1>2, <2>1
    <3>1. InHand = 1
      BY DEF InHand
    <3>2. received + 1 \in 1..Len(written)
      BY <1>3, <3>1
    <3> QED
      BY <1>2, <1>4, <3>2 DEF NothingSkipped
  <2>6. ASSUME NEW i \in 1..Len(buffer')
        PROVE  buffer'[i] = [n |-> received' + InHand' + i, kind |-> written'[received' + InHand' + i]]
    <3>1. CASE i \in 1..Len(buffer)
      <4>1. received + InHand + i \in 1..Len(written)
        BY <1>3, <3>1
      <4> QED
        BY <1>2, <1>4, <2>1, <2>3, <3>1, <4>1 DEF NothingSkipped
    <3>2. CASE i = Len(buffer) + 1
      <4>1. received + InHand + i = Len(written) + 1
        BY <1>3, <3>2
      <4> QED
        BY <1>2, <1>4, <2>1, <2>3, <3>2, <4>1 DEF m
    <3> QED
      BY <1>3, <2>3, <2>6, <3>1, <3>2
  <2> QED
    BY <1>2, <1>5, <2>4, <2>5, <2>6 DEF NothingSkipped
<1> QED
  BY <1>6, <1>7

LEMMA SkippedReadNow ==
  ASSUME TypeOK, Agree, NothingSkipped, ReadNow, pipe \in {"connected", "broken"}
  PROVE  NothingSkipped'
<1>1. /\ pc = "use" /\ state = "Reading" /\ buffer # <<>> /\ buffer \in Seq(Messages)
      /\ request' = Head(buffer) /\ buffer' = Tail(buffer)
      /\ UNCHANGED <<result, pipe, written, received>>
  BY DEF ReadNow, Goto, TypeOK
<1>2. request = NoResult /\ result = NoResult
  BY <1>1 DEF Agree, TypeOK
<1>3. Held = {} /\ InHand = 0
  BY <1>2, ResultKinds DEF Held, InHand
<1>4. Len(buffer) \in Nat \ {0} /\ buffer[1] = Head(buffer) /\ Head(buffer) \in Messages
  BY <1>1
<1>5. /\ Len(buffer') = Len(buffer) - 1
      /\ \A i \in 1..Len(buffer') : buffer'[i] = buffer[i + 1]
  BY <1>1, <1>4
<1>6. Held' = {buffer[1]} /\ InHand' = 1
  BY <1>1, <1>2, <1>4, ResultKinds DEF Held, InHand
<1>7. /\ received + Len(buffer) = Len(written) /\ received \in Nat
      /\ \A i \in 1..Len(buffer) :
           buffer[i] = [n |-> received + i, kind |-> written[received + i]]
      /\ \A i \in 1..received : written[i] = "exact"
  <2>1. received \in Nat
    BY DEF TypeOK
  <2>2. received + InHand = received /\ Len(buffer) \in Nat
    BY <1>3, <1>4, <2>1
  <2> HIDE DEF InHand
  <2>3. /\ received + InHand + Len(buffer) = Len(written)
        /\ \A i \in 1..Len(buffer) :
             buffer[i] = [n |-> received + InHand + i, kind |-> written[received + InHand + i]]
        /\ \A i \in 1..received : written[i] = "exact"
    BY DEF NothingSkipped
  <2> QED
    BY <2>1, <2>2, <2>3
<1>8. buffer[1].n = received + 1 /\ buffer[1].kind = written[received + 1]
  <2>1. 1 \in 1..Len(buffer)
    BY <1>4
  <2>2. buffer[1] = [n |-> received + 1, kind |-> written[received + 1]]
    BY <1>7, <2>1
  <2> QED
    BY <2>2
<1>9. ASSUME NEW i \in 1..Len(buffer')
      PROVE  buffer'[i] = [n |-> received + 1 + i, kind |-> written[received + 1 + i]]
  <2>1. i + 1 \in 1..Len(buffer) /\ received + (i + 1) = received + 1 + i
    BY <1>4, <1>5, <1>7
  <2> QED
    BY <1>5, <1>7, <2>1
<1>10. received + 1 + Len(buffer') = Len(written)
  <2>1. Len(buffer) \in Nat /\ Len(buffer') = Len(buffer) - 1 /\ received \in Nat
    BY <1>4, <1>5, <1>7
  <2>2. received + Len(buffer) = Len(written)
    BY <1>7
  <2> QED
    BY <2>1, <2>2
<1> QED
  BY <1>1, <1>6, <1>7, <1>8, <1>9, <1>10 DEF NothingSkipped

LEMMA SkippedCallback ==
  ASSUME TypeOK, Agree, NothingSkipped, Callback, pipe \in {"connected", "broken"}
  PROVE  NothingSkipped'
<1>1. /\ pc = "use" /\ state = "Callback" /\ request.kind = "exact" /\ request' = NoResult
      /\ received' = received + 1 /\ received \in Nat
      /\ UNCHANGED <<result, pipe, buffer, written>>
  BY DEF Callback, Goto, overlapped, channel, TypeOK
<1>2. result = NoResult /\ request # NoResult
  BY <1>1 DEF Agree
<1>3. request \in Messages
  BY <1>2 DEF TypeOK
<1>4. Held = {request} /\ InHand = 1
  BY <1>2, <1>3, ResultKinds DEF Held, InHand
<1>5. Held' = {} /\ InHand' = 0
  BY <1>1, <1>2, ResultKinds DEF Held, InHand
<1>6. /\ received + 1 + Len(buffer) = Len(written)
      /\ written[received + 1] = "exact"
      /\ \A i \in 1..Len(buffer) :
           buffer[i] = [n |-> received + 1 + i, kind |-> written[received + 1 + i]]
      /\ \A i \in 1..received : written[i] = "exact"
  BY <1>1, <1>4 DEF NothingSkipped
<1>7. \A i \in 1..(received + 1) : written[i] = "exact"
  BY <1>1, <1>6
<1>8. Len(buffer) \in Nat
  BY DEF TypeOK
<1>9. ASSUME NEW i \in 1..Len(buffer)
      PROVE  /\ received + 1 + 0 + i = received + 1 + i
  BY <1>1, <1>8
<1> QED
  BY <1>1, <1>5, <1>6, <1>7, <1>8, <1>9 DEF NothingSkipped

LEMMA NothingSkippedStep ==
  ASSUME TypeOK, Agree, Idle, NothingSkipped, [Next]_vars
  PROVE  NothingSkipped'
<1>1. CASE StartListening \/ Stop \/ Join \/ UNCHANGED vars \/ TestActive \/ Wait
  BY <1>1 DEF StartListening, Stop, Join, vars, TestActive, Wait, data, overlapped, channel,
     NothingSkipped, InHand, Held
<1>2. CASE CreatePipe
  BY <1>2 DEF CreatePipe, Goto, Agree, Fresh, NothingSkipped
<1>3. CASE FirstConnect
  <2>1. result = NoResult /\ request = NoResult
    BY <1>3 DEF FirstConnect, Goto, Agree, Fresh
  <2>2. UNCHANGED <<request, buffer, written, received>>
    BY <1>3 DEF FirstConnect
  <2>3. CASE pipe' = "listening"
    BY <2>3 DEF NothingSkipped
  <2>4. CASE pipe \in {"connected", "broken"} /\ result' = NoResult
    <3>1. Held' = Held
      BY <2>1, <2>2, <2>4 DEF Held
    <3> QED
      BY <2>2, <2>4, <3>1, SameMessages
  <2> QED
    BY <1>3, <2>1, <2>3, <2>4
    DEF FirstConnect, ConnectPends, ConnectFindsClient
<1>4. CASE DisconnectAndReconnect
  BY <1>4 DEF DisconnectAndReconnect, ConnectPends, NothingSkipped
<1>5. CASE CollectRead
  <2>1. CASE request' = result /\ result' = NoResult /\ UNCHANGED <<channel, received>>
    <3>1. request = NoResult
      BY <1>5 DEF CollectRead, Agree
    <3>2. Held' = Held
      BY <2>1, <3>1 DEF Held
    <3> QED
      BY <2>1, <3>2, SameMessages DEF channel, NothingSkipped
  <2> QED
    BY <1>4, <1>5, <2>1 DEF CollectRead
<1>6. CASE CollectConnect
  <2>1. Held' = Held
    BY <1>6, ResultKinds DEF CollectConnect, Held
  <2> QED
    BY <1>6, <2>1, SameMessages DEF CollectConnect, channel, NothingSkipped
<1>7. CASE ReadNow
  BY <1>7, SkippedReadNow DEF ReadNow, NothingSkipped
<1>8. CASE ReadPends
  BY <1>8, SameMessages DEF ReadPends, channel, Held, NothingSkipped
<1>9. CASE ReadFails \/ WrongSize
  BY <1>4, <1>9 DEF ReadFails, WrongSize
<1>10. CASE Callback
  BY <1>10, SkippedCallback DEF Callback, channel, NothingSkipped
<1>11. CASE Close
  BY <1>11 DEF Close, NothingSkipped
<1>12. CASE ClientConnects
  <2>1. /\ buffer = <<>> /\ written = <<>> /\ received = 0 /\ request = NoResult /\ result.n = 0
        /\ UNCHANGED <<buffer, written, received, request>>
        /\ result' \in {result, Connected}
    BY <1>12 DEF ClientConnects, Completes, overlapped, data, Idle
  <2>2. Held' = {} /\ InHand' = 0
    BY <2>1, ResultKinds DEF Held, InHand
  <2>3. Len(buffer') = 0 /\ Len(written') = 0 /\ received' = 0
    BY <2>1, EmptySequences
  <2> QED
    BY <2>2, <2>3 DEF NothingSkipped
<1>13. CASE ClientCloses
  <2>1. /\ UNCHANGED <<buffer, written, received, request>> /\ pipe = "connected"
        /\ \/ io = "read" /\ result' = Broken
           \/ result' = result
    BY <1>13 DEF ClientCloses, Completes, overlapped, data
  <2>2. io = "read" => result = NoResult
    BY DEF Agree, Fresh, TypeOK
  <2>3. Held' = Held
    BY <2>1, <2>2, ResultKinds DEF Held
  <2> QED
    BY <2>1, <2>3, SameMessages
<1>14. ASSUME NEW kind \in Kinds, ClientWrites(kind) PROVE NothingSkipped'
  BY <1>14, SkippedClientWrites
<1> QED
  BY <1>1, <1>2, <1>3, <1>5, <1>6, <1>7, <1>8, <1>9, <1>10, <1>11, <1>12, <1>13, <1>14
  DEF Next, Listener, Client

--------------------------------------------------------------------------------
(* The theorems.                                                               *)

LEMMA Inductive == Spec => []IInv
<1>1. IInv /\ [Next]_vars => IInv'
  BY NextType, AgreeStep, LifecycleStep, IdleStep, NothingSkippedStep DEF IInv
<1> QED
  BY <1>1, InitInductive, PTL DEF Spec

\* The listener never waits for an event that nothing will set.
THEOREM NeverWaitsForNothing == Spec => []NoLostWakeup
<1>1. IInv => NoLostWakeup
  BY DEF IInv, Agree, NoLostWakeup
<1> QED
  BY <1>1, Inductive, PTL

\* pending_io says truly whether a result is to be collected.
THEOREM PendingIoIsTrue == Spec => []PendingIsTrue
<1>1. IInv => PendingIsTrue
  BY DEF IInv, Agree, PendingIsTrue
<1> QED
  BY <1>1, Inductive, PTL

\* Over a connection every message is handed on once, in order and without a gap.
THEOREM EveryMessageInOrder == Spec => []NothingSkipped
<1>1. IInv => NothingSkipped
  BY DEF IInv
<1> QED
  BY <1>1, Inductive, PTL

\* At most one callback after thread_active_ is cleared, none after the join.
THEOREM OneLateCallback == Spec => []AtMostOneLateCallback
<1>1. IInv => AtMostOneLateCallback
  BY DEF IInv, Lifecycle, AtMostOneLateCallback
<1> QED
  BY <1>1, Inductive, PTL

\* A step of the thread is a step of the listener that DeviceListener describes: it is
\* called back where a message of the right size is in hand.
LEMMA ListenerListens ==
  ASSUME IInv, Listener
  PROVE  [Listens!Next]_<<Thread, Stopping>>
<1> USE DEF IInv, TypeOK, Lifecycle, Goto, Local, Thread, Stopping
<1>1. CASE CreatePipe \/ FirstConnect \/ TestActive \/ Close
  BY <1>1 DEF CreatePipe, FirstConnect, TestActive, Close, Listens!Next, Listens!End, Listens!Move
<1>2. CASE Wait
  BY <1>2 DEF Wait, Listens!Next, Listens!Call, Listens!Move
<1>3. CASE CollectRead
  BY <1>3 DEF CollectRead, DisconnectAndReconnect, ConnectPends, Listens!Next, Listens!Call, Listens!Move
<1>4. CASE Callback
  BY <1>4 DEF Callback, Listens!Next, Listens!Return, Listens!Move
<1>5. CASE CollectConnect \/ ReadNow \/ ReadPends \/ ReadFails \/ WrongSize
  BY <1>5 DEF CollectConnect, ReadNow, ReadPends, ReadFails, WrongSize
<1> QED
  BY <1>1, <1>2, <1>3, <1>4, <1>5 DEF Listener

\* To its owner the thread is a listener that makes one callback at most after it was
\* told to stop, and is done with when it has returned.
THEOREM ListenerImplemented == Spec => ImplementsListener
<1>1. Init => Listens!Init
  BY DEF Init, Listens!Init, Thread, Stopping
<1>2. IInv /\ [Next]_vars => [Listens!Next]_<<Thread, Stopping>>
  <2> SUFFICES ASSUME IInv, [Next]_vars PROVE [Listens!Next]_<<Thread, Stopping>>
    OBVIOUS
  <2>1. CASE StartListening \/ Stop \/ Join
    <3> USE DEF IInv, Lifecycle, Thread, Stopping
    <3>1. CASE StartListening
      BY <3>1 DEF StartListening, data, Listens!Next, Listens!Start, Listens!Move
    <3>2. CASE Stop
      <4>1. ~Stopping /\ Stopping' /\ Thread' = Thread
        BY <3>2 DEF Stop, data
      <4> QED
        BY <4>1 DEF Listens!Next, Listens!Stop
    <3>3. CASE Join
      BY <3>3 DEF Join, data, Listens!Next, Listens!Join, Listens!Move
    <3> QED
      BY <2>1, <3>1, <3>2, <3>3
  <2>2. CASE Client \/ UNCHANGED vars
    <3>1. UNCHANGED <<owner, pc, state, request, late>>
      BY <2>2 DEF Client, ClientConnects, ClientCloses, ClientWrites, data, vars
    <3> QED
      BY <3>1 DEF Thread, Stopping
  <2> QED
    BY <2>1, <2>2, ListenerListens DEF Next
<1> QED
  BY <1>1, <1>2, Inductive, PTL DEF Spec, ImplementsListener, Listens!Spec
================================================================================
