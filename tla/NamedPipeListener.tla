--------------------------- MODULE NamedPipeListener ---------------------------
(* NamedPipeListener<T>: the thread that serves one instance of a message-mode *)
(* named pipe with overlapped I/O, the clients that connect to it one after    *)
(* another, and the destructor that stops it.  The force feedback pipe and     *)
(* both versions of the input pipe are such listeners.                         *)
(*                                                                             *)
(* The pipe, its event and its completions belong to the operating system and  *)
(* are modelled from how the listener uses them: starting an overlapped call   *)
(* resets the event, completing it (at once or later) sets the event, and a    *)
(* call that fails at once leaves the event reset.  Calls that fail for other  *)
(* reasons than the client's behaviour (out of handles, an invalid handle) are *)
(* left out, except CreateNamedPipe.                                           *)
EXTENDS Naturals, Sequences

CONSTANTS
  MaxMessages,   \* bound: messages a client writes over one connection
  MaxBuffered    \* messages the pipe buffers before the client's write blocks

ASSUME BoundsAssumption == MaxMessages \in Nat /\ MaxBuffered \in Nat \ {0}

\* The size of a message against sizeof(T).
Kinds    == {"exact", "short", "empty", "long"}
Messages == [n : Nat \ {0}, kind : Kinds]      \* n: its place in its connection
NoResult == [n |-> 0, kind |-> "none"]
Connected == [n |-> 0, kind |-> "connected"]   \* how an overlapped call can end,
Broken    == [n |-> 0, kind |-> "broken"]      \* besides with a message
Results  == Messages \cup {NoResult, Connected, Broken}

VARIABLES
  owner,       \* the thread that calls StartListening and then the destructor
  active,      \* thread_active_
  pc,          \* ListenerThread
  pending_io, state, request,   \* NamedPipeListenerData; request holds a message
  signalled,   \* overlap.hEvent
  io,          \* the overlapped call outstanding: "none", "connect" or "read"
  result,      \* what the last overlapped call ended with, until it is collected
  pipe,        \* the pipe instance
  buffer,      \* messages written and not read
  written,     \* the kinds the client has written over this connection
  received,    \* auxiliary: callbacks made over this connection
  late         \* auxiliary: callbacks made since thread_active_ was cleared

vars == <<owner, active, pc, pending_io, state, request, signalled, io, result,
          pipe, buffer, written, received, late>>
data      == <<pending_io, state, request>>
channel   == <<pipe, buffer, written>>
overlapped == <<signalled, io, result>>

TypeOK ==
  /\ owner \in {"idle", "running", "join", "gone"}
  /\ active \in BOOLEAN
  /\ pc \in {"off", "create", "connect", "test", "wait", "collect", "use", "close",
             "ended", "leaked"}
  /\ pending_io \in BOOLEAN
  /\ state \in {"Connecting", "Reading", "Callback"}
  /\ request \in Messages \cup {NoResult}
  /\ signalled \in BOOLEAN
  /\ io \in {"none", "connect", "read"}
  /\ result \in Results
  /\ pipe \in {"none", "listening", "connected", "broken"}
  /\ buffer \in Seq(Messages)
  /\ written \in Seq(Kinds)
  /\ received \in Nat
  /\ late \in Nat

Init ==
  /\ owner = "idle" /\ active = FALSE /\ pc = "off"
  /\ pending_io = FALSE /\ state = "Connecting" /\ request = NoResult
  /\ signalled = FALSE /\ io = "none" /\ result = NoResult
  /\ pipe = "none" /\ buffer = <<>> /\ written = <<>>
  /\ received = 0 /\ late = 0

--------------------------------------------------------------------------------
(* The owner.                                                                  *)

\* StartListening; a second call finds thread_active_ set and returns false.
StartListening ==
  /\ owner = "idle" /\ owner' = "running"
  /\ ~active /\ active' = TRUE
  /\ pc' = "create"
  /\ UNCHANGED <<data, overlapped, channel, received, late>>

\* ~NamedPipeListener: clears thread_active_, then joins if it was set.
Stop ==
  /\ owner \in {"idle", "running"}
  /\ owner' = IF active THEN "join" ELSE "gone"
  /\ active' = FALSE
  /\ UNCHANGED <<pc, data, overlapped, channel, received, late>>

Join ==
  /\ owner = "join" /\ owner' = "gone"
  /\ pc \in {"ended", "leaked"}
  /\ UNCHANGED <<active, pc, data, overlapped, channel, received, late>>

--------------------------------------------------------------------------------
(* Connect and DisconnectAndReconnect.                                         *)

\* ConnectNamedPipe finds no client: ERROR_IO_PENDING.
ConnectPends ==
  /\ pipe' = "listening"
  /\ io' = "connect" /\ result' = NoResult /\ signalled' = FALSE
  /\ pending_io' = TRUE /\ state' = "Connecting"

\* Mutant: the event is not set for a client that is there already.
ConnectFindsClientSilently ==
  /\ pipe' = "connected"
  /\ io' = "none" /\ result' = NoResult /\ signalled' = FALSE
  /\ pending_io' = FALSE /\ state' = "Reading"

\* A client is there already: ERROR_PIPE_CONNECTED, and the listener sets the event.
ConnectFindsClient ==
  /\ pipe' = "connected"
  /\ io' = "none" /\ result' = NoResult /\ signalled' = TRUE
  /\ pending_io' = FALSE /\ state' = "Reading"

\* Disconnecting throws the client out with all it wrote; nobody can be connected
\* to the instance when it listens again.
DisconnectAndReconnect ==
  /\ ConnectPends
  /\ buffer' = <<>> /\ written' = <<>> /\ received' = 0
  /\ request' = NoResult

--------------------------------------------------------------------------------
(* ListenerThread.                                                             *)

Local == UNCHANGED <<owner, active>>
Goto(from, to) == pc = from /\ pc' = to

\* The event is created signalled; from CreateNamedPipe on clients can connect.
CreatePipe ==
  /\ \/ Goto("create", "connect") /\ pipe' = "listening" /\ signalled' = TRUE
     \/ Goto("create", "ended") /\ UNCHANGED <<pipe, signalled>>
  /\ Local /\ UNCHANGED <<data, io, result, buffer, written, received, late>>

\* The first Connect.  A client that connected and left again makes it fail with
\* ERROR_NO_DATA; the thread then returns and leaves both handles open.
FirstConnect ==
  /\ \/ Goto("connect", "test") /\ pipe = "listening" /\ ConnectPends
     \/ Goto("connect", "test") /\ pipe = "connected" /\ ConnectFindsClient
     \/ Goto("connect", "leaked") /\ pipe = "broken"
        /\ pending_io' = FALSE /\ state' = "Reading" /\ signalled' = FALSE
        /\ UNCHANGED <<pipe, io, result>>
  /\ Local /\ UNCHANGED <<request, buffer, written, received, late>>

\* while (thread_active_)
TestActive ==
  /\ Goto("test", IF active THEN "wait" ELSE "close")
  /\ Local /\ UNCHANGED <<data, overlapped, channel, received, late>>

\* Mutant: the wait has no timeout.
WaitForever ==
  /\ signalled
  /\ Goto("wait", IF pending_io THEN "collect" ELSE "use")
  /\ Local /\ UNCHANGED <<data, overlapped, channel, received, late>>

\* WaitForSingleObject(hEvent, 5)
Wait ==
  /\ Goto("wait", IF ~signalled THEN "test" ELSE IF pending_io THEN "collect" ELSE "use")
  /\ Local /\ UNCHANGED <<data, overlapped, channel, received, late>>

\* GetOverlappedResult, when the call was a read.
CollectRead ==
  /\ pc = "collect" /\ state = "Reading"
  /\ \/ /\ result.kind \in {"exact", "short"}
        /\ pc' = "use"
        /\ pending_io' = FALSE /\ state' = "Callback"
        /\ request' = result /\ result' = NoResult
        /\ UNCHANGED <<signalled, io, channel, received>>
     \/ /\ result.kind \in {"broken", "long", "empty"}
        /\ pc' = "test"
        /\ DisconnectAndReconnect
  /\ Local /\ UNCHANGED late

\* GetOverlappedResult, when it was a connect: ClientConnected is reported and a
\* first read follows at once.
CollectConnect ==
  /\ pc = "collect" /\ state = "Connecting" /\ result = Connected
  /\ pc' = "use"
  /\ state' = "Reading" /\ result' = NoResult
  /\ Local /\ UNCHANGED <<pending_io, request, signalled, io, channel, received, late>>

\* ReadFile takes a message that fits.
ReadNow ==
  /\ Goto("use", "test") /\ state = "Reading"
  /\ buffer # <<>> /\ Head(buffer).kind \in {"exact", "short"}
  /\ request' = Head(buffer) /\ buffer' = Tail(buffer)
  /\ pending_io' = FALSE /\ state' = "Callback" /\ signalled' = TRUE
  /\ Local /\ UNCHANGED <<io, result, pipe, written, received, late>>

\* Mutant: a read that pends is not noted as pending.
ReadPendsUnnoted ==
  /\ Goto("use", "test") /\ state = "Reading"
  /\ buffer = <<>> /\ pipe = "connected"
  /\ pending_io' = FALSE /\ io' = "read" /\ signalled' = FALSE
  /\ Local /\ UNCHANGED <<state, request, result, channel, received, late>>

\* ReadFile finds nothing: ERROR_IO_PENDING.
ReadPends ==
  /\ Goto("use", "test") /\ state = "Reading"
  /\ buffer = <<>> /\ pipe = "connected"
  /\ pending_io' = TRUE /\ io' = "read" /\ signalled' = FALSE
  /\ Local /\ UNCHANGED <<state, request, result, channel, received, late>>

\* Mutant: a read that fails is only logged.
ReadFailsUnheeded ==
  /\ Goto("use", "test") /\ state = "Reading"
  /\ \/ buffer # <<>> /\ Head(buffer).kind \in {"long", "empty"}
     \/ buffer = <<>> /\ pipe # "connected"
  /\ Local /\ UNCHANGED <<data, overlapped, channel, received, late>>

\* ReadFile fails (client gone, ERROR_MORE_DATA) or reads no bytes.
ReadFails ==
  /\ Goto("use", "test") /\ state = "Reading"
  /\ \/ buffer # <<>> /\ Head(buffer).kind \in {"long", "empty"}
     \/ buffer = <<>> /\ pipe # "connected"
  /\ DisconnectAndReconnect
  /\ Local /\ UNCHANGED late

\* The callback, for a message of the right size.
Callback ==
  /\ Goto("use", "test") /\ state = "Callback"
  /\ request.kind = "exact"
  /\ state' = "Reading" /\ request' = NoResult
  /\ received' = received + 1
  /\ late' = IF active THEN late ELSE late + 1
  /\ Local /\ UNCHANGED <<pending_io, overlapped, channel>>

\* Mutant: a message of the wrong size is skipped.
WrongSizeSkipped ==
  /\ Goto("use", "test") /\ state = "Callback"
  /\ request.kind # "exact"
  /\ state' = "Reading" /\ request' = NoResult
  /\ Local /\ UNCHANGED <<pending_io, overlapped, channel, received, late>>

\* A message of another size: the client is thrown out.
WrongSize ==
  /\ Goto("use", "test") /\ state = "Callback"
  /\ request.kind # "exact"
  /\ DisconnectAndReconnect
  /\ Local /\ UNCHANGED late

\* DisconnectNamedPipe and the handles.
Close ==
  /\ Goto("close", "ended")
  /\ pipe' = "none" /\ buffer' = <<>> /\ written' = <<>> /\ io' = "none"
  /\ received' = 0 /\ request' = NoResult /\ result' = NoResult
  /\ Local /\ UNCHANGED <<pending_io, state, signalled, late>>

Listener ==
  \/ CreatePipe \/ FirstConnect \/ TestActive \/ Wait \/ CollectRead \/ CollectConnect
  \/ ReadNow \/ ReadPends \/ ReadFails \/ Callback \/ WrongSize \/ Close

--------------------------------------------------------------------------------
(* The clients, one at a time, and the completions they cause.                 *)

Completes(r) == io' = "none" /\ result' = r /\ signalled' = TRUE

ClientConnects ==
  /\ pipe = "listening" /\ pipe' = "connected"
  /\ IF io = "connect" THEN Completes(Connected) ELSE UNCHANGED overlapped
  /\ UNCHANGED <<owner, active, pc, data, buffer, written, received, late>>

\* A message completes the read that waits for it, or is buffered.
ClientWrites(kind) ==
  LET m == [n |-> Len(written) + 1, kind |-> kind] IN
  /\ pipe = "connected" /\ Len(written) < MaxMessages
  /\ written' = Append(written, kind)
  /\ \/ io = "read" /\ Completes(m) /\ UNCHANGED buffer
     \/ /\ io # "read" /\ Len(buffer) < MaxBuffered
        /\ buffer' = Append(buffer, m) /\ UNCHANGED overlapped
  /\ UNCHANGED <<owner, active, pc, data, pipe, received, late>>

ClientCloses ==
  /\ pipe = "connected" /\ pipe' = "broken"
  /\ IF io = "read" THEN Completes(Broken) ELSE UNCHANGED overlapped
  /\ UNCHANGED <<owner, active, pc, data, buffer, written, received, late>>

Client == ClientConnects \/ ClientCloses \/ \E kind \in Kinds : ClientWrites(kind)

--------------------------------------------------------------------------------

Next == StartListening \/ Stop \/ Join \/ Listener \/ Client

Spec     == Init /\ [][Next]_vars
FairSpec == Spec /\ WF_vars(Listener) /\ WF_vars(Join)

--------------------------------------------------------------------------------
(* Properties.                                                                 *)

\* The listener never waits for an event that nothing will set: when it goes to
\* WaitForSingleObject with the event reset, an overlapped call is outstanding
\* (named_pipe_win.h 88-111, 149-211).
NoLostWakeup == pc \in {"test", "wait"} /\ ~signalled => io # "none"

\* pending_io tells truly whether there is a call whose result must be collected:
\* mistaken one way GetOverlappedResult's answer is lost, the other way a stale
\* result is taken for a new message (lines 92, 98, 161-187, 192, 198).
PendingIsTrue ==
  pc \in {"test", "wait"} => (pending_io <=> io # "none" \/ result # NoResult)

\* Over one connection the callback gets every message once and in the order it
\* was written, and nothing is skipped: the messages handed on, the one in hand
\* and the buffered ones are all that was written (lines 189-210).
Held == {m \in {request, result} : m.n > 0}
InHand == IF Held = {} THEN 0 ELSE 1
NothingSkipped ==
  pipe \in {"connected", "broken"} =>
    /\ received + InHand + Len(buffer) = Len(written)
    /\ \A m \in Held : m.n = received + 1 /\ m.kind = written[received + 1]
    /\ \A i \in 1..Len(buffer) :
         buffer[i] = [n |-> received + InHand + i, kind |-> written[received + InHand + i]]
    /\ \A i \in 1..received : written[i] = "exact"

\* After the destructor has cleared thread_active_ at most one more message is
\* handed on, and none once it has joined (lines 81-85, 149).
AtMostOneLateCallback == late <= 1 /\ (owner = "gone" => pc \in {"off", "ended", "leaked"})

\* To its owner this is a listener as DeviceListener describes it (lines 55-63, 81-85,
\* 149-211).
Thread ==
  IF pc = "off" \/ owner = "gone" THEN "off"
  ELSE IF pc = "use" /\ state = "Callback" /\ request.kind = "exact" THEN "callback"
  ELSE IF pc \in {"ended", "leaked"} \/ late > 0 THEN "returned" ELSE "receive"
Stopping == owner \in {"join", "gone"}
Listens == INSTANCE DeviceListener WITH thread <- Thread, stopping <- Stopping
ImplementsListener == Listens!Spec

\* The destructor returns within a wait of 5 ms (lines 81-85, 150).
DestructorReturns == owner = "join" ~> owner = "gone"

\* A listener that got past its first Connect never stays deaf: when a client has
\* left or been thrown out, the next can connect (lines 113-118, 165-168, 199-210).
AlwaysListensAgain == pipe = "broken" ~> pc = "leaked" \/ pipe \in {"listening", "none"}
================================================================================
