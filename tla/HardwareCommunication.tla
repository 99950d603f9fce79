------------------------- MODULE HardwareCommunication -------------------------
(* HardwareCommunicationManager together with the serial or the bluetooth      *)
(* service it owns, as one glove's device uses it.                             *)
(*                                                                             *)
(* Threads: the listener (CommunicationThread), the owner (the thread that     *)
(* calls BeginListener and later destroys the device) and the writers, which   *)
(* call WriteOutput.  Nothing but thread_active_ is atomic: queued_write_string*)
(* is appended to by every writer and appended to, sent and cleared by the     *)
(* listener without a lock.                                                    *)
(*                                                                             *)
(* queued_write_string is a sequence of cells: an output, the newline LF or    *)
(* NUL.  `+=' reads the size, then stores at that offset and sets the size, so *)
(* an append is two steps; clear() leaves a NUL in the first byte, so an       *)
(* append that still holds an older size leaves NULs in front of its text, and *)
(* c_str()/strlen() see nothing beyond the first of them.  (Reallocation under *)
(* the race, which can corrupt the heap, is left out.)                         *)
EXTENDS Naturals, Sequences, FiniteSets

CONSTANTS
  Writers,       \* the threads that call WriteOutput
  PipeWriters,   \* those of them that ~LucidglovesDevice joins (force feedback pipe)
  Transports,    \* those a glove may be on: of "serial" and "bluetooth"
  LF, NUL,       \* the cells that are not outputs
  MaxOutputs,    \* bound: MaxOutputs[w] calls of WriteOutput by writer w
  MaxRx          \* bytes the operating system buffers for the port

\* <<w, n>> is the text that EncodePacket makes of the n-th output of writer w.
Outputs == Writers \X Nat
Cells   == Outputs \cup {LF, NUL}
Bytes   == {"char", "newline"}

ASSUME WritersAssumption   == PipeWriters \subseteq Writers
ASSUME TransportAssumption == Transports \subseteq {"serial", "bluetooth"}
ASSUME CellsAssumption     == LF \notin Outputs /\ NUL \notin Outputs /\ LF # NUL
ASSUME BoundsAssumption    == MaxOutputs \in [Writers -> Nat] /\ MaxRx \in Nat \ {0}

VARIABLES
  transport,  \* the ICommunicationService the manager was constructed with
  owner,      \* where the owning thread is in the manager's life
  active,     \* thread_active_
  listener,   \* program counter of CommunicationThread
  queue,      \* queued_write_string
  made,       \* made[w]: the outputs w has passed to WriteOutput
  busy,       \* the writers inside an append
  held,       \* held[w]: the size w's append has read, 0 outside one
  mark,       \* the size the listener's append of "\n" has read, 0 outside it
  rx,         \* bytes received and not yet read
  event,      \* EV_RXCHAR: "unset" until SetCommMask, then "clear" or "set"
  link,       \* "up", "down" (failing) or "closed" (bluetooth peer disconnected)
  glove,      \* the outputs the glove has received
  late,       \* auxiliary: callbacks made since thread_active_ was cleared
  raced       \* auxiliary: an append overlapped another use of the queue, or
              \* a write was short

vars == <<transport, owner, active, listener, queue, made, busy, held, mark, rx, event,
          link, glove, late, raced>>
queueVars  == <<queue, made, busy, held, mark, raced>>
serviceVars == <<transport, rx, event, link>>

OwnerStates    == {"new", "running", "unpiped", "cancel", "join", "gone"}
ListenerStates == {"none", "test", "mask", "event", "read", "byte", "callback",
                   "newline", "append", "write", "clear", "returned"}
Blocked        == {"event", "byte"}    \* in WaitCommEvent, in ReadFile

TypeOK ==
  /\ transport \in Transports
  /\ owner \in OwnerStates
  /\ active \in BOOLEAN
  /\ listener \in ListenerStates
  /\ queue \in Seq(Cells)
  /\ made \in [Writers -> Nat]
  /\ busy \in SUBSET Writers
  /\ held \in [Writers -> Nat]
  /\ mark \in Nat
  /\ rx \in Seq(Bytes)
  /\ event \in {"unset", "clear", "set"}
  /\ link \in {"up", "down", "closed"}
  /\ glove \in SUBSET Outputs
  /\ late \in Nat
  /\ raced \in BOOLEAN

Init ==
  /\ transport \in Transports
  /\ owner = "new" /\ active = FALSE /\ listener = "none"
  /\ queue = <<>> /\ made = [w \in Writers |-> 0]
  /\ busy = {} /\ held = [w \in Writers |-> 0] /\ mark = 0
  /\ rx = <<>> /\ event = "unset" /\ link = "up"
  /\ glove = {} /\ late = 0 /\ raced = FALSE

--------------------------------------------------------------------------------
(* The queue as the string it is.                                              *)

\* What the string holds once a cell is stored behind the first k cells.
StoreAt(q, k, cell) ==
  [i \in 1..(k + 1) |-> IF i = k + 1 THEN cell
                        ELSE IF i <= Len(q) THEN q[i] ELSE NUL]

\* c_str() ends at the first NUL: the lengths that stop at it or before it, and
\* the one that is strlen(c_str()).
SentLengths(q) == {k \in 0..Len(q) : \A i \in 1..k : q[i] # NUL}
Whole(q, k) == k < Len(q) => q[k + 1] = NUL

\* The outputs among the first k cells.
OutputsIn(q, k) == {q[i] : i \in {j \in 1..k : q[j] \in Outputs}}

--------------------------------------------------------------------------------
(* The writers.                                                                *)

\* WriteOutput reads the size of the string it appends to.
WriteOutput(w) ==
  /\ owner \in (IF w \in PipeWriters THEN {"running"} ELSE OwnerStates \ {"gone"})
  /\ w \notin busy /\ made[w] < MaxOutputs[w]
  /\ made' = [made EXCEPT ![w] = @ + 1]
  /\ busy' = busy \cup {w}
  /\ held' = [held EXCEPT ![w] = Len(queue)]
  /\ raced' = (raced \/ busy # {} \/ listener \in {"append", "clear"})
  /\ UNCHANGED <<owner, active, listener, queue, mark, glove, late, serviceVars>>

\* Mutant: the text stored is that of the call before.
WriteOutputStale(w) ==
  /\ w \in busy
  /\ queue' = StoreAt(queue, held[w], <<w, made[w] - 1>>)
  /\ busy' = busy \ {w}
  /\ held' = [held EXCEPT ![w] = 0]
  /\ UNCHANGED <<owner, active, listener, made, mark, glove, late, raced,
                 serviceVars>>

\* WriteOutput stores its text and returns.
WriteOutputDone(w) ==
  /\ w \in busy
  /\ queue' = StoreAt(queue, held[w], <<w, made[w]>>)
  /\ busy' = busy \ {w}
  /\ held' = [held EXCEPT ![w] = 0]
  /\ UNCHANGED <<owner, active, listener, made, mark, glove, late, raced,
                 serviceVars>>

--------------------------------------------------------------------------------
(* The listener thread.                                                        *)

Goto(from, to) == listener = from /\ listener' = to
ServiceOnly == UNCHANGED <<owner, active, glove, late, queueVars>>

\* Mutant: the loop does not look at thread_active_.
TestNothing ==
  /\ Goto("test", IF transport = "serial" THEN "mask" ELSE "read")
  /\ ServiceOnly /\ UNCHANGED serviceVars

\* while (thread_active_)
TestActive ==
  /\ Goto("test", IF ~active THEN "returned"
                  ELSE IF transport = "serial" THEN "mask" ELSE "read")
  /\ ServiceOnly /\ UNCHANGED serviceVars

\* Serial: SetCommMask, then WaitCommEvent is entered.
SetCommMask ==
  /\ Goto("mask", IF link = "up" THEN "event" ELSE "returned")
  /\ event' = IF event = "unset" /\ link = "up" THEN "clear" ELSE event
  /\ ServiceOnly /\ UNCHANGED <<transport, rx, link>>

\* WaitCommEvent returns with EV_RXCHAR.
WaitCommEvent ==
  /\ Goto("event", "read")
  /\ event = "set" /\ event' = "clear"
  /\ ServiceOnly /\ UNCHANGED <<transport, rx, link>>

\* One byte: ReadFile of the serial port (blocking when there is none), recv of
\* the socket.  The newline ends the packet.
NextByte ==
  /\ listener \in {"read", "byte"} /\ rx # <<>>
  /\ transport = "serial" => link = "up"
  /\ link # "down"
  /\ rx' = Tail(rx)
  /\ listener' = IF Head(rx) = "newline" THEN "callback" ELSE "read"
  /\ ServiceOnly /\ UNCHANGED <<transport, event, link>>

\* ReadFile finds nothing to read and blocks.
ReadBlocks ==
  /\ transport = "serial" /\ rx = <<>> /\ link = "up"
  /\ Goto("read", "byte")
  /\ ServiceOnly /\ UNCHANGED serviceVars

\* Mutant: the socket has no receive timeout.
ReceiveFailsWithoutTimeout ==
  /\ listener \in {"event", "read", "byte"} /\ listener' = "returned"
  /\ link = "down"
  /\ ServiceOnly /\ UNCHANGED serviceVars

\* The port fails under a call; a socket also fails after a second of silence
\* (SO_RCVTIMEO).  A socket its peer has closed does neither: recv returns 0,
\* which is not SOCKET_ERROR, and the loop around it never ends.
ReceiveFails ==
  /\ listener \in {"event", "read", "byte"} /\ listener' = "returned"
  /\ \/ link = "down"
     \/ transport = "bluetooth" /\ link = "up" /\ rx = <<>>
  /\ ServiceOnly /\ UNCHANGED serviceVars

\* DecodePacket and the callback, which for a peripheral packet updates the driver.
Callback ==
  /\ Goto("callback", "newline")
  /\ late' = IF active THEN late ELSE late + 1
  /\ UNCHANGED <<owner, active, glove, queueVars, serviceVars>>

\* queued_write_string += "\n": read the size ...
AppendNewline ==
  /\ Goto("newline", "append")
  /\ mark' = Len(queue)
  /\ raced' = (raced \/ busy # {})
  /\ UNCHANGED <<owner, active, queue, made, busy, held, glove, late, serviceVars>>

\* ... and store the newline.
AppendNewlineDone ==
  /\ Goto("append", "write")
  /\ queue' = StoreAt(queue, mark, LF)
  /\ mark' = 0
  /\ UNCHANGED <<owner, active, made, busy, held, glove, late, raced, serviceVars>>

\* RawWrite succeeds.  WriteFile reports success too when its 50 ms timeout cut
\* the write short, and bytes_sent is not looked at; send is all or nothing.
RawWrite ==
  /\ Goto("write", "clear")
  /\ link = "up"
  /\ \E k \in SentLengths(queue) :
       /\ transport = "bluetooth" => Whole(queue, k)
       /\ glove' = glove \cup OutputsIn(queue, k)
       /\ raced' = (raced \/ busy # {} \/ ~Whole(queue, k))
  /\ UNCHANGED <<owner, active, queue, made, busy, held, mark, late, serviceVars>>

\* Mutant: the queue is cleared whether or not RawWrite succeeded.
RawWriteFailsAndClears ==
  /\ Goto("write", "clear")
  /\ link # "up"
  /\ ServiceOnly /\ UNCHANGED serviceVars

\* RawWrite fails: the link is gone.
RawWriteFails ==
  /\ Goto("write", "returned")
  /\ link # "up"
  /\ ServiceOnly /\ UNCHANGED serviceVars

\* Mutant: the queue is not cleared.
ClearForgotten == Goto("clear", "test") /\ ServiceOnly /\ UNCHANGED serviceVars

\* Mutant: all but the first cell is erased.
ClearButOne ==
  /\ Goto("clear", "test")
  /\ queue' = SubSeq(queue, 1, 1)
  /\ raced' = (raced \/ busy # {})
  /\ UNCHANGED <<owner, active, made, busy, held, mark, glove, late, serviceVars>>

\* queued_write_string.clear()
Clear ==
  /\ Goto("clear", "test")
  /\ queue' = <<>>
  /\ raced' = (raced \/ busy # {})
  /\ UNCHANGED <<owner, active, made, busy, held, mark, glove, late, serviceVars>>

Listener ==
  \/ TestActive \/ SetCommMask \/ WaitCommEvent \/ NextByte \/ ReadBlocks
  \/ ReceiveFails \/ Callback \/ AppendNewline \/ AppendNewlineDone \/ RawWrite
  \/ RawWriteFails \/ Clear

--------------------------------------------------------------------------------
(* The owner: ListenForInput, then ~LucidglovesDevice.                         *)

\* Once thread_active_ is set a further call warns and changes nothing, also when
\* the thread has returned: thread_active_ is cleared by the destructor only.
BeginListener ==
  /\ owner = "new" /\ owner' = "running"
  /\ ~active /\ active' = TRUE
  /\ listener' = "test"
  /\ UNCHANGED <<glove, late, queueVars, serviceVars>>

\* force_feedback_ = nullptr joins the pipe's thread.
JoinPipe ==
  /\ owner \in {"new", "running"} /\ owner' = "unpiped"
  /\ busy \cap PipeWriters = {}
  /\ UNCHANGED <<active, listener, glove, late, queueVars, serviceVars>>

\* ~HardwareCommunicationManager: thread_active_.exchange(false)
ExchangeActive ==
  /\ owner = "unpiped"
  /\ owner' = IF active THEN "cancel" ELSE "gone"
  /\ active' = FALSE
  /\ UNCHANGED <<listener, glove, late, queueVars, serviceVars>>

\* PrepareDisconnect: CancelIoEx ends the I/O that is pending at this moment (of a
\* listener in RawWrite, WriteFile or nothing) and no later one; for bluetooth it
\* does nothing.
PrepareDisconnect ==
  /\ owner = "cancel" /\ owner' = "join"
  /\ \/ /\ transport = "serial" /\ listener \in Blocked \cup {"write"}
        /\ listener' = "returned"
     \/ /\ transport # "serial" \/ listener \notin Blocked
        /\ UNCHANGED listener
  /\ UNCHANGED <<active, glove, late, queueVars, serviceVars>>

\* join returns; then the service is destroyed, which frees the port.
Join ==
  /\ owner = "join" /\ owner' = "gone"
  /\ listener = "returned"
  /\ UNCHANGED <<active, listener, glove, late, queueVars, serviceVars>>

Owner == BeginListener \/ JoinPipe \/ ExchangeActive \/ PrepareDisconnect \/ Join

--------------------------------------------------------------------------------
(* The glove and the operating system's port.                                  *)

\* A byte arrives; a full buffer drops it, and the event is raised all the same.
GloveSends(b) ==
  /\ owner # "gone" /\ link = "up"
  /\ rx' = IF Len(rx) < MaxRx THEN Append(rx, b) ELSE rx
  /\ event' = IF event = "unset" THEN "unset" ELSE "set"
  /\ UNCHANGED <<transport, owner, active, listener, link, glove, late, queueVars>>

LinkFails ==
  /\ owner # "gone" /\ link = "up"
  /\ link' \in (IF transport = "bluetooth" THEN {"down", "closed"} ELSE {"down"})
  /\ UNCHANGED <<transport, owner, active, listener, rx, event, glove, late, queueVars>>

Environment == LinkFails \/ \E b \in Bytes : GloveSends(b)

--------------------------------------------------------------------------------

Next ==
  \/ Owner \/ Listener \/ Environment
  \/ \E w \in Writers : WriteOutput(w) \/ WriteOutputDone(w)

Spec == Init /\ [][Next]_vars

\* Every thread of the program is scheduled.
ThreadFairness ==
  /\ WF_vars(Listener)
  /\ WF_vars(PrepareDisconnect) /\ WF_vars(Join) /\ WF_vars(ExchangeActive)
  /\ \A w \in Writers : WF_vars(WriteOutputDone(w))

NewlineArrives == GloveSends("newline") /\ Len(rx) < MaxRx

\* On serial, a glove whose firmware streams for as long as it is connected,
SerialStreams ==
  /\ WF_vars(transport = "serial" /\ GloveSends("newline"))
  /\ SF_vars(transport = "serial" /\ NewlineArrives)

\* on bluetooth, one that may fall silent, but never sends a line without an end.
LinesEnd == []<><<GloveSends("char")>>_vars => []<><<NewlineArrives>>_vars

LiveSpec == Spec /\ ThreadFairness /\ SerialStreams /\ LinesEnd

--------------------------------------------------------------------------------
(* Properties.                                                                 *)

Finished(w) == 1..(IF w \in busy THEN made[w] - 1 ELSE made[w])
Queued      == OutputsIn(queue, Len(queue))

\* What the next RawWrite would send is new to the glove and in each writer's
\* order: whatever the unlocked appends do, the glove is never told an output
\* twice and never an older one after a newer one (CommunicationThread 45-54,
\* WriteOutput 58-61).
FreshInOrder ==
  listener = "write" =>
    \A k \in SentLengths(queue) : \A i \in 1..k : queue[i] \in Outputs =>
      /\ \A o \in glove : o[1] = queue[i][1] => o[2] < queue[i][2]
      /\ \A j \in 1..(i - 1) :
           queue[j] \in Outputs /\ queue[j][1] = queue[i][1] => queue[j][2] < queue[i][2]

\* The manager is a lossy channel that neither repeats nor reorders.
Channel == INSTANCE OutputChannel WITH Writers <- Writers, made <- made, glove <- glove
ImplementsChannel == Channel!Spec

\* An output is lost only to a race on queued_write_string or to a short write:
\* as long as appends neither overlapped one another nor the send-and-clear of
\* the listener, every output is on the glove or still queued
\* (hardware_communication_manager.cpp 45-54, 60).
NoLossUnlessRaced ==
  ~raced => \A w \in Writers : \A n \in Finished(w) : <<w, n>> \in glove \cup Queued

\* To the driver this is a listener as DeviceListener describes it: in particular,
\* after the destructor has cleared thread_active_ the driver sees at most the one
\* packet that was already being read, and the device ends when the thread has
\* returned (lines 19-30, 33-42, 63-72).
Thread ==
  IF listener = "none" \/ owner = "gone" THEN "off"
  ELSE IF listener = "callback" THEN "callback"
  ELSE IF listener = "returned" \/ late > 0 THEN "returned" ELSE "receive"
Stopping == owner \in {"cancel", "join", "gone"}
Listens == INSTANCE DeviceListener WITH thread <- Thread, stopping <- Stopping
ImplementsListener == Listens!Spec

\* The destructor returns, although CancelIoEx reaches the listener only while it
\* is blocked: a serial glove that keeps sending, or a link that fails, releases
\* it, and on bluetooth the receive timeout, unless the glove closed the connection
\* (hardware_communication_manager.cpp 63-72, service_bluetooth_win.cpp 136-147).
DestructorReturns == [](link # "closed") => (owner = "cancel" ~> owner = "gone")

\* What is queued is sent or given up: a listener that is alive clears the queue
\* again and again while the glove sends (lines 44-54).
QueueIsFlushed ==
  [](link # "closed") => (queue # <<>> ~> (queue = <<>> \/ listener \in {"none", "returned"}))
================================================================================
