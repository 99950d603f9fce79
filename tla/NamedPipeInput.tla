---------------------------- MODULE NamedPipeInput -----------------------------
(* What happens to the input of a hand's named pipes: each version of the pipe *)
(* has a listener thread of its own (a NamedPipeListener), which announces its *)
(* first client and hands every message, without a lock, through two layers of *)
(* callbacks to one LucidglovesDevice.  That bends the bones of the driver's   *)
(* skeleton_, reports it to SteamVR and has it sent by OutputOSCServer; on the *)
(* way everything is logged.  The OSC server and og::Logger are shared by the  *)
(* threads of both hands, and a hand's skeleton_ also by SteamVR's thread that *)
(* calls Activate.                                                             *)
(*                                                                             *)
(* Data is abstracted to the thread it comes from, and a skeleton to two parts *)
(* that are written one after another; a time is an age, which grows with each *)
(* Tick.  What two std::string or std::function operations at once do to the   *)
(* memory is left out.                                                         *)
EXTENDS Integers

CONSTANTS
  Hands,      \* the hands whose named pipe is enabled
  Versions,   \* the pipes of a hand: v1 and v2
  Period,     \* the 50 milliseconds between OSC bundles
  MaxDelay    \* bound: how long a thread may be in OutputOSCServer::Send

ASSUME HandsAssumption    == Hands \cap {"", "data"} = {}     \* they stand for messages, too
ASSUME VersionsAssumption == Versions \in Nat \ {0}
ASSUME PeriodAssumption   == Period \in Nat /\ MaxDelay \in 0 .. Period

Listeners == Hands \X (1 .. Versions)
Threads   == Hands \X (0 .. Versions)    \* <<h, 0>>: the call of Activate for hand h
ListenersOf(h) == {h} \X (1 .. Versions)
ThreadsOf(h)   == {h} \X (0 .. Versions)

VARIABLES
  owner,          \* owner[h]: how far the hand's device is in its life
  registered,     \* client_registered_
  pc,             \* pc[t]: what thread t does next
  skeleton,       \* skeleton_: the thread each part was last written by
  message,        \* message[t]: the argument of t's call of Log
  last_message,   \* og::Logger
  now,            \* now[t]: the age of t's reading of the clock
  last_send_time, \* the age of last_send_time_
  crashed,        \* a callback was used that was not there
  together,       \* together[t]: another thread has been where t is, at once
  announced,      \* announced[h]: calls of on_client_connected_
  delivered,      \* the message last given to the logger's subscribers
  mixed,          \* two threads have been in Log at once
  sent            \* the age of the last bundle

vars == <<owner, registered, pc, skeleton, message, last_message, now, last_send_time, crashed,
          together, announced, delivered, mixed, sent>>
logger == <<message, last_message, delivered, mixed>>
osc    == <<now, last_send_time, sent>>

(* Where a thread is in the parts that share something.                        *)
Bending == {"first", "second", "report"}
Logging == {"compare", "assign", "deliver"}
Sending == {"test", "send", "store"}

Places ==
  {"off", "wait", "event", "announce", "register", "idle", "data", "pass", "clock", "ended"}
    \cup Bending \cup Logging \cup Sending

Stages    == {"new", "outer", "inner", "up", "dropping", "join", "gone"}
None      == <<>>
Skeletons == [{1, 2} -> Threads \cup {None}]
Messages  == Hands \cup {"data"}
MaxAge    == Period + MaxDelay

TypeOK ==
  /\ owner \in [Hands -> Stages] /\ registered \in [Hands -> BOOLEAN] /\ announced \in [Hands -> Nat]
  /\ pc \in [Threads -> Places] /\ together \in [Threads -> BOOLEAN]
  /\ skeleton \in [Hands -> Skeletons]
  /\ message \in [Threads -> Messages]
  /\ last_message \in Messages \cup {""} /\ delivered \in Messages \cup {""}
  /\ now \in [Threads -> 0 .. MaxDelay]
  /\ last_send_time \in 0 .. MaxAge /\ sent \in 0 .. MaxAge
  /\ crashed \in BOOLEAN /\ mixed \in BOOLEAN

(* last_send_time_ starts as the epoch of the clock, long ago.                 *)
Init ==
  /\ owner = [h \in Hands |-> "new"] /\ registered = [h \in Hands |-> FALSE]
  /\ pc = [t \in Threads |-> "off"]
  /\ skeleton = [h \in Hands |-> [part \in {1, 2} |-> None]]
  /\ message = [t \in Threads |-> "data"] /\ last_message = "" /\ delivered = "" /\ mixed = FALSE
  /\ now = [t \in Threads |-> 0] /\ last_send_time = MaxAge /\ sent = MaxAge
  /\ crashed = FALSE /\ together = [t \in Threads |-> FALSE]
  /\ announced = [h \in Hands |-> 0]

Go(t, here, there) == pc[t] = here /\ pc' = [pc EXCEPT ![t] = there]

(* Thread t comes to a part that it shares with the other threads of S.        *)
Meet(t, part, S) ==
  together' = [u \in Threads |-> IF u = t THEN \E v \in S \ {t} : pc[v] \in part
                                 ELSE together[u] \/ (u \in S /\ pc[u] \in part)]

(* Calling a std::function that is there, or one that is not.                  *)
Call(there, A) ==
  \/ there /\ A
  \/ ~there /\ crashed' = TRUE
     /\ UNCHANGED <<owner, registered, pc, skeleton, logger, osc, together, announced>>

--------------------------------------------------------------------------------
Advance(h, from, to) ==
  /\ owner[h] = from /\ owner' = [owner EXCEPT ![h] = to]
  /\ UNCHANGED <<registered, pc, skeleton, logger, osc, crashed, together, announced>>

(* BeginListener assigns on_data_callback_; StartListener assigns the Impl's   *)
(* own, starts the listeners and sets is_listening_.                           *)
BeginListener(h) ==
  \/ Advance(h, "new", "outer") \/ Advance(h, "outer", "inner")
  \/ (\A t \in ListenersOf(h) : pc[t] # "off") /\ Advance(h, "inner", "up")

(* The destructors end the manager's callbacks, then those of its Impl, and    *)
(* then the listeners, one by one, which joins their threads.                  *)
Destroy(h) ==
  \/ Advance(h, "up", "dropping") \/ Advance(h, "dropping", "join")
  \/ (\A t \in ListenersOf(h) : pc[t] = "ended") /\ Advance(h, "join", "gone")

\* Mutant: a listener is started where it is made.
StartPipeEarly(h, t) ==
  /\ owner[h] \in {"outer", "inner"}
  /\ Go(t, "off", "wait")
  /\ UNCHANGED <<owner, registered, skeleton, logger, osc, crashed, together, announced>>

StartPipe(h, t) ==
  /\ owner[h] = "inner" /\ \A u \in ListenersOf(h) : u[2] < t[2] => pc[u] # "off"
  /\ Go(t, "off", "wait")
  /\ UNCHANGED <<owner, registered, skeleton, logger, osc, crashed, together, announced>>

StopPipe(h, t) ==
  /\ owner[h] = "join" /\ \A u \in ListenersOf(h) : u[2] < t[2] => pc[u] = "ended"
  /\ Go(t, "wait", "ended") \/ Go(t, "idle", "ended")
  /\ UNCHANGED <<owner, registered, skeleton, logger, osc, crashed, together, announced>>

HasCallbacks(h)     == owner[h] \in {"outer", "inner", "up"}
HasImplCallbacks(h) == owner[h] \in {"inner", "up", "dropping"}

--------------------------------------------------------------------------------
(* The clients of a pipe, one after another, as NamedPipeListener serves them. *)
Client(t) ==
  /\ Go(t, "wait", "event") \/ Go(t, "idle", "data") \/ Go(t, "idle", "wait")
  /\ UNCHANGED <<owner, registered, skeleton, logger, osc, crashed, together, announced>>

(* OnEvent: announces the first client, and registers it after that.           *)
OnEvent(h, t) ==
  /\ pc[t] = "event"
  /\ Call(HasImplCallbacks(h),
          /\ Go(t, "event", IF registered[h] THEN "idle" ELSE "announce")
          /\ UNCHANGED <<owner, registered, skeleton, logger, osc, crashed, together, announced>>)

(* A thread enters Log with a message.                                         *)
Log(t, here, m) ==
  /\ Go(t, here, "compare")
  /\ message' = [message EXCEPT ![t] = m]
  /\ mixed' = (mixed \/ \E u \in Threads \ {t} : pc[u] \in Logging)
  /\ UNCHANGED <<owner, registered, skeleton, last_message, delivered, osc, crashed, together>>

Announce(h, t) ==
  /\ pc[t] = "announce"
  /\ Call(HasCallbacks(h), Log(t, "announce", h) /\ announced' = [announced EXCEPT ![h] = @ + 1])

\* Mutant: the hand is registered for each of its pipes.
RegisterNothing(h, t) ==
  /\ Go(t, "register", "idle")
  /\ UNCHANGED <<owner, registered, skeleton, logger, osc, crashed, together, announced>>

Register(h, t) ==
  /\ Go(t, "register", "idle")
  /\ registered' = [registered EXCEPT ![h] = TRUE]
  /\ UNCHANGED <<owner, skeleton, logger, osc, crashed, together, announced>>

(* A message: the Impl's callback logs "Received named pipe data" and passes   *)
(* it on to the device's.                                                      *)
Data(h, t) == pc[t] = "data" /\ Call(HasImplCallbacks(h), Log(t, "data", "data") /\ UNCHANGED announced)

Pass(h, t) ==
  /\ pc[t] = "pass"
  /\ Call(HasCallbacks(h),
          /\ Go(t, "pass", "first") /\ Meet(t, Bending, ThreadsOf(h))
          /\ UNCHANGED <<owner, registered, skeleton, logger, osc, crashed, announced>>)

--------------------------------------------------------------------------------
(* og::Logger::Log: a message that repeats the last is not given to the        *)
(* subscribers.                                                                *)
Logged(t) == IF message[t] = "data" THEN "pass" ELSE "register"

\* Mutant: the last message is kept when it has been delivered.
AssignNothing(t) ==
  /\ Go(t, "assign", "deliver")
  /\ UNCHANGED <<owner, registered, skeleton, logger, osc, crashed, together, announced>>

Compare(t) ==
  /\ Go(t, "compare", IF last_message = message[t] THEN Logged(t) ELSE "assign")
  /\ UNCHANGED <<owner, registered, skeleton, logger, osc, crashed, together, announced>>

Assign(t) ==
  /\ Go(t, "assign", "deliver")
  /\ last_message' = message[t]
  /\ UNCHANGED <<owner, registered, skeleton, message, delivered, mixed, osc, crashed, together, announced>>

DeliverLog(t) ==
  /\ Go(t, "deliver", Logged(t))
  /\ delivered' = message[t]
  /\ UNCHANGED <<owner, registered, skeleton, message, last_message, mixed, osc, crashed, together, announced>>

--------------------------------------------------------------------------------
(* ComputeBoneTransforms, or Activate's LoadDefaultSkeletonByHand, writes the  *)
(* bones one after another, and UpdateSkeletonComponent reads them all.        *)
Activate(h) ==
  /\ Go(<<h, 0>>, "off", "first") /\ Meet(<<h, 0>>, Bending, ThreadsOf(h))
  /\ UNCHANGED <<owner, registered, skeleton, logger, osc, crashed, announced>>

\* Mutant: the skeleton is reported before its last bones are written.
WriteFirstOnly(h, t) ==
  /\ Go(t, "first", "report")
  /\ skeleton' = [skeleton EXCEPT ![h][1] = t]
  /\ UNCHANGED <<owner, registered, logger, osc, crashed, together, announced>>

WriteFirst(h, t) ==
  /\ Go(t, "first", "second")
  /\ skeleton' = [skeleton EXCEPT ![h][1] = t]
  /\ UNCHANGED <<owner, registered, logger, osc, crashed, together, announced>>

WriteSecond(h, t) ==
  /\ Go(t, "second", "report")
  /\ skeleton' = [skeleton EXCEPT ![h][2] = t]
  /\ UNCHANGED <<owner, registered, logger, osc, crashed, together, announced>>

Report(h, t) ==
  /\ Go(t, "report", IF t \in Listeners THEN "clock" ELSE "ended")
  /\ UNCHANGED <<owner, registered, skeleton, logger, osc, crashed, together, announced>>

--------------------------------------------------------------------------------
(* OutputOSCServer::Send: the clock is read once, tested and stored.           *)
ReadClock(t) ==
  /\ Go(t, "clock", "test") /\ Meet(t, Sending, Listeners)
  /\ UNCHANGED <<owner, registered, skeleton, logger, osc, crashed, announced>>

Rests(t) == last_send_time - now[t] < Period

\* Mutant: the time is kept of every call, also of those that do not send.
TestAndStore(t) ==
  /\ Go(t, "test", IF Rests(t) THEN "idle" ELSE "send")
  /\ last_send_time' = now[t]
  /\ now' = [now EXCEPT ![t] = IF Rests(t) THEN 0 ELSE @]
  /\ UNCHANGED <<owner, registered, skeleton, logger, sent, crashed, together, announced>>

Test(t) ==
  /\ Go(t, "test", IF Rests(t) THEN "idle" ELSE "send")
  /\ now' = [now EXCEPT ![t] = IF Rests(t) THEN 0 ELSE @]
  /\ UNCHANGED <<owner, registered, skeleton, logger, last_send_time, sent, crashed, together, announced>>

SendBundle(t) ==
  /\ Go(t, "send", "store")
  /\ sent' = 0
  /\ UNCHANGED <<owner, registered, skeleton, logger, now, last_send_time, crashed, together, announced>>

StoreTime(t) ==
  /\ Go(t, "store", "idle")
  /\ last_send_time' = now[t]
  /\ now' = [now EXCEPT ![t] = 0]
  /\ UNCHANGED <<owner, registered, skeleton, logger, sent, crashed, together, announced>>

Older(age) == IF age = MaxAge THEN age ELSE age + 1
Tick ==
  /\ \A t \in Threads : pc[t] \in Sending => now[t] < MaxDelay
  /\ now' = [t \in Threads |-> IF pc[t] \in Sending THEN now[t] + 1 ELSE 0]
  /\ last_send_time' = Older(last_send_time) /\ sent' = Older(sent)
  /\ UNCHANGED <<owner, registered, pc, skeleton, logger, crashed, together, announced>>

--------------------------------------------------------------------------------
Listen(h, t) ==
  \/ StartPipe(h, t) \/ StopPipe(h, t) \/ Client(t)
  \/ OnEvent(h, t) \/ Announce(h, t) \/ Register(h, t) \/ Data(h, t) \/ Pass(h, t)
  \/ Compare(t) \/ Assign(t) \/ DeliverLog(t)
  \/ ReadClock(t) \/ Test(t) \/ SendBundle(t) \/ StoreTime(t)
Bend(h, t) == WriteFirst(h, t) \/ WriteSecond(h, t) \/ Report(h, t)

Next ==
  /\ ~crashed
  /\ \/ \E h \in Hands :
          \/ BeginListener(h) \/ Destroy(h) \/ Activate(h)
          \/ \E t \in ListenersOf(h) : Listen(h, t)
          \/ \E t \in ThreadsOf(h) : Bend(h, t)
     \/ Tick

Spec == Init /\ [][Next]_vars

--------------------------------------------------------------------------------
(* A callback is never missing but while the device is being destroyed, when   *)
(* the callbacks end before the threads that use them are joined.              *)
CrashNeedsDestruction == crashed => \E h \in Hands : owner[h] \in {"dropping", "join"}

(* Though client_registered_ is tested and set unlocked, no hand is announced  *)
(* more often than it has pipes, however many clients come and go.             *)
AnnouncedOncePerPipe == \A h \in Hands : announced[h] <= Versions

(* What SteamVR is told of is one whole skeleton of the thread that tells it,  *)
(* unless another packet of the hand, of the other pipe's client, or Activate  *)
(* was being worked on at the same time.                                       *)
SkeletonsAreWhole ==
  \A t \in Threads : pc[t] = "report" /\ ~together[t] => \A part \in {1, 2} : skeleton[t[1]][part] = t

(* "send once every 50 milliseconds": a call of Send returns without sending   *)
(* only if a bundle has left less than that before it read the clock, and a    *)
(* bundle leaves sooner after the last, by more than the time a thread spends  *)
(* in Send, only if two threads were in Send at once.                          *)
OneBundlePerPeriod ==
  [][\A t \in Listeners :
       /\ pc[t] = "test" /\ pc'[t] = "idle" => sent - now[t] < Period
       /\ pc[t] = "send" /\ pc'[t] = "store" /\ ~together[t] => sent >= Period - MaxDelay]_vars

(* The logger's subscribers are not given the same message twice in a row,     *)
(* until two threads have been in Log at once.                                 *)
RepeatsNeedARace ==
  \A t \in Threads : pc[t] = "deliver" /\ ~mixed => delivered # message[t]

================================================================================
