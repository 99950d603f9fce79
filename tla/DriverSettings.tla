----------------------------- MODULE DriverSettings -----------------------------
(* SteamVR's settings as the driver's threads use them: the handlers of GET,   *)
(* POST and DELETE /settings on the external server's workers, Init, which     *)
(* reads the server's configuration and makes the driver of a hand, and a      *)
(* completed calibration, which saves its offset.  Every call of VRSettings()  *)
(* is atomic and nothing makes two of them one, so a task is the sequence of   *)
(* the calls it has yet to make.                                               *)
(*                                                                             *)
(* A setting stands for those of its kind: "driver" for left_enabled and       *)
(* right_enabled, "position" and "degrees" for a hand's six offsets in the     *)
(* section "pose", the others for their section.                               *)
EXTENDS Naturals, Sequences

CONSTANTS
  Workers,       \* the external server's threads
  Bodies,        \* the bodies posted: sequences of items, in the order of their keys
  MaxRequests,   \* bound: requests in all
  MaxSaves       \* bound: calibrations completed

Options == {"driver", "btserial", "serial", "namedpipe", "alpha", "position", "degrees"}
Values  == 0..2
Default == 1        \* of every setting, in default.vrsettings

\* An item of a body: set to a value, refused by SteamVR, or skipped, as its key has
\* "__" in it or its value is of no type that can be set.
Items == (Options \X {"set"} \X Values) \cup (Options \X {"refused", "skipped"} \X {0})

ASSUME BodiesAssumption ==
  \A b \in Bodies : b \in Seq(Items) /\ \A i, j \in 1..Len(b) : b[i][1] = b[j][1] => i = j
ASSUME BoundsAssumption == MaxRequests \in Nat /\ MaxSaves \in Nat

Provider == "provider"      \* SteamVR's thread, in Init
Saver    == "saver"         \* the thread that completes calibrations
Threads  == Workers \cup {Provider, Saver}

\* The calls of a task: settings are read, items set, and sections removed.
Calls == Items \cup (Options \X {"get"} \X {0}) \cup ((Options \cup {"pose"}) \X {"remove"} \X {Default})

Gets(names)    == [i \in 1..Len(names) |-> <<names[i], "get", 0>>]
Removes(names) == [i \in 1..Len(names) |-> <<names[i], "remove", Default>>]

GetOrder           == Gets(<<"driver", "btserial", "serial", "namedpipe", "alpha", "position", "degrees">>)
DeleteOrder        == Removes(<<"driver", "serial", "btserial", "pose", "alpha">>)
ConfigurationOrder == Gets(<<"driver", "serial", "btserial", "alpha", "namedpipe">>)
PoseOrder          == Gets(<<"position", "degrees">>)

\* The settings of a section, or a setting by its name.
Named(name) == IF name = "pose" THEN {"position", "degrees"} ELSE {name}

VARIABLES
  settings,     \* what SteamVR holds
  op,           \* op[t]: the task t is at
  todo,         \* todo[t]: the calls it has yet to make
  got,          \* got[t]: the settings it has read so far, with their values
  requests, saves,  \* counters of the bounds
  seen,         \* auxiliary: seen[t][o]: the values o has had since t's task began
  expected,     \* auxiliary: the settings, had every task been one step
  overlapped    \* auxiliary: two tasks were setting at once

vars == <<settings, op, todo, got, requests, saves, seen, expected, overlapped>>

Reads  == {"get", "configuration", "drivers"}
Writes == {"post", "delete", "save"}

TypeOK ==
  /\ settings \in [Options -> Values] /\ expected \in [Options -> Values]
  /\ op \in [Threads -> {"idle"} \cup Reads \cup Writes]
  /\ todo \in [Threads -> Seq(Calls)]
  /\ got \in [Threads -> Seq(Options \X Values)]
  /\ seen \in [Threads -> [Options -> SUBSET Values]]
  /\ requests \in Nat /\ saves \in Nat /\ overlapped \in BOOLEAN

Now(s) == [o \in Options |-> {s[o]}]
Unseen == [o \in Options |-> {}]

\* Init of the driver comes to the configuration when the server already runs.
Init ==
  /\ settings = [o \in Options |-> Default] /\ expected = settings
  /\ op = [t \in Threads |-> IF t = Provider THEN "configuration" ELSE "idle"]
  /\ todo = [t \in Threads |-> IF t = Provider THEN ConfigurationOrder ELSE <<>>]
  /\ got = [t \in Threads |-> <<>>]
  /\ requests = 0 /\ saves = 0
  /\ seen = [t \in Threads |-> IF t = Provider THEN Now(settings) ELSE Unseen]
  /\ overlapped = FALSE

--------------------------------------------------------------------------------
(* A task begins.                                                              *)

Begin(t, task, order) ==
  /\ op[t] = "idle"
  /\ op' = [op EXCEPT ![t] = task]
  /\ todo' = [todo EXCEPT ![t] = order]
  /\ seen' = [seen EXCEPT ![t] = IF task \in Reads THEN Now(settings) ELSE Unseen]
  /\ UNCHANGED <<settings, got>>

\* What a body b makes of the settings s: every item up to the first one refused.
Taken(b, o) == {i \in 1..Len(b) : /\ b[i][1] = o /\ b[i][2] = "set"
                                  /\ ~\E j \in 1..i : b[j][2] = "refused"}
Posted(b, s) ==
  [o \in Options |-> IF Taken(b, o) = {} THEN s[o] ELSE b[CHOOSE i \in Taken(b, o) : TRUE][3]]

Sets(outcome) ==
  /\ expected' = outcome
  /\ overlapped' = (overlapped \/ \E u \in Threads : op[u] \in Writes)

Request(w) == w \in Workers /\ requests < MaxRequests /\ requests' = requests + 1 /\ UNCHANGED saves

Get(w) ==
  /\ Request(w) /\ Begin(w, "get", GetOrder)
  /\ UNCHANGED <<expected, overlapped>>

Post(w, b) ==
  /\ Request(w) /\ Begin(w, "post", b)
  /\ Sets(Posted(b, expected))

\* DELETE leaves the named pipe's section alone.
Delete(w) ==
  /\ Request(w) /\ Begin(w, "delete", DeleteOrder)
  /\ Sets([o \in Options |-> IF o = "namedpipe" THEN expected[o] ELSE Default])

\* SetPoseConfiguration
Save(v) ==
  /\ saves < MaxSaves /\ saves' = saves + 1 /\ UNCHANGED requests
  /\ Begin(Saver, "save", <<<<"position", "set", v>>, <<"degrees", "set", v>>>>)
  /\ Sets([o \in Options |-> IF o \in {"position", "degrees"} THEN v ELSE expected[o]])

--------------------------------------------------------------------------------
(* Its calls, one by one.                                                      *)

Due(t) == Head(todo[t])
Calling(t, what) ==
  /\ todo[t] # <<>> /\ Due(t)[2] = what
  /\ todo' = [todo EXCEPT ![t] = Tail(todo[t])]
Counters == UNCHANGED <<requests, saves, expected, overlapped>>

\* Mutant: the map of one section is read from another.
ReadingOtherSection(o) == IF o = "btserial" THEN settings["serial"] ELSE settings[o]

\* What the maps of the configuration hold for a setting: a max_analog_value of zero,
\* which the decoder would divide by, is replaced.
Reading(o) == IF o = "alpha" /\ settings[o] = 0 THEN 1 ELSE settings[o]

Read(t) ==
  /\ op[t] \in Reads /\ Calling(t, "get")
  /\ got' = [got EXCEPT ![t] = Append(got[t], <<Due(t)[1], Reading(Due(t)[1])>>)]
  /\ Counters /\ UNCHANGED <<settings, op, seen>>

\* The named settings become v.
Store(name, v) ==
  /\ settings' = [o \in Options |-> IF o \in Named(name) THEN v ELSE settings[o]]
  /\ seen' = [t \in Threads |-> [o \in Options |->
                 IF op[t] \in Reads THEN seen[t][o] \cup {settings'[o]} ELSE {}]]

SetItem(t) ==
  /\ op[t] \in {"post", "save"} /\ Calling(t, "set") /\ Store(Due(t)[1], Due(t)[3])
  /\ Counters /\ UNCHANGED <<op, got>>

SkipItem(t) ==
  /\ op[t] = "post" /\ Calling(t, "skipped")
  /\ Counters /\ UNCHANGED <<settings, seen, op, got>>

\* Mutant: a refused item does not end the request.
RefuseAndGoOn(t) ==
  /\ op[t] = "post" /\ Calling(t, "refused")
  /\ Counters /\ UNCHANGED <<settings, seen, op, got>>

\* An error of SteamVR's ends the request with 400; what is set stays set.
Refuse(t) ==
  /\ op[t] = "post" /\ todo[t] # <<>> /\ Due(t)[2] = "refused"
  /\ todo' = [todo EXCEPT ![t] = <<>>]
  /\ Counters /\ UNCHANGED <<settings, seen, op, got>>

RemoveSection(t) ==
  /\ op[t] = "delete" /\ Calling(t, "remove") /\ Store(Due(t)[1], Due(t)[3])
  /\ Counters /\ UNCHANGED <<op, got>>

\* Init has read that its hand is enabled.
HandEnabled == got[Provider][Len(got[Provider])] \in {<<"driver", v>> : v \in Values \ {0}}

\* The answer, or the return, of a task that is done.
Answer(t) ==
  /\ op[t] \in Writes \cup {"get", "drivers"} /\ todo[t] = <<>>
  /\ op[t] = "drivers" => ~HandEnabled
  /\ op' = [op EXCEPT ![t] = "idle"]
  /\ got' = [got EXCEPT ![t] = <<>>]
  /\ seen' = [seen EXCEPT ![t] = Unseen]
  /\ Counters /\ UNCHANGED <<settings, todo>>

\* Init has the configuration, starts the server with it, and reads again which
\* hands are enabled
MakeServer ==
  /\ op[Provider] = "configuration" /\ todo[Provider] = <<>>
  /\ op' = [op EXCEPT ![Provider] = "drivers"]
  /\ todo' = [todo EXCEPT ![Provider] = Gets(<<"driver">>)]
  /\ Counters /\ UNCHANGED <<settings, seen, got>>

\* and makes a driver, whose DevicePose reads its offset, if the hand is.
MakeDriver ==
  /\ op[Provider] = "drivers" /\ todo[Provider] = <<>>
  /\ HandEnabled
  /\ todo' = [todo EXCEPT ![Provider] = PoseOrder]
  /\ Counters /\ UNCHANGED <<settings, seen, op, got>>

Call(t) == Read(t) \/ SetItem(t) \/ SkipItem(t) \/ Refuse(t) \/ RemoveSection(t) \/ Answer(t)

Next ==
  \/ \E w \in Workers : Get(w) \/ Delete(w) \/ \E b \in Bodies : Post(w, b)
  \/ \E v \in Values : Save(v)
  \/ \E t \in Threads : Call(t)
  \/ MakeServer \/ MakeDriver

Spec == Init /\ [][Next]_vars

--------------------------------------------------------------------------------
(* Properties.                                                                 *)

\* Unless two tasks were setting at once, the settings are what they would be if
\* each had been one step: a POST has set what precedes its first refused item and
\* nothing after it, a DELETE has reset every section but the named pipe's, and a
\* calibration's offset is whole (driver_external.cpp 58-123, device_configuration.cpp
\* 127-142).
SettingsAreSerial ==
  ~overlapped /\ (\A t \in Threads : op[t] \notin Writes) => settings = expected

\* What is answered to GET, handed to the server and used by the driver are values
\* the setting itself has had since the task began, and never a max_analog_value of
\* zero; so without a change in between Init probes for the hands that it makes
\* drivers for, and the decoder never divides by zero (driver_external.cpp 22-55,
\* device_configuration.cpp 25-125, physical_device_provider.cpp 29-45, 144-156).
MayBeRead(o, S) == IF o # "alpha" THEN S ELSE {IF v = 0 THEN 1 ELSE v : v \in S}
AnswersAreCurrent ==
  \A t \in Threads : \A i \in 1..Len(got[t]) :
    got[t][i][2] \in MayBeRead(got[t][i][1], seen[t][got[t][i][1]])
================================================================================
