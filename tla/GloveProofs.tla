------------------------------ MODULE GloveProofs ------------------------------
(* Machine-checked proofs about the two sides of a glove's connection:         *)
(* HardwareCommunication, for every set of writers, both transports and every  *)
(* bound; and GlovePackets, for every stream of packets, hand model file and   *)
(* max_analog_value.                                                           *)
EXTENDS HardwareCommunication, GlovePackets, FiniteSetTheorems, WellFoundedInduction, TLAPS

--------------------------------------------------------------------------------
(* The inductive invariant, in named parts.                                    *)

\* thread_active_ and the listener follow the owner.
Lifecycle ==
  /\ active => owner \in {"running", "unpiped"} /\ listener # "none"
  /\ owner = "running" => active
  /\ owner \in {"cancel", "join"} => listener # "none"
  /\ owner = "new" => listener = "none"
  /\ owner = "unpiped" /\ ~active => listener = "none"
  /\ owner = "gone" => listener \in {"none", "returned"}
  /\ owner \in {"unpiped", "cancel", "join", "gone"} => busy \cap PipeWriters = {}

\* Only the packet being read when thread_active_ is cleared can still be handed on.
LateCallbacks ==
  /\ late <= 1
  /\ active \/ listener = "none" => late = 0
  /\ listener \in {"mask", "event", "read", "byte", "callback"} => late = 0

\* No output carries a number its writer has not reached.
Reached(o) == o[2] \in Finished(o[1])
Numbered ==
  /\ \A w \in busy : made[w] > 0
  /\ \A m \in 1..Len(queue) : queue[m] \in Outputs => Reached(queue[m])
  /\ \A o \in glove : Reached(o)

\* The queue holds each writer's outputs in order, and until RawWrite has sent
\* them they are newer than what the glove has.
Ordered ==
  /\ \A j \in 1..Len(queue) : \A m \in 1..(j - 1) :
       queue[m] \in Outputs /\ queue[j] \in Outputs /\ queue[m][1] = queue[j][1]
         => queue[m][2] < queue[j][2]
  /\ listener # "clear" =>
       \A m \in 1..Len(queue) : queue[m] \in Outputs =>
         \A o \in glove : o[1] = queue[m][1] => o[2] < queue[m][2]

\* As long as there was no race, at most one append is under way, it knows the
\* size of the queue, and what is about to be cleared has been sent.
Exclusive ==
  ~raced =>
    /\ \A w \in busy : held[w] = Len(queue) /\ listener \notin {"append", "clear"}
    /\ \A v, w \in busy : v = w
    /\ listener = "append" => mark = Len(queue)
    /\ \A m \in 1..Len(queue) : queue[m] # NUL
    /\ listener = "clear" => Queued \subseteq glove

IInv == TypeOK /\ Lifecycle /\ LateCallbacks /\ Numbered /\ Ordered /\ Exclusive
        /\ NoLossUnlessRaced

--------------------------------------------------------------------------------
(* Lemmas about the string.                                                    *)

\* Storing a cell behind the first k yields a string of k + 1 cells that keeps
\* what lay before, with NULs where nothing did.
LEMMA StoreAtFacts ==
  ASSUME NEW q \in Seq(Cells), NEW k \in Nat, NEW cell \in Cells
  PROVE  /\ StoreAt(q, k, cell) \in Seq(Cells)
         /\ Len(StoreAt(q, k, cell)) = k + 1
         /\ StoreAt(q, k, cell)[k + 1] = cell
         /\ \A m \in 1..k : /\ m <= Len(q) => StoreAt(q, k, cell)[m] = q[m]
                            /\ m > Len(q) => StoreAt(q, k, cell)[m] = NUL
<1>1. NUL \in Cells /\ k + 1 \in Nat
  BY DEF Cells
<1>2. \A m \in 1..(k + 1) : StoreAt(q, k, cell)[m] \in Cells
  BY <1>1 DEF StoreAt
<1>3. StoreAt(q, k, cell) \in [1..(k + 1) -> Cells]
  BY <1>2 DEF StoreAt
<1> QED
  BY <1>1, <1>3 DEF StoreAt

--------------------------------------------------------------------------------
(* Types.                                                                      *)

\* Nothing is queued or sent at first.
LEMMA InitType == Init => TypeOK
<1> SUFFICES ASSUME Init PROVE TypeOK
  OBVIOUS
<1>1. queue \in Seq(Cells) /\ rx \in Seq(Bytes) /\ glove \in SUBSET Outputs
  BY DEF Init
<1>2. active \in BOOLEAN /\ raced \in BOOLEAN /\ busy \in SUBSET Writers /\ transport \in Transports
  BY DEF Init
<1>3. made \in [Writers -> Nat] /\ held \in [Writers -> Nat] /\ mark \in Nat /\ late \in Nat
  BY DEF Init
<1>4. /\ owner \in OwnerStates /\ listener \in ListenerStates
      /\ event \in {"unset", "clear", "set"} /\ link \in {"up", "down", "closed"}
  BY DEF Init, OwnerStates, ListenerStates
<1> QED
  BY <1>1, <1>2, <1>3, <1>4 DEF TypeOK

\* Every step keeps the types.
LEMMA NextType == TypeOK /\ [Next]_vars => TypeOK'
<1> SUFFICES ASSUME TypeOK, [Next]_vars PROVE TypeOK'
  OBVIOUS
<1>1. CASE Owner
  <2>1. owner' \in OwnerStates /\ active' \in BOOLEAN /\ listener' \in ListenerStates
    BY <1>1 DEF TypeOK, OwnerStates, ListenerStates, Owner, BeginListener, JoinPipe, ExchangeActive,
                PrepareDisconnect, Join
  <2>2. UNCHANGED <<glove, late, queueVars, serviceVars>>
    BY <1>1 DEF Owner, BeginListener, JoinPipe, ExchangeActive, PrepareDisconnect, Join
  <2> QED
    BY <2>1, <2>2 DEF TypeOK, queueVars, serviceVars
<1>2. CASE Listener
  <2>1. CASE TestActive \/ SetCommMask \/ WaitCommEvent \/ ReadBlocks \/ ReceiveFails
    BY <2>1 DEF TypeOK, OwnerStates, ListenerStates, TestActive, SetCommMask, WaitCommEvent, ReadBlocks, ReceiveFails,
                Goto, ServiceOnly, queueVars, serviceVars
  <2>2. CASE NextByte
    <3>1. rx' \in Seq(Bytes)
      BY <2>2 DEF NextByte, TypeOK
    <3> QED
      BY <2>2, <3>1 DEF TypeOK, OwnerStates, ListenerStates, NextByte, ServiceOnly, queueVars
  <2>3. CASE Callback \/ RawWriteFails
    BY <2>3 DEF TypeOK, OwnerStates, ListenerStates, Callback, RawWriteFails, Goto,
                ServiceOnly, queueVars, serviceVars
  <2>7. CASE AppendNewline
    <3>1. raced' \in BOOLEAN
      BY <2>7 DEF AppendNewline
    <3>2. mark' \in Nat
      BY <2>7 DEF AppendNewline, TypeOK
    <3> QED
      BY <2>7, <3>1, <3>2 DEF TypeOK, ListenerStates, AppendNewline, Goto, serviceVars
  <2>4. CASE AppendNewlineDone
    <3>1. queue' \in Seq(Cells)
      BY <2>4, StoreAtFacts DEF TypeOK, AppendNewlineDone, Cells
    <3> QED
      BY <2>4, <3>1 DEF TypeOK, OwnerStates, ListenerStates, AppendNewlineDone, Goto, serviceVars
  <2>5. CASE RawWrite
    <3>1. \A k \in Nat : OutputsIn(queue, k) \subseteq Outputs
      BY DEF TypeOK, OwnerStates, ListenerStates, OutputsIn
    <3>2. glove' \subseteq Outputs
      BY <2>5, <3>1 DEF TypeOK, OwnerStates, ListenerStates, RawWrite, SentLengths
    <3> QED
      BY <2>5, <3>2 DEF TypeOK, OwnerStates, ListenerStates, RawWrite, Goto, serviceVars
  <2>6. CASE Clear
    BY <2>6 DEF TypeOK, OwnerStates, ListenerStates, Clear, Goto, serviceVars
  <2> QED
    BY <1>2, <2>1, <2>2, <2>3, <2>4, <2>5, <2>6, <2>7 DEF Listener
<1>3. CASE Environment
  <2>1. rx' \in Seq(Bytes)
    <3>1. ASSUME NEW b \in Bytes, GloveSends(b) PROVE rx' \in Seq(Bytes)
      BY <3>1 DEF GloveSends, TypeOK
    <3> QED
      BY <1>3, <3>1 DEF Environment, LinkFails, TypeOK
  <2> QED
    BY <1>3, <2>1 DEF TypeOK, OwnerStates, ListenerStates, Environment, LinkFails, GloveSends, queueVars
<1>4. ASSUME NEW w \in Writers, WriteOutput(w) PROVE TypeOK'
  BY <1>4 DEF TypeOK, OwnerStates, ListenerStates, WriteOutput, serviceVars
<1>5. ASSUME NEW w \in Writers, WriteOutputDone(w) PROVE TypeOK'
  <2>1. queue' \in Seq(Cells)
    BY <1>5, StoreAtFacts DEF WriteOutputDone, TypeOK, Cells, Outputs
  <2> QED
    BY <1>5, <2>1 DEF TypeOK, OwnerStates, ListenerStates, WriteOutputDone, serviceVars
<1>6. CASE UNCHANGED vars
  BY <1>6 DEF TypeOK, OwnerStates, ListenerStates, vars, queueVars, serviceVars
<1> QED
  BY <1>1, <1>2, <1>3, <1>4, <1>5, <1>6 DEF Next

\* Every variable keeps its type, for every constant.
THEOREM TypeCorrect == Spec => []TypeOK
<1>1. Init => TypeOK
  BY InitType
<1>2. TypeOK /\ [Next]_vars => TypeOK'
  BY NextType
<1> QED
  BY <1>1, <1>2, PTL DEF Spec

--------------------------------------------------------------------------------
(* The life of the threads: thread_active_, the join and the late callback.    *)

\* The flag is cleared by the owner only, which then waits for the listener.
LEMMA LifecycleStep ==
  ASSUME TypeOK, Lifecycle, [Next]_vars
  PROVE  Lifecycle'
<1>1. CASE Owner
  BY <1>1 DEF Owner, BeginListener, JoinPipe, ExchangeActive, PrepareDisconnect, Join,
              queueVars, Lifecycle, Blocked
<1>2. CASE Listener
  BY <1>2 DEF Listener, TestActive, SetCommMask, WaitCommEvent, NextByte, ReadBlocks,
              ReceiveFails, Callback, AppendNewline, AppendNewlineDone, RawWrite,
              RawWriteFails, Clear, Goto, ServiceOnly, queueVars, Lifecycle
<1>3. CASE Environment
  BY <1>3 DEF Environment, LinkFails, GloveSends, queueVars, Lifecycle
<1>4. ASSUME NEW w \in Writers, WriteOutput(w) PROVE Lifecycle'
  BY <1>4 DEF WriteOutput, Lifecycle, OwnerStates
<1>5. ASSUME NEW w \in Writers, WriteOutputDone(w) PROVE Lifecycle'
  BY <1>5 DEF WriteOutputDone, Lifecycle
<1>6. CASE UNCHANGED vars
  BY <1>6 DEF vars, Lifecycle
<1> QED
  BY <1>1, <1>2, <1>3, <1>4, <1>5, <1>6 DEF Next

\* After the flag is cleared the listener hands on the packet it is reading and no other.
LEMMA LateCallbacksStep ==
  ASSUME TypeOK, Lifecycle, LateCallbacks, [Next]_vars
  PROVE  LateCallbacks'
<1>1. CASE Owner
  BY <1>1 DEF Owner, BeginListener, JoinPipe, ExchangeActive, PrepareDisconnect, Join,
              Lifecycle, LateCallbacks
<1>2. CASE Listener
  BY <1>2 DEF Listener, TestActive, SetCommMask, WaitCommEvent, NextByte, ReadBlocks,
              ReceiveFails, Callback, AppendNewline, AppendNewlineDone, RawWrite,
              RawWriteFails, Clear, Goto, ServiceOnly, LateCallbacks
<1>3. CASE Environment \/ UNCHANGED vars
  BY <1>3 DEF Environment, LinkFails, GloveSends, vars, LateCallbacks
<1>4. ASSUME NEW w \in Writers, WriteOutput(w) \/ WriteOutputDone(w) PROVE LateCallbacks'
  BY <1>4 DEF WriteOutput, WriteOutputDone, LateCallbacks
<1> QED
  BY <1>1, <1>2, <1>3, <1>4 DEF Next

--------------------------------------------------------------------------------
(* The queue.                                                                  *)

\* A step that is none of the six that use the queue leaves it alone, and does
\* not take the listener into or out of its send-and-clear.
QuietStep ==
  /\ UNCHANGED <<queue, made, busy, held, mark, glove, raced>>
  /\ listener' \in {"append", "write", "clear"} => listener' = listener
  /\ listener = "clear" => listener' = "clear"

\* Six kinds of steps touch the queue.
LEMMA QueueSteps ==
  ASSUME TypeOK, Lifecycle, [Next]_vars
  PROVE  \/ AppendNewline \/ AppendNewlineDone \/ RawWrite \/ Clear
         \/ \E w \in Writers : WriteOutput(w) \/ WriteOutputDone(w)
         \/ QuietStep
<1>1. CASE Owner
  BY <1>1 DEF Owner, BeginListener, JoinPipe, ExchangeActive, PrepareDisconnect, Join,
              queueVars, Lifecycle, Blocked, QuietStep
<1>2. CASE Listener
  BY <1>2 DEF Listener, TestActive, SetCommMask, WaitCommEvent, NextByte, ReadBlocks,
              ReceiveFails, Callback, RawWriteFails, Goto, ServiceOnly, queueVars, QuietStep
<1>3. CASE Environment \/ UNCHANGED vars
  BY <1>3 DEF Environment, LinkFails, GloveSends, vars, queueVars, QuietStep
<1> QED
  BY <1>1, <1>2, <1>3 DEF Next

\* Storing an output leaves the others of the queue where they were.
LEMMA StoreAtOutputs ==
  ASSUME NEW q \in Seq(Cells), NEW k \in Nat, NEW cell \in Cells,
         NEW m \in 1..Len(StoreAt(q, k, cell)), StoreAt(q, k, cell)[m] \in Outputs
  PROVE  \/ m = k + 1 /\ StoreAt(q, k, cell)[m] = cell
         \/ m \in 1..Len(q) /\ m <= k /\ StoreAt(q, k, cell)[m] = q[m]
<1>1. /\ Len(StoreAt(q, k, cell)) = k + 1
      /\ StoreAt(q, k, cell)[k + 1] = cell
      /\ \A j \in 1..k : /\ j <= Len(q) => StoreAt(q, k, cell)[j] = q[j]
                         /\ j > Len(q) => StoreAt(q, k, cell)[j] = NUL
  BY StoreAtFacts
<1>2. m \in 1..(k + 1) /\ Len(q) \in Nat /\ StoreAt(q, k, cell)[m] # NUL
  BY <1>1, CellsAssumption
<1>3. CASE m = k + 1
  BY <1>1, <1>3
<1>4. CASE m \in 1..k
  BY <1>1, <1>2, <1>4
<1> QED
  BY <1>2, <1>3, <1>4

\* Appending, cutting and sending bring no output into the queue that its writer has not
\* made.
LEMMA NumberedStep ==
  ASSUME TypeOK, Lifecycle, Numbered, [Next]_vars
  PROVE  Numbered'
<1>1. CASE QuietStep
  BY <1>1 DEF QuietStep, Numbered, Reached, Finished
<1>2. CASE AppendNewline \/ Clear
  BY <1>2 DEF AppendNewline, Clear, Numbered, Reached, Finished
<1>3. CASE AppendNewlineDone
  <2>1. mark \in Nat /\ LF \in Cells /\ queue \in Seq(Cells)
    BY DEF TypeOK, Cells
  <2>2. /\ queue' = StoreAt(queue, mark, LF) /\ UNCHANGED <<made, busy, glove>>
    BY <1>3 DEF AppendNewlineDone
  <2>3. ASSUME NEW m \in 1..Len(queue'), queue'[m] \in Outputs
        PROVE  m \in 1..Len(queue) /\ queue'[m] = queue[m]
    BY <2>1, <2>2, <2>3, StoreAtOutputs, CellsAssumption
  <2> QED
    BY <2>2, <2>3 DEF Numbered, Reached, Finished
<1>4. CASE RawWrite
  <2>1. PICK k \in SentLengths(queue) : glove' = glove \cup OutputsIn(queue, k)
    BY <1>4 DEF RawWrite
  <2>2. UNCHANGED <<queue, made, busy>>
    BY <1>4 DEF RawWrite
  <2>3. \A o \in OutputsIn(queue, k) : Reached(o)
    <3>1. k \in 0..Len(queue) /\ Len(queue) \in Nat
      BY DEF SentLengths, TypeOK
    <3>2. \A j \in 1..k : j \in 1..Len(queue)
      BY <3>1
    <3>3. \A j \in 1..k : queue[j] \in Outputs => Reached(queue[j])
      BY <3>2 DEF Numbered
    <3>4. ASSUME NEW o \in OutputsIn(queue, k)
          PROVE  \E j \in 1..k : o = queue[j] /\ queue[j] \in Outputs
      BY DEF OutputsIn
    <3> HIDE DEF Reached
    <3> QED
      BY <3>3, <3>4
  <2> QED
    BY <2>1, <2>2, <2>3 DEF Numbered, Reached, Finished
<1>5. ASSUME NEW w \in Writers, WriteOutput(w) PROVE Numbered'
  <2>1. /\ queue' = queue /\ glove' = glove /\ busy' = busy \cup {w} /\ w \notin busy
        /\ made' = [made EXCEPT ![w] = @ + 1] /\ made \in [Writers -> Nat]
    BY <1>5 DEF WriteOutput, TypeOK
  <2>2. \A v \in Writers : Finished(v)' = Finished(v)
    BY <2>1 DEF Finished
  <2>3. \A o \in Outputs : Reached(o)' <=> Reached(o)
    BY <2>2 DEF Reached, Outputs
  <2>4. \A v \in busy' : made'[v] > 0
    BY <2>1 DEF Numbered, TypeOK
  <2>5. \A o \in Outputs : Reached(o) => o[2] \in Finished(o[1])'
    BY <2>3 DEF Reached
  <2> QED
    BY <2>1, <2>4, <2>5 DEF Numbered, TypeOK, Reached
<1>6. ASSUME NEW w \in Writers, WriteOutputDone(w) PROVE Numbered'
  <2>1. /\ queue' = StoreAt(queue, held[w], <<w, made[w]>>) /\ UNCHANGED <<made, glove>>
        /\ busy' = busy \ {w} /\ w \in busy
        /\ held[w] \in Nat /\ made \in [Writers -> Nat] /\ queue \in Seq(Cells)
    BY <1>6 DEF WriteOutputDone, TypeOK
  <2>2. <<w, made[w]>> \in Outputs /\ <<w, made[w]>> \in Cells
    BY <2>1 DEF Outputs, Cells
  <2>3. \A v \in busy' : made'[v] > 0
    BY <2>1 DEF Numbered
  <2>4. \A v \in Writers : Finished(v) \subseteq Finished(v)'
    BY <2>1 DEF Finished
  <2>5. made[w] \in Finished(w)'
    BY <2>1 DEF Finished, Numbered
  <2>6. \A o \in Outputs : Reached(o) \/ o = <<w, made[w]>> => o[2] \in Finished(o[1])'
    BY <2>4, <2>5 DEF Reached, Outputs
  <2>7. ASSUME NEW m \in 1..Len(queue'), queue'[m] \in Outputs
        PROVE  queue'[m] = <<w, made[w]>> \/ (m \in 1..Len(queue) /\ queue'[m] = queue[m])
    BY <2>1, <2>2, <2>7, StoreAtOutputs
  <2>8. \A m \in 1..Len(queue') :
           queue'[m] \in Outputs => Reached(queue'[m]) \/ queue'[m] = <<w, made[w]>>
    BY <2>7 DEF Numbered
  <2> QED
    BY <2>1, <2>3, <2>6, <2>8 DEF Numbered, Reached, TypeOK
<1> QED
  BY <1>1, <1>2, <1>3, <1>4, <1>5, <1>6, QueueSteps

\* Nor do they put one behind a newer one of its writer, or behind one the glove has.
LEMMA OrderedStep ==
  ASSUME TypeOK, Lifecycle, Numbered, Ordered, [Next]_vars
  PROVE  Ordered'
<1>1. CASE QuietStep
  BY <1>1 DEF QuietStep, Ordered
<1>2. CASE AppendNewline \/ Clear
  BY <1>2 DEF AppendNewline, Clear, Goto, Ordered
<1>3. CASE AppendNewlineDone
  <2>1. mark \in Nat /\ LF \in Cells /\ queue \in Seq(Cells)
    BY DEF TypeOK, Cells
  <2>2. queue' = StoreAt(queue, mark, LF) /\ glove' = glove /\ listener = "append"
    BY <1>3 DEF AppendNewlineDone, Goto
  <2>3. ASSUME NEW m \in 1..Len(queue'), queue'[m] \in Outputs
        PROVE  m \in 1..Len(queue) /\ queue'[m] = queue[m]
    BY <2>1, <2>2, <2>3, StoreAtOutputs, CellsAssumption
  <2>4. Len(queue') \in Nat
    BY <2>1, <2>2, StoreAtFacts
  <2>5. ASSUME NEW j \in 1..Len(queue'), NEW m \in 1..(j - 1),
               queue'[m] \in Outputs, queue'[j] \in Outputs, queue'[m][1] = queue'[j][1]
        PROVE  queue'[m][2] < queue'[j][2]
    <3>1. m \in 1..Len(queue')
      BY <2>4
    <3> QED
      BY <2>3, <2>5, <3>1 DEF Ordered
  <2>6. \A m \in 1..Len(queue') : queue'[m] \in Outputs =>
          \A o \in glove' : o[1] = queue'[m][1] => o[2] < queue'[m][2]
    BY <2>2, <2>3 DEF Ordered
  <2> QED
    BY <2>5, <2>6 DEF Ordered
<1>4. CASE RawWrite
  BY <1>4 DEF RawWrite, Goto, Ordered
<1>5. ASSUME NEW w \in Writers, WriteOutput(w) PROVE Ordered'
  BY <1>5 DEF WriteOutput, Ordered
<1>6. ASSUME NEW w \in Writers, WriteOutputDone(w) PROVE Ordered'
  <2> DEFINE out == <<w, made[w]>>
  <2>1. /\ queue' = StoreAt(queue, held[w], out) /\ glove' = glove /\ listener' = listener
        /\ held[w] \in Nat /\ made[w] \in Nat /\ queue \in Seq(Cells) /\ w \in busy
    BY <1>6 DEF WriteOutputDone, TypeOK
  <2>2. out \in Outputs /\ out \in Cells /\ out[1] = w /\ out[2] = made[w]
    BY <2>1 DEF Outputs, Cells
  <2>3. ASSUME NEW m \in 1..Len(queue'), queue'[m] \in Outputs
        PROVE  \/ m = held[w] + 1 /\ queue'[m] = out
               \/ m \in 1..Len(queue) /\ m <= held[w] /\ queue'[m] = queue[m]
    BY <2>1, <2>2, <2>3, StoreAtOutputs
  <2>4. Len(queue') \in Nat
    BY <2>1, <2>2, StoreAtFacts
  <2>5. \A o \in Outputs : Reached(o) /\ o[1] = w => o[2] < made[w]
    BY <2>1 DEF Reached, Finished
  <2> HIDE DEF out
  <2>6. ASSUME NEW j \in 1..Len(queue'), NEW m \in 1..(j - 1),
               queue'[m] \in Outputs, queue'[j] \in Outputs, queue'[m][1] = queue'[j][1]
        PROVE  queue'[m][2] < queue'[j][2]
    <3>1. m \in 1..Len(queue') /\ m < j
      BY <2>4
    <3>2. m \in 1..Len(queue) /\ queue'[m] = queue[m]
      BY <2>1, <2>3, <2>6, <3>1
    <3>3. CASE queue'[j] = out
      BY <2>2, <2>5, <2>6, <3>2, <3>3 DEF Numbered
    <3>4. CASE j \in 1..Len(queue) /\ queue'[j] = queue[j]
      BY <2>6, <3>2, <3>4 DEF Ordered
    <3> QED
      BY <2>3, <2>6, <3>3, <3>4
  <2>7. ASSUME listener' # "clear", NEW m \in 1..Len(queue'), queue'[m] \in Outputs,
               NEW o \in glove', o[1] = queue'[m][1]
        PROVE  o[2] < queue'[m][2]
    <3>1. o \in Outputs /\ Reached(o)
      BY <2>1 DEF Numbered, TypeOK
    <3>2. CASE queue'[m] = out
      BY <2>2, <2>5, <2>7, <3>1, <3>2
    <3>3. CASE m \in 1..Len(queue) /\ queue'[m] = queue[m]
      BY <2>1, <2>7, <3>3 DEF Ordered
    <3> QED
      BY <2>3, <2>7, <3>2, <3>3
  <2> QED
    BY <2>6, <2>7 DEF Ordered
<1> QED
  BY <1>1, <1>2, <1>3, <1>4, <1>5, <1>6, QueueSteps

--------------------------------------------------------------------------------
(* Loss.                                                                       *)

\* An append that knows the size adds one cell at the end.
LEMMA StoreAtEnd ==
  ASSUME NEW q \in Seq(Cells), NEW cell \in Cells
  PROVE  /\ Len(StoreAt(q, Len(q), cell)) = Len(q) + 1
         /\ StoreAt(q, Len(q), cell)[Len(q) + 1] = cell
         /\ \A m \in 1..Len(q) : StoreAt(q, Len(q), cell)[m] = q[m]
<1>1. Len(q) \in Nat
  OBVIOUS
<1>2. PICK k \in Nat : k = Len(q)
  BY <1>1
<1>3. /\ Len(StoreAt(q, k, cell)) = k + 1
      /\ StoreAt(q, k, cell)[k + 1] = cell
      /\ \A m \in 1..k : m <= Len(q) => StoreAt(q, k, cell)[m] = q[m]
  <2>1. /\ Len(StoreAt(q, k, cell)) = k + 1
        /\ StoreAt(q, k, cell)[k + 1] = cell
    BY StoreAtFacts
  <2>2. \A m \in 1..k : m <= Len(q) => StoreAt(q, k, cell)[m] = q[m]
    BY StoreAtFacts
  <2> QED
    BY <2>1, <2>2
<1> QED
  BY <1>2, <1>3

\* While no two appends meet, the size an append has read stays the string's.
LEMMA ExclusiveStep ==
  ASSUME TypeOK, Lifecycle, Exclusive, [Next]_vars
  PROVE  Exclusive'
<1> SUFFICES ASSUME ~raced'
             PROVE  /\ \A w \in busy' : held'[w] = Len(queue') /\ listener' \notin {"append", "clear"}
                    /\ \A v, w \in busy' : v = w
                    /\ listener' = "append" => mark' = Len(queue')
                    /\ \A m \in 1..Len(queue') : queue'[m] # NUL
                    /\ listener' = "clear" => Queued' \subseteq glove'
  BY DEF Exclusive
<1>1. CASE QuietStep
  BY <1>1 DEF QuietStep, Exclusive, Queued, OutputsIn
<1>2. CASE AppendNewline
  BY <1>2 DEF AppendNewline, Goto, Exclusive
<1>3. CASE AppendNewlineDone
  <2>1. /\ ~raced /\ busy = {} /\ mark = Len(queue) /\ listener' = "write" /\ busy' = busy
        /\ queue' = StoreAt(queue, Len(queue), LF)
    BY <1>3 DEF AppendNewlineDone, Goto, Exclusive
  <2>2. queue \in Seq(Cells) /\ Len(queue) \in Nat /\ LF \in Cells /\ LF # NUL
    BY CellsAssumption DEF TypeOK, Cells
  <2>3. \A m \in 1..Len(queue') : m \in 1..Len(queue) \/ m = Len(queue) + 1
    BY <2>1, <2>2, StoreAtEnd
  <2>4. \A m \in 1..Len(queue') : queue'[m] # NUL
    BY <2>1, <2>2, <2>3, StoreAtEnd DEF Exclusive
  <2> QED
    BY <2>1, <2>4
<1>4. CASE RawWrite
  <2>1. PICK k \in SentLengths(queue) : /\ glove' = glove \cup OutputsIn(queue, k)
                                     /\ raced' = (raced \/ busy # {} \/ ~Whole(queue, k))
    BY <1>4 DEF RawWrite
  <2>2. ~raced /\ busy = {} /\ Whole(queue, k)
    BY <2>1
  <2>3. k = Len(queue)
    BY <2>2 DEF Exclusive, Whole, SentLengths, TypeOK
  <2> QED
    BY <1>4, <2>1, <2>2, <2>3 DEF RawWrite, Goto, Exclusive, Queued
<1>5. CASE Clear
  <2>1. busy = {}
    BY <1>5 DEF Clear
  <2>2. busy' = {} /\ queue' = <<>> /\ listener' = "test"
    BY <1>5, <2>1 DEF Clear, Goto
  <2> QED
    BY <2>2
<1>6. ASSUME NEW w \in Writers, WriteOutput(w)
      PROVE  /\ busy = {} /\ ~raced /\ listener \notin {"append", "clear"}
             /\ busy' = {w} /\ held'[w] = Len(queue) /\ UNCHANGED <<queue, listener>>
  BY <1>6 DEF WriteOutput, TypeOK
<1>7. ASSUME NEW w \in Writers, WriteOutputDone(w)
      PROVE  /\ busy' = {} /\ listener' \notin {"append", "clear"}
             /\ \A m \in 1..Len(queue') : queue'[m] # NUL
  <2>1. /\ ~raced /\ busy' = {} /\ held[w] = Len(queue) /\ listener \notin {"append", "clear"}
        /\ queue' = StoreAt(queue, Len(queue), <<w, made[w]>>) /\ listener' = listener
    BY <1>7 DEF WriteOutputDone, Exclusive
  <2>2. /\ queue \in Seq(Cells) /\ Len(queue) \in Nat
        /\ <<w, made[w]>> \in Cells /\ <<w, made[w]>> # NUL
    BY CellsAssumption DEF TypeOK, Cells, Outputs
  <2>3. \A m \in 1..Len(queue') : m \in 1..Len(queue) \/ m = Len(queue) + 1
    BY <2>1, <2>2, StoreAtEnd
  <2>4. \A m \in 1..Len(queue') : queue'[m] # NUL
    BY <2>1, <2>2, <2>3, StoreAtEnd DEF Exclusive
  <2> QED
    BY <2>1, <2>4
<1> QED
  BY <1>1, <1>2, <1>3, <1>4, <1>5, <1>6, <1>7, QueueSteps DEF Exclusive

\* Then nothing is cut, and what is cleared has been sent.
LEMMA NoLossStep ==
  ASSUME TypeOK, Lifecycle, Exclusive, NoLossUnlessRaced, [Next]_vars
  PROVE  NoLossUnlessRaced'
<1> SUFFICES ASSUME ~raced', NEW v \in Writers, NEW n \in Finished(v)'
             PROVE  <<v, n>> \in glove' \cup Queued'
  BY DEF NoLossUnlessRaced
<1>1. CASE QuietStep
  BY <1>1 DEF QuietStep, NoLossUnlessRaced, Queued, OutputsIn, Finished
<1>2. CASE AppendNewline
  <2>1. ~raced
    BY <1>2 DEF AppendNewline
  <2> QED
    BY <1>2, <2>1 DEF AppendNewline, NoLossUnlessRaced, Queued, OutputsIn, Finished
<1>3. CASE AppendNewlineDone
  <2>1. /\ ~raced /\ UNCHANGED <<made, busy, glove>>
        /\ queue' = StoreAt(queue, Len(queue), LF)
        /\ queue \in Seq(Cells) /\ LF \in Cells
    BY <1>3 DEF AppendNewlineDone, Goto, Exclusive, TypeOK, Cells
  <2>2. Queued \subseteq Queued'
    BY <2>1, StoreAtEnd DEF Queued, OutputsIn
  <2> QED
    BY <2>1, <2>2 DEF NoLossUnlessRaced, Finished
<1>4. CASE RawWrite
  <2>1. ~raced /\ glove \subseteq glove' /\ UNCHANGED <<queue, made, busy>>
    BY <1>4 DEF RawWrite
  <2> QED
    BY <2>1 DEF NoLossUnlessRaced, Queued, OutputsIn, Finished
<1>5. CASE Clear
  <2>1. ~raced /\ UNCHANGED <<made, busy, glove>>
    BY <1>5 DEF Clear
  <2>2. Queued \subseteq glove
    BY <1>5, <2>1 DEF Clear, Goto, Exclusive
  <2> QED
    BY <2>1, <2>2 DEF NoLossUnlessRaced, Finished
<1>6. ASSUME NEW w \in Writers, WriteOutput(w) PROVE <<v, n>> \in glove' \cup Queued'
  <2>1. ~raced /\ UNCHANGED <<queue, glove>>
    BY <1>6 DEF WriteOutput
  <2>2. n \in Finished(v)
    BY <1>6 DEF WriteOutput, Finished, TypeOK
  <2> QED
    BY <2>1, <2>2 DEF NoLossUnlessRaced, Queued, OutputsIn
<1>7. ASSUME NEW w \in Writers, WriteOutputDone(w) PROVE <<v, n>> \in glove' \cup Queued'
  <2> DEFINE out == <<w, made[w]>>
  <2>1. /\ ~raced /\ UNCHANGED <<made, glove>> /\ busy' = busy \ {w}
        /\ held[w] = Len(queue) /\ queue \in Seq(Cells) /\ made \in [Writers -> Nat]
    BY <1>7 DEF WriteOutputDone, Exclusive, TypeOK
  <2>2. queue' = StoreAt(queue, Len(queue), out) /\ out \in Cells /\ out \in Outputs
    BY <1>7, <2>1 DEF WriteOutputDone, Cells, Outputs
  <2>3. n \in Finished(v) \/ <<v, n>> = out
    BY <2>1 DEF Finished
  <2> HIDE DEF out
  <2>4. /\ Len(queue') = Len(queue) + 1 /\ queue'[Len(queue) + 1] = out
        /\ \A m \in 1..Len(queue) : queue'[m] = queue[m]
        /\ Len(queue) \in Nat
    BY <2>1, <2>2, StoreAtEnd
  <2>5. /\ 1..Len(queue) \subseteq 1..Len(queue')
        /\ Len(queue) + 1 \in 1..Len(queue')
    BY <2>4
  <2>6. Queued \subseteq Queued' /\ out \in Queued'
    BY <2>2, <2>4, <2>5 DEF Queued, OutputsIn
  <2> QED
    BY <2>1, <2>3, <2>6 DEF NoLossUnlessRaced
<1> QED
  BY <1>1, <1>2, <1>3, <1>4, <1>5, <1>6, <1>7, QueueSteps

--------------------------------------------------------------------------------
(* The theorems.                                                               *)

\* All of it holds at first,
LEMMA InitInductive == Init => IInv
<1> SUFFICES ASSUME Init PROVE IInv
  OBVIOUS
<1>1. Lifecycle /\ LateCallbacks
  BY DEF Init, Lifecycle, LateCallbacks
<1>2. Numbered /\ Ordered /\ Exclusive
  BY DEF Init, Numbered, Ordered, Exclusive
<1>3. NoLossUnlessRaced
  BY DEF Init, NoLossUnlessRaced, Finished
<1> QED
  BY <1>1, <1>2, <1>3, InitType DEF IInv

\* every step keeps it,
LEMMA NextInductive == IInv /\ [Next]_vars => IInv'
BY NextType, LifecycleStep, LateCallbacksStep, NumberedStep, OrderedStep, ExclusiveStep,
   NoLossStep DEF IInv

\* and so it is invariant.
LEMMA Inductive == Spec => []IInv
<1>1. IInv /\ [Next]_vars => IInv'
  BY NextInductive
<1> QED
  BY <1>1, InitInductive, PTL DEF Spec

\* The glove is never told an output twice, and never an older output of a
\* writer after a newer one, however the unlocked appends interleave.
THEOREM OutputsFreshInOrder == Spec => []FreshInOrder
<1>1. IInv => FreshInOrder
  <2> SUFFICES ASSUME IInv, listener = "write", NEW k \in SentLengths(queue), NEW m \in 1..k,
                      queue[m] \in Outputs
               PROVE  /\ \A o \in glove : o[1] = queue[m][1] => o[2] < queue[m][2]
                      /\ \A j \in 1..(m - 1) :
                           queue[j] \in Outputs /\ queue[j][1] = queue[m][1]
                             => queue[j][2] < queue[m][2]
    BY DEF FreshInOrder
  <2>1. m \in 1..Len(queue)
    BY DEF SentLengths, IInv, TypeOK
  <2> QED
    BY <2>1 DEF IInv, Ordered
<1> QED
  BY <1>1, Inductive, PTL

\* An output is lost only to a race on queued_write_string or to a short write.
THEOREM LossNeedsARace == Spec => []NoLossUnlessRaced
<1>1. IInv => NoLossUnlessRaced
  BY DEF IInv
<1> QED
  BY <1>1, Inductive, PTL

\* A step of the thread is a step of the listener that DeviceListener describes.
LEMMA ListenerListens ==
  ASSUME IInv, Listener
  PROVE  [Listens!Next]_<<Thread, Stopping>>
<1> USE DEF IInv, TypeOK, Lifecycle, LateCallbacks, ListenerStates, OwnerStates, Goto, ServiceOnly,
            Thread, Stopping
<1>1. CASE NextByte
  BY <1>1 DEF NextByte, Listens!Next, Listens!Call, Listens!Move
<1>2. CASE Callback
  BY <1>2 DEF Callback, Listens!Next, Listens!Return, Listens!Move
<1>3. CASE TestActive \/ SetCommMask \/ ReceiveFails \/ RawWriteFails
  BY <1>3 DEF TestActive, SetCommMask, ReceiveFails, RawWriteFails, Listens!Next, Listens!End, Listens!Move
<1>4. CASE WaitCommEvent \/ ReadBlocks
  BY <1>4 DEF WaitCommEvent, ReadBlocks
<1>5. CASE AppendNewline \/ AppendNewlineDone \/ RawWrite \/ Clear
  BY <1>5 DEF AppendNewline, AppendNewlineDone, RawWrite, Clear
<1> QED
  BY <1>1, <1>2, <1>3, <1>4, <1>5 DEF Listener

\* The owner's steps are the steps of DeviceListener's owner, but the cancellation, which
\* can end a listener that waits.
LEMMA OwnerListens ==
  ASSUME IInv, Owner
  PROVE  [Listens!Next]_<<Thread, Stopping>>
<1> USE DEF IInv, TypeOK, Lifecycle, LateCallbacks, ListenerStates, OwnerStates, Thread, Stopping
<1>1. CASE BeginListener
  BY <1>1 DEF BeginListener, Listens!Next, Listens!Start, Listens!Move
<1>2. CASE JoinPipe
  BY <1>2 DEF JoinPipe
<1>3. CASE ExchangeActive
  BY <1>3 DEF ExchangeActive, Listens!Next, Listens!Stop
<1>4. CASE PrepareDisconnect
  BY <1>4 DEF PrepareDisconnect, Blocked, Listens!Next, Listens!End, Listens!Move
<1>5. CASE Join
  BY <1>5 DEF Join, Listens!Next, Listens!Join, Listens!Move
<1> QED
  BY <1>1, <1>2, <1>3, <1>4, <1>5 DEF Owner

\* To the driver the manager is a listener that makes one callback at most after it was
\* told to stop, and is deleted when it has returned.
THEOREM ListenerImplemented == Spec => ImplementsListener
<1>1. Init => Listens!Init
  BY DEF Init, Listens!Init, Thread, Stopping
<1>2. IInv /\ [Next]_vars => [Listens!Next]_<<Thread, Stopping>>
  <2> SUFFICES ASSUME IInv, [Next]_vars PROVE [Listens!Next]_<<Thread, Stopping>>
    OBVIOUS
  <2>1. CASE Environment \/ UNCHANGED vars
    BY <2>1 DEF Environment, LinkFails, GloveSends, vars, Thread, Stopping
  <2>2. ASSUME NEW w \in Writers, WriteOutput(w) \/ WriteOutputDone(w)
        PROVE  UNCHANGED <<Thread, Stopping>>
    BY <2>2 DEF WriteOutput, WriteOutputDone, Thread, Stopping
  <2> QED
    BY <2>1, <2>2, ListenerListens, OwnerListens DEF Next
<1> QED
  BY <1>1, <1>2, Inductive, PTL DEF Spec, ImplementsListener, Listens!Spec

\* The manager implements the lossy channel that neither repeats nor reorders.
THEOREM ChannelImplemented == Spec => ImplementsChannel
<1>1. Init => Channel!Init
  BY DEF Init, Channel!Init
<1>2. IInv /\ [Next]_vars => [Channel!Next]_<<made, glove>>
  <2> SUFFICES ASSUME IInv, [Next]_vars PROVE [Channel!Next]_<<made, glove>>
    OBVIOUS
  <2>1. CASE RawWrite
    <3>1. PICK k \in SentLengths(queue) : glove' = glove \cup OutputsIn(queue, k)
      BY <2>1 DEF RawWrite
    <3>2. ASSUME NEW o \in glove' \ glove
          PROVE  /\ o[1] \in Writers /\ o[2] \in 1..made[o[1]]
                 /\ \A p \in glove : p[1] = o[1] => p[2] < o[2]
      <4>1. PICK m \in 1..Len(queue) : queue[m] = o /\ o \in Outputs
        BY <3>1 DEF OutputsIn, SentLengths, IInv, TypeOK
      <4>2. Reached(o)
        BY <4>1 DEF IInv, Numbered
      <4>3. o[1] \in Writers /\ o[2] \in 1..made[o[1]]
        BY <4>1, <4>2 DEF Reached, Finished, Outputs, IInv, TypeOK
      <4> QED
        BY <2>1, <4>1, <4>3 DEF RawWrite, Goto, IInv, Ordered
    <3> QED
      BY <2>1, <3>1, <3>2 DEF RawWrite, Channel!Next, Channel!Deliver
  <2>2. ASSUME NEW w \in Writers, WriteOutput(w) PROVE Channel!Next
    BY <2>2 DEF WriteOutput, Channel!Next, Channel!Write
  <2>3. CASE UNCHANGED <<made, glove>>
    BY <2>3
  <2> QED
    BY <2>1, <2>2, <2>3, QueueSteps
    DEF IInv, QuietStep, AppendNewline, AppendNewlineDone, Clear, WriteOutputDone
<1> QED
  BY <1>1, <1>2, Inductive, PTL DEF Spec, ImplementsChannel, Channel!Spec

--------------------------------------------------------------------------------
\* Every set of naturals has a least element.
LEMMA LeastElement ==
  ASSUME NEW S \in SUBSET Nat, S # {}
  PROVE  \E n \in S : \A k \in S : n <= k
<1>1. PICK n \in S : \A k \in S : <<k, n>> \notin OpToRel(<, Nat)
  BY NatLessThanWellFounded, WFMin
<1>2. \A k \in S : ~(k < n)
  BY <1>1 DEF OpToRel
<1> QED
  BY <1>2

\* What holds at 0 and is kept by a step up to N holds from 0 to N.
LEMMA UpTo ==
  ASSUME NEW N \in Nat, NEW S, 0 \in S, \A n \in 0 .. N - 1 : n \in S => n + 1 \in S
  PROVE  0 .. N \subseteq S
<1> SUFFICES ASSUME ~(0 .. N \subseteq S) PROVE FALSE
  OBVIOUS
<1> DEFINE R == (0 .. N) \ S
<1>1. R \in SUBSET Nat /\ R # {}
  OBVIOUS
<1>2. PICK n \in R : \A k \in R : n <= k
  BY <1>1, LeastElement
<1>3. n # 0 /\ n - 1 \in 0 .. N - 1
  OBVIOUS
<1>4. n - 1 \in S
  BY <1>2, <1>3
<1> QED
  BY <1>3, <1>4

\* f starts with first, and each value is a step from the one before.
Unfolds(f, N, first, step) == f[0] = first /\ \A n \in 1 .. N : f[n] = step[<<n, f[n - 1]>>]

\* A recursive function over 0 .. N, of values in S, exists.
LEMMA RecursiveFunction ==
  ASSUME NEW N \in Nat, NEW S, NEW first \in S, NEW step \in [(1 .. N) \X S -> S]
  PROVE  \E f \in [0 .. N -> S] : Unfolds(f, N, first, step)
<1> DEFINE T == {m \in 0 .. N : \E f \in [0 .. m -> S] : Unfolds(f, m, first, step)}
<1>1. 0 \in T
  <2> DEFINE f == [n \in 0 .. 0 |-> first]
  <2>1. f \in [0 .. 0 -> S] /\ f[0] = first
    OBVIOUS
  <2>2. Unfolds(f, 0, first, step)
    BY <2>1 DEF Unfolds
  <2> HIDE DEF f
  <2> QED
    BY <2>1, <2>2
<1>2. ASSUME NEW m \in 0 .. N - 1, m \in T PROVE m + 1 \in T
  <2>1. PICK f \in [0 .. m -> S] : Unfolds(f, m, first, step)
    BY <1>2
  <2> DEFINE g == [n \in 0 .. m + 1 |-> IF n = m + 1 THEN step[<<m + 1, f[m]>>] ELSE f[n]]
  <2>2. step[<<m + 1, f[m]>>] \in S /\ m + 1 \in 0 .. N
    <3>1. <<m + 1, f[m]>> \in (1 .. N) \X S
      OBVIOUS
    <3> QED
      BY <3>1
  <2>3. g \in [0 .. m + 1 -> S]
    BY <2>2
  <2>4. g[0] = first
    BY <2>1 DEF Unfolds
  <2>5. ASSUME NEW n \in 1 .. m + 1 PROVE g[n] = step[<<n, g[n - 1]>>]
    <3>1. g[n - 1] = f[n - 1]
      OBVIOUS
    <3>2. CASE n = m + 1
      <4>1. g[n] = step[<<m + 1, f[m]>>]
        BY <3>2
      <4>2. f[n - 1] = f[m]
        BY <3>2
      <4> QED
        BY <3>1, <3>2, <4>1, <4>2
    <3>3. CASE n \in 1 .. m
      <4>1. g[n] = f[n]
        BY <3>3
      <4> QED
        BY <2>1, <3>1, <3>3, <4>1 DEF Unfolds
    <3> QED
      BY <3>2, <3>3
  <2>6. Unfolds(g, m + 1, first, step)
    BY <2>4, <2>5 DEF Unfolds
  <2> HIDE DEF g
  <2> QED
    BY <2>2, <2>3, <2>6
<1> HIDE DEF T
<1>3. N \in T
  BY <1>1, <1>2, UpTo
<1> QED
  BY <1>3 DEF T

\* A member that no other exceeds is the maximum.
LEMMA MaxIs ==
  ASSUME NEW S \in SUBSET Int, NEW m \in S, \A k \in S : k <= m
  PROVE  Max(S) = m
<1>1. \A k \in S : m >= k
  OBVIOUS
<1>2. ASSUME NEW x \in S, \A k \in S : x >= k PROVE x = m
  BY <1>2
<1> QED
  BY <1>1, <1>2 DEF Max

--------------------------------------------------------------------------------
(* The decoder's loop against the grammar of a packet.                         *)

\* A run of characters in C ends at the first that is not, or at the end of the packet.
LEMMA RunEndIs ==
  ASSUME NEW b \in Seq(STRING), NEW p \in 1 .. Len(b) + 1, NEW C
  PROVE  /\ RunEnd(b, p, C) \in p .. Len(b) + 1
         /\ \A q \in p .. RunEnd(b, p, C) - 1 : b[q] \in C
         /\ RunEnd(b, p, C) <= Len(b) => b[RunEnd(b, p, C)] \notin C
<1> DEFINE S == {q \in p .. Len(b) : b[q] \notin C} \cup {Len(b) + 1}
<1>1. S \in SUBSET Nat /\ S # {} /\ Len(b) \in Nat /\ S \subseteq p .. Len(b) + 1
  OBVIOUS
<1>2. PICK m \in S : \A k \in S : m <= k
  BY <1>1, LeastElement
<1>3. ASSUME NEW x \in S, \A k \in S : x =< k PROVE x = m
  <2>1. x <= m /\ m <= x /\ x \in Int /\ m \in Int
    BY <1>1, <1>2, <1>3
  <2> QED
    BY <2>1
<1>4. Min(S) = m
  BY <1>2, <1>3 DEF Min
<1>5. RunEnd(b, p, C) = m
  BY <1>4 DEF RunEnd
<1>6. \A q \in p .. m - 1 : b[q] \in C
  <2> SUFFICES ASSUME NEW q \in p .. m - 1, b[q] \notin C PROVE FALSE
    OBVIOUS
  <2>1. q \in S /\ q < m
    BY <1>1, <1>2
  <2> QED
    BY <1>1, <1>2, <2>1
<1> QED
  BY <1>1, <1>2, <1>5, <1>6

\* The digits are the ten digits; no key starts with one; a parenthesis starts one.
LEMMA Characters ==
  /\ Digits = {"0", "1", "2", "3", "4", "5", "6", "7", "8", "9"}
  /\ Digits \cap KeyCharacters = {}
  /\ "(" \in KeyCharacters
<1>1. Digits = {"0", "1", "2", "3", "4", "5", "6", "7", "8", "9"}
  <2>1. DOMAIN DigitsInOrder = {1, 2, 3, 4, 5, 6, 7, 8, 9, 10}
    BY DEF DigitsInOrder
  <2>2. Digits = {DigitsInOrder[n] : n \in {1, 2, 3, 4, 5, 6, 7, 8, 9, 10}}
    BY <2>1 DEF Digits, ToSet
  <2>3. /\ DigitsInOrder[1] = "0" /\ DigitsInOrder[2] = "1" /\ DigitsInOrder[3] = "2" /\ DigitsInOrder[4] = "3"
        /\ DigitsInOrder[5] = "4" /\ DigitsInOrder[6] = "5" /\ DigitsInOrder[7] = "6" /\ DigitsInOrder[8] = "7"
        /\ DigitsInOrder[9] = "8" /\ DigitsInOrder[10] = "9"
    BY DEF DigitsInOrder
  <2> QED
    BY <2>2, <2>3
<1>2. \A c \in Digits : c \notin KeyCharacters
  BY <1>1 DEF KeyCharacters, Letters
<1> QED
  BY <1>1, <1>2 DEF KeyCharacters

\* No parenthesis before p reaches over p.
Unreached(b, p) == \A q \in 1 .. p - 1 : ~Reaches(b, q, p)

\* Where the loop's index is clear and at a key character, an item of the grammar starts, with
\* the key and the value that the loop cuts out; none starts before the loop's next index, and
\* that is clear again.
LEMMA ItemIs ==
  ASSUME NEW b \in Seq(STRING), NEW p \in 1 .. Len(b), b[p] \in KeyCharacters, Unreached(b, p)
  PROVE  LET end  == KeyEnd(b, p)
             next == RunEnd(b, end, Digits)
         IN /\ end \in p + 1 .. Len(b) + 1 /\ next \in end .. Len(b) + 1
            /\ p \in ItemStarts(b) /\ ItemStarts(b) \cap (p + 1 .. next - 1) = {}
            /\ KeyAt(b, p) = SubSeq(b, p, end - 1) /\ ValueAt(b, p) = SubSeq(b, end, next - 1)
            /\ ValueAt(b, p) \in Seq(Digits)
            /\ next <= Len(b) => Unreached(b, next)
<1> DEFINE end  == KeyEnd(b, p)
           next == RunEnd(b, end, Digits)
<1>0. Len(b) \in Nat /\ p \in Nat /\ 1 <= p /\ p <= Len(b)
  OBVIOUS
<1>1. /\ end \in p + 1 .. Len(b) + 1
      /\ b[p] = "(" => /\ \A q \in p .. end - 1 : b[q] \in KeyCharacters
                       /\ end <= Len(b) => b[end] \notin KeyCharacters
      /\ b[p] # "(" => end = p + 1
  <2>1. CASE b[p] = "("
    <3>1. end = RunEnd(b, p, KeyCharacters)
      BY <2>1 DEF KeyEnd
    <3>2. /\ end \in p .. Len(b) + 1 /\ \A q \in p .. end - 1 : b[q] \in KeyCharacters
          /\ end <= Len(b) => b[end] \notin KeyCharacters
      BY <3>1, RunEndIs
    <3> QED
      BY <2>1, <3>2
  <2>2. CASE b[p] # "("
    BY <1>0, <2>2 DEF KeyEnd
  <2> QED
    BY <2>1, <2>2
<1>2. /\ next \in end .. Len(b) + 1 /\ \A q \in end .. next - 1 : b[q] \in Digits
      /\ next <= Len(b) => b[next] \notin Digits
  <2>1. end \in 1 .. Len(b) + 1
    BY <1>0, <1>1
  <2> HIDE DEF end
  <2> QED
    BY <2>1, RunEndIs
<1> HIDE DEF end, next
<1>3. p \in ItemStarts(b)
  BY DEF ItemStarts, Unreached
<1>4. ASSUME NEW q \in p + 1 .. next - 1 PROVE q \notin ItemStarts(b)
  <2>1. CASE q < end
    <3>1. b[p] = "("
      BY <1>0, <1>1, <2>1
    <3>2. \A r \in p .. q : b[r] \in KeyCharacters
      BY <1>0, <1>1, <2>1, <3>1
    <3>3. Reaches(b, p, q) /\ p \in 1 .. q - 1
      BY <1>0, <3>1, <3>2 DEF Reaches
    <3> QED
      BY <3>3 DEF ItemStarts
  <2>2. CASE q >= end
    <3>1. b[q] \in Digits
      BY <1>0, <1>1, <1>2, <2>2
    <3> QED
      BY <3>1, Characters DEF ItemStarts
  <2> QED
    BY <1>0, <1>1, <1>2, <2>1, <2>2
<1>5. KeyAt(b, p) = SubSeq(b, p, end - 1)
  <2> DEFINE S == {q \in p .. Len(b) : q = p \/ Reaches(b, p, q)}
  <2>1. end - 1 \in S
    <3>1. CASE b[p] = "("
      BY <1>0, <1>1, <3>1 DEF Reaches
    <3>2. CASE b[p] # "("
      BY <1>0, <1>1, <3>2
    <3> QED
      BY <3>1, <3>2
  <2>2. ASSUME NEW q \in S PROVE q <= end - 1
    <3> SUFFICES ASSUME q >= end PROVE FALSE
      BY <1>0, <1>1
    <3>1. Reaches(b, p, q) /\ q \in p .. Len(b)
      BY <1>0, <1>1
    <3>2. b[p] = "(" /\ end \in p .. q /\ end <= Len(b)
      BY <1>0, <1>1, <3>1 DEF Reaches
    <3>3. b[end] \in KeyCharacters
      BY <3>1, <3>2 DEF Reaches
    <3> QED
      BY <1>1, <3>2, <3>3
  <2>3. S \in SUBSET Int
    BY <1>0
  <2> HIDE DEF S
  <2>4. Max(S) = end - 1
    BY <2>1, <2>2, <2>3, MaxIs
  <2> QED
    BY <2>4 DEF KeyAt, S
<1>6. ValueAt(b, p) = SubSeq(b, end, next - 1)
  <2>1. Len(KeyAt(b, p)) = end - p
    BY <1>0, <1>1, <1>5
  <2>2. p + Len(KeyAt(b, p)) = end
    BY <1>0, <1>1, <2>1
  <2> DEFINE S == {end - 1} \cup {q \in end .. Len(b) : \A r \in end .. q : b[r] \in Digits}
  <2>3. next - 1 \in S
    BY <1>0, <1>1, <1>2
  <2>4. ASSUME NEW q \in S PROVE q <= next - 1
    <3> SUFFICES ASSUME q >= next PROVE FALSE
      BY <1>0, <1>1, <1>2
    <3>1. q \in end .. Len(b) /\ next \in end .. q /\ next <= Len(b)
      BY <1>0, <1>1, <1>2
    <3>2. b[next] \in Digits
      BY <1>0, <1>1, <1>2, <3>1
    <3> QED
      BY <1>2, <3>1, <3>2
  <2>5. S \in SUBSET Int
    BY <1>0, <1>1
  <2> HIDE DEF S
  <2>6. Max(S) = next - 1
    BY <2>3, <2>4, <2>5, MaxIs
  <2> QED
    BY <2>2, <2>6 DEF ValueAt, S
<1>7. ValueAt(b, p) \in Seq(Digits)
  <2> DEFINE s == SubSeq(b, end, next - 1)
  <2>1. s \in Seq(STRING) /\ Len(s) = next - end /\ next - end \in Nat
    BY <1>0, <1>1, <1>2
  <2>2. \A n \in 1 .. next - end : s[n] = b[end + n - 1]
    BY <1>0, <1>1, <1>2
  <2>3. \A n \in 1 .. next - end : s[n] \in Digits
    BY <1>0, <1>1, <1>2, <2>2
  <2> HIDE DEF s
  <2>4. s \in [1 .. next - end -> Digits]
    BY <2>1, <2>3
  <2>5. s \in Seq(Digits)
    BY <2>1, <2>4
  <2> QED
    BY <1>6, <2>5 DEF s
<1>8. ASSUME next <= Len(b), NEW q \in 1 .. next - 1, Reaches(b, q, next) PROVE FALSE
  <2>1. \A r \in q .. next : b[r] \in KeyCharacters
    BY <1>8 DEF Reaches
  <2>2. CASE next > end
    <3>1. b[next - 1] \in Digits /\ next - 1 \in q .. next
      BY <1>0, <1>1, <1>2, <2>2
    <3> QED
      BY <2>1, <3>1, Characters
  <2>3. CASE next = end /\ b[p] = "("
    <3>1. b[end] \notin KeyCharacters
      BY <1>1, <1>8, <2>3
    <3> QED
      BY <1>0, <1>1, <2>1, <2>3, <3>1
  <2>4. CASE next = end /\ b[p] # "("
    <3>1. next = p + 1
      BY <1>1, <2>4
    <3>2. q # p
      BY <1>8, <2>4 DEF Reaches
    <3>3. q \in 1 .. p - 1 /\ Reaches(b, q, p)
      BY <1>0, <1>8, <2>1, <3>1, <3>2 DEF Reaches
    <3> QED
      BY <3>3 DEF Unreached
  <2> QED
    BY <1>0, <1>1, <1>2, <2>2, <2>3, <2>4
<1> QED
  BY <1>1, <1>2, <1>3, <1>4, <1>5, <1>6, <1>7, <1>8 DEF Unreached, end, next

--------------------------------------------------------------------------------
(* The numbers of a packet.                                                    *)

\* A digit is a number up to 9, and only "0" is 0.
LEMMA DigitIs == \A c \in Digits : Digit(c) \in 0 .. 9 /\ (Digit(c) = 0 => c = "0")
<1> SUFFICES ASSUME NEW c \in Digits PROVE Digit(c) \in 0 .. 9 /\ (Digit(c) = 0 => c = "0")
  OBVIOUS
<1>1. DOMAIN DigitsInOrder = 1 .. 10 /\ DigitsInOrder[1] = "0"
  BY DEF DigitsInOrder
<1>2. PICK n \in 1 .. 10 : DigitsInOrder[n] = c
  BY <1>1 DEF Digits, ToSet
<1>3. n - 1 \in 0 .. 9 /\ DigitsInOrder[(n - 1) + 1] = c
  BY <1>2
<1>4. Digit(c) \in 0 .. 9 /\ DigitsInOrder[Digit(c) + 1] = c
  BY <1>3 DEF Digit
<1> QED
  BY <1>1, <1>4

\* The partial numbers of a value are naturals, each ten times the one before plus a digit.
LEMMA NumbersAre ==
  ASSUME NEW v \in Seq(Digits)
  PROVE  /\ Numbers(v) \in [0 .. Len(v) -> Nat] /\ Numbers(v)[0] = 0
         /\ \A n \in 1 .. Len(v) : Numbers(v)[n] = 10 * Numbers(v)[n - 1] + Digit(v[n])
<1> DEFINE step == [p \in (1 .. Len(v)) \X Nat |-> 10 * p[2] + Digit(v[p[1]])]
           Is(f) == f = [n \in 0 .. Len(v) |-> IF n = 0 THEN 0 ELSE 10 * f[n - 1] + Digit(v[n])]
<1>1. Len(v) \in Nat
  OBVIOUS
<1>2. step \in [(1 .. Len(v)) \X Nat -> Nat]
  <2> SUFFICES ASSUME NEW n \in 1 .. Len(v), NEW m \in Nat PROVE 10 * m + Digit(v[n]) \in Nat
    OBVIOUS
  <2>1. v[n] \in Digits
    OBVIOUS
  <2>2. Digit(v[n]) \in 0 .. 9
    BY <2>1, DigitIs
  <2> QED
    BY <2>2
<1>3. PICK f \in [0 .. Len(v) -> Nat] : Unfolds(f, Len(v), 0, step)
  <2> HIDE DEF step
  <2> QED
    BY <1>1, <1>2, RecursiveFunction
<1>4. ASSUME NEW n \in 1 .. Len(v) PROVE f[n] = 10 * f[n - 1] + Digit(v[n])
  <2>1. n - 1 \in 0 .. Len(v) /\ f[n - 1] \in Nat
    OBVIOUS
  <2>2. <<n, f[n - 1]>> \in (1 .. Len(v)) \X Nat
    BY <2>1
  <2> QED
    BY <1>3, <2>2 DEF Unfolds
<1>5. Is(f)
  BY <1>3, <1>4 DEF Unfolds
<1>6. Numbers(v) = CHOOSE g : Is(g)
  BY DEF Numbers
<1>7. Is(Numbers(v))
  <2> HIDE DEF Is
  <2> QED
    BY <1>5, <1>6
<1> DEFINE g == Numbers(v)
<1>8. g[0] = 0 /\ \A n \in 1 .. Len(v) : g[n] = 10 * g[n - 1] + Digit(v[n])
  BY <1>1, <1>7
<1> DEFINE S == {n \in 0 .. Len(v) : g[n] \in Nat}
<1>9. 0 .. Len(v) \subseteq S
  <2>1. ASSUME NEW n \in 0 .. Len(v) - 1, n \in S PROVE n + 1 \in S
    <3>1. n + 1 \in 1 .. Len(v) /\ n + 1 \in 0 .. Len(v) /\ (n + 1) - 1 = n
      BY <1>1
    <3>2. v[n + 1] \in Digits
      BY <3>1
    <3>3. PICK d \in Nat : d = Digit(v[n + 1])
      BY <3>2, DigitIs
    <3>4. PICK k \in Nat : k = g[n]
      BY <2>1
    <3> HIDE DEF g
    <3>5. g[n + 1] = 10 * k + d
      BY <1>8, <3>1, <3>3, <3>4
    <3>6. 10 * k + d \in Nat
      OBVIOUS
    <3> QED
      BY <3>1, <3>5, <3>6
  <2>2. 0 \in S
    BY <1>1, <1>8
  <2> HIDE DEF S
  <2> QED
    BY <1>1, <2>1, <2>2, UpTo
<1> QED
  BY <1>7, <1>8, <1>9

\* Only zeros stand for zero.
LEMMA ZeroIs ==
  ASSUME NEW v \in Seq(Digits), v # <<>>, Number(v) = 0
  PROVE  ToSet(v) = {"0"}
<1> DEFINE g == Numbers(v)
           N == Len(v)
           S == {n \in 0 .. N : g[N - n] = 0}
<1>1. N \in Nat /\ N > 0
  OBVIOUS
<1>2. g \in [0 .. N -> Nat] /\ \A n \in 1 .. N : g[n] = 10 * g[n - 1] + Digit(v[n])
  BY NumbersAre
<1>3. \A n \in 1 .. N : v[n] \in Digits /\ Digit(v[n]) \in 0 .. 9 /\ (Digit(v[n]) = 0 => v[n] = "0")
  BY DigitIs
<1> HIDE DEF g
<1>4. 0 .. N \subseteq S
  <2>1. 0 \in S
    BY <1>1 DEF Number, g
  <2>2. ASSUME NEW n \in 0 .. N - 1, n \in S PROVE n + 1 \in S
    <3>1. PICK k \in 1 .. N : k = N - n /\ k - 1 = N - (n + 1) /\ n + 1 \in 0 .. N
      BY <1>1, <2>2
    <3>0. k - 1 \in 0 .. N /\ N - n = k
      BY <1>1, <3>1
    <3>2. g[k] = 0 /\ g[k] = 10 * g[k - 1] + Digit(v[k]) /\ g[k - 1] \in Nat /\ Digit(v[k]) \in 0 .. 9
      BY <1>1, <1>2, <1>3, <2>2, <3>0
    <3>3. g[k - 1] = 0
      <4>1. PICK a \in Nat : a = g[k - 1]
        BY <3>2
      <4>2. PICK d \in 0 .. 9 : d = Digit(v[k])
        BY <3>2
      <4>3. 0 = 10 * a + d
        BY <3>2, <4>1, <4>2
      <4>4. a = 0
        BY <4>3
      <4> QED
        BY <4>1, <4>4
    <3> QED
      BY <3>1, <3>3
  <2> HIDE DEF S
  <2> QED
    BY <1>1, <2>1, <2>2, UpTo
<1>5. ASSUME NEW n \in 1 .. N PROVE v[n] = "0"
  <2>1. PICK k \in 0 .. N : k = N - n /\ N - k = n
    BY <1>1
  <2>2. g[n] = 0
    BY <1>4, <2>1
  <2>3. g[n] = 10 * g[n - 1] + Digit(v[n]) /\ g[n - 1] \in Nat /\ Digit(v[n]) \in 0 .. 9
    BY <1>1, <1>2, <1>3
  <2>4. Digit(v[n]) = 0
    <3>1. PICK a \in Nat : a = g[n - 1]
      BY <2>3
    <3>2. PICK d \in 0 .. 9 : d = Digit(v[n])
      BY <2>3
    <3>3. 0 = 10 * a + d
      BY <2>2, <2>3, <3>1, <3>2
    <3>4. d = 0
      BY <3>3
    <3> QED
      BY <3>2, <3>4
  <2> QED
    BY <1>3, <2>4
<1> QED
  BY <1>1, <1>5 DEF ToSet

--------------------------------------------------------------------------------
(* The inductive invariant.                                                    *)

Before(b, n)       == {p \in ItemStarts(b) : p < n}
LastOf(b, n, k, p) == /\ p \in Before(b, n) /\ KeyAt(b, p) = k
                      /\ \A q \in Before(b, n) : KeyAt(b, q) = k => q <= p

\* The map m has the known keys of the items that start before n, each with the value of the
\* last of them.
Matches(m, b, n) ==
  /\ DOMAIN m = {KeyAt(b, p) : p \in Before(b, n)} \cap KnownKeys
  /\ \A k \in DOMAIN m : \E p \in 1 .. Len(b) :
       LastOf(b, n, k, p) /\ m[k] = ValueAt(b, p) /\ m[k] \in Seq(Digits)

\* The loop's index is never inside an item, and what precedes it is in the map.
Parsed ==
  /\ buff \in Seq(STRING) /\ stream \in Seq(Seq(STRING))
  /\ i \in 1 .. Len(buff) + 1 /\ (input.type # "None" => i = Len(buff) + 1)
  /\ i <= Len(buff) => Unreached(buff, i)
  /\ Matches(input_map, buff, i)

\* A packet of inputs was rejected by one of the two tests.
Rejected ==
  input = Invalid /\ ~Has(input_map, InfoKey)
    => Throws(input_map, NumberKeys) \/ Peripheral(input_map) = EmptyPeripheral

--------------------------------------------------------------------------------
(* The turns of the loop.                                                      *)

\* The empty map is right before the first character.
LEMMA NothingParsed == \A b : Matches(<<>>, b, 1)
<1> SUFFICES ASSUME NEW b PROVE Matches(<<>>, b, 1)
  OBVIOUS
<1>1. Before(b, 1) = {}
  <2>1. \A p \in 1 .. Len(b) : ~(p < 1)
    OBVIOUS
  <2> QED
    BY <2>1 DEF Before, ItemStarts
<1>2. DOMAIN <<>> = {}
  OBVIOUS
<1> QED
  BY <1>1, <1>2 DEF Matches

\* A character that starts no key is skipped: no item starts there.
LEMMA JunkParsed ==
  ASSUME NEW b \in Seq(STRING), NEW n \in 1 .. Len(b), b[n] \notin KeyCharacters, NEW m, Matches(m, b, n)
  PROVE  /\ Matches(m, b, n + 1)
         /\ n + 1 <= Len(b) => Unreached(b, n + 1)
<1>1. n \in Nat /\ Len(b) \in Nat /\ \A p \in ItemStarts(b) : p \in 1 .. Len(b) /\ p # n
  BY DEF ItemStarts
<1>2. Before(b, n + 1) = Before(b, n)
  BY <1>1 DEF Before
<1>3. ASSUME NEW q \in 1 .. n, Reaches(b, q, n + 1) PROVE FALSE
  <2>1. n \in q .. n + 1
    BY <1>1
  <2> QED
    BY <1>3, <2>1 DEF Reaches
<1> QED
  BY <1>1, <1>2, <1>3 DEF Matches, LastOf, Unreached

\* An item at the loop's index is the last of its key so far, and its value the map's.
LEMMA ItemParsed ==
  ASSUME NEW b \in Seq(STRING), NEW n \in 1 .. Len(b), b[n] \in KeyCharacters, Unreached(b, n),
         NEW m, Matches(m, b, n)
  PROVE  LET end  == KeyEnd(b, n)
             next == RunEnd(b, end, Digits)
         IN /\ next \in 1 .. Len(b) + 1
            /\ next <= Len(b) => Unreached(b, next)
            /\ Matches(InsertOrAssign(m, SubSeq(b, n, end - 1), SubSeq(b, end, next - 1)), b, next)
<1> DEFINE end   == KeyEnd(b, n)
           next  == RunEnd(b, end, Digits)
           key   == SubSeq(b, n, end - 1)
           value == SubSeq(b, end, next - 1)
           M     == InsertOrAssign(m, key, value)
<1>0. n \in Nat /\ 1 <= n /\ n <= Len(b) /\ Len(b) \in Nat
  OBVIOUS
<1>1. /\ next \in n + 1 .. Len(b) + 1 /\ (next <= Len(b) => Unreached(b, next))
      /\ n \in ItemStarts(b) /\ ItemStarts(b) \cap (n + 1 .. next - 1) = {}
      /\ KeyAt(b, n) = key /\ ValueAt(b, n) = value /\ value \in Seq(Digits)
  <2>1. /\ end \in n + 1 .. Len(b) + 1 /\ next \in end .. Len(b) + 1 /\ (next <= Len(b) => Unreached(b, next))
        /\ n \in ItemStarts(b) /\ ItemStarts(b) \cap (n + 1 .. next - 1) = {}
        /\ KeyAt(b, n) = key /\ ValueAt(b, n) = value /\ value \in Seq(Digits)
    BY ItemIs
  <2> HIDE DEF end, next, key, value
  <2> QED
    BY <1>0, <2>1
<1> HIDE DEF end, next, key, value
<1>2. Before(b, next) = Before(b, n) \cup {n}
  <2>1. \A p \in ItemStarts(b) : p \in 1 .. Len(b) /\ p \notin n + 1 .. next - 1
    BY <1>1 DEF ItemStarts
  <2>2. \A p \in ItemStarts(b) : p < next <=> p < n \/ p = n
    BY <1>0, <1>1, <2>1
  <2> QED
    BY <1>1, <2>2 DEF Before
<1>3. DOMAIN M = {KeyAt(b, p) : p \in Before(b, next)} \cap KnownKeys
  <2>1. {KeyAt(b, p) : p \in Before(b, next)} = {KeyAt(b, p) : p \in Before(b, n)} \cup {key}
    BY <1>1, <1>2
  <2>2. CASE key \in KnownKeys
    <3>1. DOMAIN M = DOMAIN m \cup {key}
      BY <2>2 DEF InsertOrAssign
    <3> QED
      BY <2>1, <2>2, <3>1 DEF Matches
  <2>3. CASE key \notin KnownKeys
    <3>1. M = m
      BY <2>3 DEF InsertOrAssign
    <3> QED
      BY <2>1, <2>3, <3>1 DEF Matches
  <2> QED
    BY <2>2, <2>3
<1>4. ASSUME NEW k \in DOMAIN M
      PROVE  \E p \in 1 .. Len(b) : LastOf(b, next, k, p) /\ M[k] = ValueAt(b, p) /\ M[k] \in Seq(Digits)
  <2>1. \A q \in Before(b, n) : q <= n
    BY <1>0 DEF Before, ItemStarts
  <2>2. CASE k = key
    <3>1. k \in KnownKeys
      BY <1>3
    <3>2. M[k] = value
      BY <2>2, <3>1 DEF InsertOrAssign
    <3>3. LastOf(b, next, k, n)
      BY <1>0, <1>1, <1>2, <2>1, <2>2 DEF LastOf
    <3> QED
      BY <1>1, <3>2, <3>3
  <2>3. CASE k # key
    <3>1. k \in DOMAIN m /\ M[k] = m[k]
      BY <2>3 DEF InsertOrAssign
    <3>2. PICK p \in 1 .. Len(b) : LastOf(b, n, k, p) /\ m[k] = ValueAt(b, p) /\ m[k] \in Seq(Digits)
      BY <3>1 DEF Matches
    <3>3. LastOf(b, next, k, p)
      BY <1>1, <1>2, <2>3, <3>2 DEF LastOf
    <3> QED
      BY <3>1, <3>2, <3>3
  <2> QED
    BY <2>2, <2>3
<1>5. Matches(M, b, next)
  BY <1>3, <1>4 DEF Matches
<1>6. next \in 1 .. Len(b) + 1
  BY <1>0, <1>1
<1> QED
  BY <1>1, <1>5, <1>6 DEF end, next, key, value

--------------------------------------------------------------------------------
(* Every step keeps both.                                                      *)

\* A first packet of which nothing is read.
LEMMA InitParsed == GloveInit => Parsed /\ Rejected
<1> SUFFICES ASSUME GloveInit PROVE Parsed /\ Rejected
  OBVIOUS
<1>1. PICK s \in Streams : /\ buff = Head(s) /\ stream = Tail(s) /\ i = 1 /\ input_map = <<>>
                           /\ input = [type |-> "None"]
  BY DEF GloveInit
<1>2. s \in Seq(Seq(STRING)) /\ s # <<>>
  BY StreamsAssumption
<1>3. Head(s) \in Seq(STRING) /\ Tail(s) \in Seq(Seq(STRING))
  BY <1>2
<1>4. Parsed
  BY <1>1, <1>3, NothingParsed DEF Parsed, Unreached
<1>5. Rejected
  BY <1>1 DEF Rejected, Invalid
<1> QED
  BY <1>4, <1>5

\* The index moves from clear place to clear place, the map with it.
LEMMA NextParsed == Parsed /\ [GloveNext]_gloveVars => Parsed'
<1> SUFFICES ASSUME Parsed, [GloveNext]_gloveVars PROVE Parsed'
  OBVIOUS
<1>0. /\ buff \in Seq(STRING) /\ stream \in Seq(Seq(STRING)) /\ Len(buff) \in Nat /\ i \in 1 .. Len(buff) + 1
      /\ (input.type # "None" => i = Len(buff) + 1) /\ (i <= Len(buff) => Unreached(buff, i))
      /\ Matches(input_map, buff, i)
  BY DEF Parsed
<1>1. CASE SkipJunk /\ UNCHANGED <<stream, skeleton, activated>>
  <2>1. i \in 1 .. Len(buff) /\ buff[i] \notin KeyCharacters
    BY <1>0, <1>1 DEF SkipJunk
  <2>2. Matches(input_map, buff, i + 1) /\ (i + 1 <= Len(buff) => Unreached(buff, i + 1))
    BY <1>0, <2>1, JunkParsed
  <2> QED
    BY <1>0, <1>1, <2>1, <2>2 DEF SkipJunk, Parsed
<1>2. CASE ParseItem /\ UNCHANGED <<stream, skeleton, activated>>
  <2> DEFINE end  == KeyEnd(buff, i)
             next == RunEnd(buff, end, Digits)
  <2>1. i \in 1 .. Len(buff) /\ buff[i] \in KeyCharacters
    BY <1>0, <1>2 DEF ParseItem
  <2>2. /\ next \in 1 .. Len(buff) + 1 /\ (next <= Len(buff) => Unreached(buff, next))
        /\ Matches(InsertOrAssign(input_map, SubSeq(buff, i, end - 1), SubSeq(buff, end, next - 1)), buff, next)
    BY <1>0, <2>1, ItemParsed
  <2>3. /\ input_map' = InsertOrAssign(input_map, SubSeq(buff, i, end - 1), SubSeq(buff, end, next - 1))
        /\ i' = next /\ buff' = buff /\ input' = input /\ stream' = stream /\ input.type = "None"
    BY <1>2 DEF ParseItem
  <2> HIDE DEF end, next
  <2> QED
    BY <1>0, <2>2, <2>3 DEF Parsed
<1>3. CASE DecodePacket /\ UNCHANGED <<stream, skeleton, activated>>
  <2>1. i = Len(buff) + 1 /\ i' = i /\ buff' = buff /\ stream' = stream /\ input_map' = input_map
    BY <1>0, <1>3 DEF DecodePacket
  <2> QED
    BY <1>0, <2>1 DEF Parsed
<1>4. CASE Deliver
  <2>1. CASE stream = <<>>
    <3>1. buff' = buff /\ i' = i /\ input_map' = input_map /\ stream' = stream /\ i = Len(buff) + 1
      BY <1>0, <1>4, <2>1 DEF Deliver
    <3> QED
      BY <1>0, <3>1 DEF Parsed
  <2>2. CASE stream # <<>>
    <3>1. /\ buff' = Head(stream) /\ stream' = Tail(stream) /\ i' = 1 /\ input_map' = <<>>
          /\ input' = [type |-> "None"]
      BY <1>4, <2>2 DEF Deliver
    <3>2. Head(stream) \in Seq(STRING) /\ Tail(stream) \in Seq(Seq(STRING))
      BY <1>0, <2>2
    <3> QED
      BY <3>1, <3>2, NothingParsed DEF Parsed, Unreached
  <2> QED
    BY <2>1, <2>2
<1>5. CASE Activate \/ UNCHANGED gloveVars
  <2>1. UNCHANGED <<buff, i, input_map, input, stream>>
    BY <1>5 DEF Activate, gloveVars, decoding
  <2> QED
    BY <1>0, <2>1 DEF Parsed
<1> QED
  BY <1>1, <1>2, <1>3, <1>4, <1>5 DEF GloveNext, Decode

\* Only DecodePacket's two tests make a packet Invalid.
LEMMA NextRejected == Rejected /\ [GloveNext]_gloveVars => Rejected'
<1> SUFFICES ASSUME Rejected, [GloveNext]_gloveVars PROVE Rejected'
  OBVIOUS
<1>1. CASE SkipJunk \/ ParseItem
  BY <1>1 DEF SkipJunk, ParseItem, Rejected, Invalid
<1>2. CASE DecodePacket
  <2>1. input_map' = input_map
    BY <1>2 DEF DecodePacket
  <2>2. SUFFICES ASSUME input' = Invalid, ~Has(input_map, InfoKey)
                 PROVE  Throws(input_map, NumberKeys) \/ Peripheral(input_map) = EmptyPeripheral
    BY <2>1 DEF Rejected
  <2>3. DecodePeripheralPacket(input_map) = Invalid
    BY <1>2, <2>2 DEF DecodePacket
  <2> QED
    BY <2>3 DEF DecodePeripheralPacket, Invalid
<1>3. CASE Deliver
  BY <1>3 DEF Deliver, Rejected, Invalid
<1>4. CASE Activate \/ UNCHANGED gloveVars
  BY <1>4 DEF Activate, gloveVars, decoding, Rejected
<1> QED
  BY <1>1, <1>2, <1>3, <1>4 DEF GloveNext, Decode

\* The two are invariant.
LEMMA Decoded == GloveSpec => [](Parsed /\ Rejected)
<1>1. Parsed /\ Rejected /\ [GloveNext]_gloveVars => (Parsed /\ Rejected)'
  BY NextParsed, NextRejected
<1> QED
  BY <1>1, InitParsed, PTL DEF GloveSpec

\* At the end of a packet all of its items precede the index.
LEMMA GrammarOfTheMap == Parsed => ParsedByTheGrammar
<1> SUFFICES ASSUME Parsed PROVE ParsedByTheGrammar
  OBVIOUS
<1> SUFFICES ASSUME input.type # "None"
             PROVE  /\ DOMAIN input_map = {KeyAt(buff, p) : p \in ItemStarts(buff)} \cap KnownKeys
                    /\ \A k \in DOMAIN input_map :
                         input_map[k] = ValueAt(buff, Max({p \in ItemStarts(buff) : KeyAt(buff, p) = k}))
  BY DEF ParsedByTheGrammar
<1>1. Before(buff, i) = ItemStarts(buff) /\ Matches(input_map, buff, i)
  BY DEF Parsed, Before, ItemStarts
<1>2. ASSUME NEW k \in DOMAIN input_map
      PROVE  input_map[k] = ValueAt(buff, Max({p \in ItemStarts(buff) : KeyAt(buff, p) = k}))
  <2> DEFINE S == {p \in ItemStarts(buff) : KeyAt(buff, p) = k}
  <2>1. PICK p \in 1 .. Len(buff) : LastOf(buff, i, k, p) /\ input_map[k] = ValueAt(buff, p)
    BY <1>1 DEF Matches
  <2>2. p \in S /\ \A q \in S : q <= p
    BY <1>1, <2>1 DEF LastOf
  <2>3. S \in SUBSET Int
    BY DEF ItemStarts
  <2> HIDE DEF S
  <2>4. Max(S) = p
    BY <2>2, <2>3, MaxIs
  <2> QED
    BY <2>1, <2>4 DEF S
<1> QED
  BY <1>1, <1>2 DEF Matches

\* Once a packet is decoded, its map is what the grammar makes of it: ParseToMap's loop
\* (alpha_encoding_service.cpp) finds the known keys, each with the value of its last item.
THEOREM PacketsParsed == GloveSpec => []ParsedByTheGrammar
  BY GrammarOfTheMap, Decoded, PTL

\* What the two tests saw in the map stands in the packet.
LEMMA ReasonsAreInThePacket == Parsed /\ Rejected => RejectedWithReason
<1> SUFFICES ASSUME Parsed, Rejected PROVE RejectedWithReason
  OBVIOUS
<1> SUFFICES ASSUME input = Invalid, ~Has(input_map, InfoKey)
             PROVE  \/ \E p \in ItemStarts(buff) : KeyAt(buff, p) \in NumberKeys /\ ValueAt(buff, p) = <<>>
                    \/ \A f \in Fingers : \A j \in Joints :
                         \E p \in ItemStarts(buff) :
                           KeyAt(buff, p) \in {CurlKey(f), JointKey(f, j)} /\ ToSet(ValueAt(buff, p)) = {"0"}
  BY DEF RejectedWithReason
<1>1. ASSUME NEW k \in DOMAIN input_map
      PROVE  /\ input_map[k] \in Seq(Digits)
             /\ \E p \in ItemStarts(buff) : KeyAt(buff, p) = k /\ ValueAt(buff, p) = input_map[k]
  BY DEF Parsed, Matches, LastOf, Before
<1>2. CASE Throws(input_map, NumberKeys)
  <2>1. PICK k \in NumberKeys : Has(input_map, k) /\ input_map[k] = <<>>
    BY <1>2 DEF Throws
  <2> QED
    BY <1>1, <2>1 DEF Has
<1>3. CASE ~Throws(input_map, NumberKeys) /\ Peripheral(input_map) = EmptyPeripheral
  <2> SUFFICES ASSUME NEW f \in Fingers, NEW j \in Joints
               PROVE  \E p \in ItemStarts(buff) :
                        KeyAt(buff, p) \in {CurlKey(f), JointKey(f, j)} /\ ToSet(ValueAt(buff, p)) = {"0"}
    OBVIOUS
  <2>1. Flexion(input_map, f, j) = 0
    <3>1. Peripheral(input_map).flexion[f][j] = EmptyPeripheral.flexion[f][j]
      BY <1>3
    <3> QED
      BY <3>1 DEF Peripheral, EmptyPeripheral
  <2>2. ASSUME NEW k \in {CurlKey(f), JointKey(f, j)}, Has(input_map, k), Number(input_map[k]) = 0
        PROVE  \E p \in ItemStarts(buff) : KeyAt(buff, p) = k /\ ToSet(ValueAt(buff, p)) = {"0"}
    <3>1. k \in NumberKeys
      BY DEF NumberKeys
    <3>2. input_map[k] # <<>>
      BY <1>3, <2>2, <3>1 DEF Throws
    <3>3. k \in DOMAIN input_map
      BY <2>2 DEF Has
    <3>4. ToSet(input_map[k]) = {"0"}
      BY <1>1, <2>2, <3>2, <3>3, ZeroIs
    <3> QED
      BY <1>1, <3>3, <3>4
  <2>3. Default # 0
    BY AnalogAssumption DEF Default
  <2>4. CASE Has(input_map, JointKey(f, j))
    BY <2>1, <2>2, <2>4 DEF Flexion
  <2>5. CASE ~Has(input_map, JointKey(f, j)) /\ Has(input_map, CurlKey(f))
    BY <2>1, <2>2, <2>5 DEF Flexion
  <2>6. CASE ~Has(input_map, JointKey(f, j)) /\ ~Has(input_map, CurlKey(f))
    BY <2>1, <2>3, <2>6 DEF Flexion
  <2> QED
    BY <2>4, <2>5, <2>6
<1> QED
  BY <1>2, <1>3 DEF Rejected

\* A packet of inputs is rejected only if it has an item whose number is missing, or gives
\* every joint of every finger as zero.
THEOREM RejectionsHaveReasons == GloveSpec => []RejectedWithReason
  BY ReasonsAreInThePacket, Decoded, PTL

--------------------------------------------------------------------------------
(* What is loaded from the model's file are arrays of numbers.                 *)

Transforms  == [rotation : Arrays(4), translation : Arrays(3)]
BoneRecords == [is : {"number", "nan"}, orientation : Quaternions, position : Arrays(3), scale : Nat \ {0}]

\* The numbers of an array are integers.
LEMMA ArraysAre ==
  /\ \A n : \A a \in Arrays(n) : DOMAIN a = 1 .. n /\ \A k \in 1 .. n : a[k] \in Int
  /\ \A a1, a2, a3 \in Int : <<a1, a2, a3>> \in Arrays(3)
  /\ \A a1, a2, a3, a4 \in Int : <<a1, a2, a3, a4>> \in Arrays(4)
<1>1. \A n : \A a \in Arrays(n) : DOMAIN a = 1 .. n /\ \A k \in 1 .. n : a[k] \in Int
  BY DEF Arrays
<1>2. ASSUME NEW a1 \in Int, NEW a2 \in Int, NEW a3 \in Int PROVE <<a1, a2, a3>> \in [1 .. 3 -> Int]
  OBVIOUS
<1>3. ASSUME NEW a1 \in Int, NEW a2 \in Int, NEW a3 \in Int, NEW a4 \in Int PROVE <<a1, a2, a3, a4>> \in [1 .. 4 -> Int]
  OBVIOUS
<1> QED
  BY <1>1, <1>2, <1>3 DEF Arrays

\* Writing a part of a transform, mapping a rotation, or a half turn keeps its arrays.
LEMMA TransformIs ==
  ASSUME NEW t \in Transforms, NEW r \in Arrays(4), NEW p \in Arrays(3)
  PROVE  /\ [t EXCEPT !.rotation = r] \in Transforms /\ [t EXCEPT !.translation = p] \in Transforms
         /\ MapRotation(r) \in Arrays(4) /\ Minus4(r) \in Arrays(4)
         /\ HalfTurned(t, r) \in Transforms
<1>1. /\ r[1] \in Int /\ r[2] \in Int /\ r[3] \in Int /\ r[4] \in Int
      /\ t.translation[1] \in Int /\ t.translation[2] \in Int /\ t.translation[3] \in Int
  <2>1. t.translation \in Arrays(3)
    BY DEF Transforms
  <2> QED
    BY <2>1, ArraysAre
<1>2. [t EXCEPT !.rotation = r] \in Transforms /\ [t EXCEPT !.translation = p] \in Transforms
  BY DEF Transforms
<1>3. MapRotation(r) \in Arrays(4)
  BY <1>1, ArraysAre DEF MapRotation
<1>4. Minus4(r) \in Arrays(4)
  <2>1. \A k \in 1 .. 4 : r[k] \in Int
    BY ArraysAre
  <2>2. \A k \in 1 .. 4 : -r[k] \in Int
    BY <2>1
  <2> QED
    BY <2>2 DEF Minus4, Arrays
<1>5. HalfTurned(t, r) \in Transforms
  <2>1. -r[3] \in Int /\ -r[2] \in Int /\ -t.translation[1] \in Int /\ -t.translation[3] \in Int
    BY <1>1
  <2>2. <<-r[3], r[4], r[1], -r[2]>> \in Arrays(4)
    BY <1>1, <2>1, ArraysAre
  <2>3. <<-t.translation[1], t.translation[2], -t.translation[3]>> \in Arrays(3)
    BY <1>1, <2>1, ArraysAre
  <2> QED
    BY <2>2, <2>3 DEF HalfTurned, Transforms
<1> QED
  BY <1>2, <1>3, <1>4, <1>5

\* MapRightTransform keeps a transform's arrays.
LEMMA MappedIs ==
  ASSUME NEW t \in Transforms, NEW b
  PROVE  MapRightTransform(t, b) \in Transforms
<1>1. /\ t.rotation \in Arrays(4) /\ Minus4(t.rotation) \in Arrays(4)
  BY TransformIs DEF Transforms
<1>2. /\ [t EXCEPT !.rotation = Minus4(t.rotation)] \in Transforms
      /\ HalfTurned(t, Minus4(t.rotation)) \in Transforms /\ HalfTurned(t, t.rotation) \in Transforms
  <2>1. t.translation \in Arrays(3)
    BY DEF Transforms
  <2> QED
    BY <1>1, <2>1, TransformIs
<1> QED
  BY <1>2 DEF MapRightTransform

\* A node of the model's file is a transform.
LEMMA InitialTransformsAre == \A b \in Bones : InitialTransforms[b] \in Transforms
<1> SUFFICES ASSUME NEW b \in Bones PROVE InitialTransforms[b] \in Transforms
  OBVIOUS
<1>1. Nodes[b] \in Transforms
  BY ModelAssumption DEF Transforms
<1>2. Nodes[b].rotation \in Arrays(4) /\ Nodes[b].translation \in Arrays(3)
  BY <1>1 DEF Transforms
<1>3. MapRotation(Nodes[b].rotation) \in Arrays(4)
  BY <1>1, <1>2, TransformIs
<1>4. [rotation |-> MapRotation(Nodes[b].rotation), translation |-> Nodes[b].translation] \in Transforms
  BY <1>2, <1>3 DEF Transforms
<1>5. InitialTransforms[b] = MapRightTransform([rotation    |-> MapRotation(Nodes[b].rotation),
                                                translation |-> Nodes[b].translation], b)
  BY DEF InitialTransforms
<1> QED
  BY <1>4, <1>5, MappedIs

\* A channel changes one array of every keyframe's transform.
LEMMA LoadedIs ==
  ASSUME NEW ts \in [DOMAIN KeyframeTimes -> Transforms], NEW b \in Bones, NEW n \in 1 .. Len(Channels[b])
  PROVE  LoadChannel(ts, Channels[b][n], b) \in [DOMAIN KeyframeTimes -> Transforms]
<1> DEFINE c == Channels[b][n]
<1>1. \/ c.type = "VEC4" /\ c.keyframes \in Accessors(4)
      \/ c.type = "VEC3" /\ c.keyframes \in Accessors(3)
  <2>1. Channels[b] \in Seq([type : {"VEC4"}, keyframes : Accessors(4)] \cup [type : {"VEC3"}, keyframes : Accessors(3)])
    BY ModelAssumption
  <2>2. c \in [type : {"VEC4"}, keyframes : Accessors(4)] \cup [type : {"VEC3"}, keyframes : Accessors(3)]
    BY <2>1
  <2> QED
    BY <2>2
<1> HIDE DEF c
<1>2. ASSUME NEW k \in DOMAIN KeyframeTimes
      PROVE  (IF c.type = "VEC4" THEN [ts[k] EXCEPT !.rotation = MapRotation(c.keyframes[k])]
              ELSE MapRightTransform([ts[k] EXCEPT !.translation = c.keyframes[k]], b)) \in Transforms
  <2>1. CASE c.type = "VEC4"
    <3>1. c.keyframes[k] \in Arrays(4) /\ ts[k] \in Transforms /\ <<0, 0, 0>> \in Arrays(3)
      BY <1>1, <2>1, ArraysAre DEF Accessors
    <3>2. MapRotation(c.keyframes[k]) \in Arrays(4)
      BY <3>1, TransformIs
    <3> QED
      BY <2>1, <3>1, <3>2, TransformIs
  <2>2. CASE c.type # "VEC4"
    <3>1. c.keyframes[k] \in Arrays(3) /\ ts[k] \in Transforms /\ <<0, 0, 0, 0>> \in Arrays(4)
      BY <1>1, <2>2, ArraysAre DEF Accessors
    <3>2. [ts[k] EXCEPT !.translation = c.keyframes[k]] \in Transforms
      BY <3>1, TransformIs
    <3> QED
      BY <2>2, <3>2, MappedIs
  <2> QED
    BY <2>1, <2>2
<1>3. LoadChannel(ts, c, b) =
        [k \in DOMAIN KeyframeTimes |->
           IF c.type = "VEC4" THEN [ts[k] EXCEPT !.rotation = MapRotation(c.keyframes[k])]
           ELSE MapRightTransform([ts[k] EXCEPT !.translation = c.keyframes[k]], b)]
  BY DEF LoadChannel
<1> QED
  BY <1>2, <1>3 DEF c

\* A bone's keyframes are loaded channel by channel.
LoadsTo(b, g, N) ==
  /\ g[0] = [k \in DOMAIN KeyframeTimes |-> EmptyTransform]
  /\ \A n \in 1 .. N : g[n] = LoadChannel(g[n - 1], Channels[b][n], b)
  /\ \A n \in 0 .. N : g[n] \in [DOMAIN KeyframeTimes -> Transforms]
  /\ KeyframeTransforms[b] = g[N]

\* However many channels it has, every keyframe of a bone is a transform.
LEMMA KeyframesLoaded ==
  ASSUME NEW b \in Bones
  PROVE  \E g : LoadsTo(b, g, Len(Channels[b]))
<1> DEFINE All   == [DOMAIN KeyframeTimes -> Transforms]
           N     == Len(Channels[b])
           first == [k \in DOMAIN KeyframeTimes |-> EmptyTransform]
           step  == [p \in (1 .. N) \X All |-> LoadChannel(p[2], Channels[b][p[1]], b)]
           Is(f) == f = [n \in 0 .. N |-> IF n = 0 THEN first ELSE LoadChannel(f[n - 1], Channels[b][n], b)]
<1>1. N \in Nat
  BY ModelAssumption
<1>2. first \in All
  <2>1. EmptyTransform \in Transforms
    BY ArraysAre DEF EmptyTransform, Transforms
  <2> QED
    BY <2>1
<1>3. step \in [(1 .. N) \X All -> All]
  <2>1. ASSUME NEW n \in 1 .. N, NEW ts \in All PROVE LoadChannel(ts, Channels[b][n], b) \in All
    BY LoadedIs
  <2> HIDE DEF All, N
  <2> QED
    BY <2>1
<1>4. PICK f \in [0 .. N -> All] : Unfolds(f, N, first, step)
  <2> HIDE DEF All, N, first, step
  <2> QED
    BY <1>1, <1>2, <1>3, RecursiveFunction
<1>5. ASSUME NEW n \in 1 .. N PROVE f[n] = LoadChannel(f[n - 1], Channels[b][n], b)
  <2> HIDE DEF All, N, first
  <2>1. n - 1 \in 0 .. N
    BY <1>1
  <2>2. f[n - 1] \in All
    BY <2>1
  <2>3. <<n, f[n - 1]>> \in (1 .. N) \X All
    BY <2>2
  <2>4. step[<<n, f[n - 1]>>] = LoadChannel(f[n - 1], Channels[b][n], b)
    BY <2>3
  <2> QED
    BY <1>4, <2>4 DEF Unfolds
<1>6. Is(f)
  <2> HIDE DEF All, N, first, step
  <2> QED
    BY <1>1, <1>4, <1>5 DEF Unfolds
<1>7. KeyframeTransforms[b] = (CHOOSE g : Is(g))[N]
  BY DEF KeyframeTransforms
<1> DEFINE g == CHOOSE g : Is(g)
<1>8. Is(g)
  <2> HIDE DEF Is
  <2> QED
    BY <1>6
<1> HIDE DEF All, N, first, step, g
<1>9. g[0] = first /\ \A n \in 1 .. N : g[n] = LoadChannel(g[n - 1], Channels[b][n], b)
  BY <1>1, <1>8
<1> DEFINE S == {n \in 0 .. N : g[n] \in All}
<1>10. 0 .. N \subseteq S
  <2>1. 0 \in S
    BY <1>1, <1>2, <1>9
  <2>2. ASSUME NEW n \in 0 .. N - 1, n \in S PROVE n + 1 \in S
    <3>1. PICK k \in 1 .. N : k = n + 1 /\ k - 1 = n
      BY <1>1
    <3>2. g[k] = LoadChannel(g[n], Channels[b][k], b) /\ g[n] \in All
      BY <1>9, <2>2, <3>1
    <3>3. g[k] \in All
      BY <3>2, LoadedIs DEF All, N
    <3> QED
      BY <1>1, <3>1, <3>3
  <2> HIDE DEF S
  <2> QED
    BY <1>1, <2>1, <2>2, UpTo
<1>11. LoadsTo(b, g, N)
  <2>1. \A n \in 0 .. N : g[n] \in All
    BY <1>10
  <2>2. KeyframeTransforms[b] = g[N]
    BY <1>7 DEF g
  <2> QED
    BY <1>9, <2>1, <2>2 DEF LoadsTo, All, first
<1> QED
  BY <1>11 DEF N

\* The keyframes of a bone are transforms.
LEMMA KeyframeTransformsAre ==
  ASSUME NEW b \in Bones
  PROVE  KeyframeTransforms[b] \in [DOMAIN KeyframeTimes -> Transforms]
<1>1. PICK g : LoadsTo(b, g, Len(Channels[b]))
  BY KeyframesLoaded
<1>2. Len(Channels[b]) \in Nat
  BY ModelAssumption
<1> QED
  BY <1>1, <1>2 DEF LoadsTo


--------------------------------------------------------------------------------
(* What a curl makes of a bone.                                                *)

\* A curl lies between two keyframes, whose times differ.
LEMMA KeyframesAround ==
  ASSUME NEW curl \in Nat
  PROVE  /\ Lower(curl) \in DOMAIN KeyframeTimes /\ Upper(curl) \in DOMAIN KeyframeTimes
         /\ Fraction(curl).of \in Nat \ {0} /\ Fraction(curl).part \in Int
<1> DEFINE L == Len(KeyframeTimes)
           S == {k \in DOMAIN KeyframeTimes : KeyframeTimes[k] <= curl}
<1>1. L \in Nat /\ L > 0 /\ DOMAIN KeyframeTimes = 1 .. L /\ \A k \in 1 .. L : KeyframeTimes[k] \in Int
  BY TimesAssumption
<1>2. 1 \in S /\ S \in SUBSET (1 .. L)
  BY <1>1, TimesAssumption
<1>3. IsFiniteSet(1 .. L) /\ Cardinality(1 .. L) = L
  BY <1>1, FS_Interval
<1> HIDE DEF L, S
<1>4. IsFiniteSet(S) /\ Cardinality(S) <= L /\ Cardinality(S) \in Nat /\ Cardinality(S) # 0
  <2>1. IsFiniteSet(S) /\ Cardinality(S) <= Cardinality(1 .. L)
    BY <1>2, <1>3, FS_Subset
  <2>2. Cardinality(S) \in Nat
    BY <2>1, FS_CardinalityType
  <2>3. S # {}
    BY <1>2
  <2> QED
    BY <1>3, <2>1, <2>2, <2>3, FS_EmptySet
<1>5. Lower(curl) = Cardinality(S)
  BY DEF Lower, S
<1>6. Lower(curl) \in 1 .. L
  BY <1>1, <1>4, <1>5
<1>7. CASE Lower(curl) < L
  <2> DEFINE l == Lower(curl)
  <2>1. Upper(curl) = l + 1 /\ l # l + 1 /\ l \in 1 .. L /\ l + 1 \in 1 .. L
    BY <1>1, <1>6, <1>7 DEF Upper, L
  <2> HIDE DEF l
  <2>2. /\ KeyframeTimes[l] \in Int /\ KeyframeTimes[l + 1] \in Int
        /\ KeyframeTimes[l] < KeyframeTimes[l + 1]
    <3>1. PICK k \in 2 .. L : k = l + 1 /\ k - 1 = l
      BY <1>1, <2>1
    <3> QED
      BY <1>1, <2>1, <3>1, TimesAssumption DEF L
  <2>3. Fraction(curl) = [of   |-> KeyframeTimes[l + 1] - KeyframeTimes[l],
                          part |-> curl - KeyframeTimes[l]]
    BY <2>1 DEF Fraction, l
  <2>4. Fraction(curl).of = KeyframeTimes[l + 1] - KeyframeTimes[l] /\ Fraction(curl).part = curl - KeyframeTimes[l]
    BY <2>3
  <2> QED
    BY <1>1, <1>6, <2>1, <2>2, <2>4
<1>8. CASE Lower(curl) = L
  <2>1. Upper(curl) = Lower(curl)
    BY <1>8 DEF Upper, L
  <2> QED
    BY <1>1, <1>6, <2>1 DEF Fraction
<1> QED
  BY <1>1, <1>6, <1>7, <1>8

\* An interpolation of arrays is an array.
LEMMA LerpIs ==
  ASSUME NEW n \in Nat, NEW a \in Arrays(n), NEW b \in Arrays(n), NEW f, f.of \in Int, f.part \in Int
  PROVE  Lerp(a, b, f) \in Arrays(n)
<1>1. ASSUME NEW k \in 1 .. n PROVE (f.of - f.part) * a[k] + f.part * b[k] \in Int
  <2>1. a[k] \in Int /\ b[k] \in Int
    BY ArraysAre
  <2>2. (f.of - f.part) * a[k] \in Int /\ f.part * b[k] \in Int
    BY <2>1
  <2> QED
    BY <2>2
<1>2. DOMAIN a = 1 .. n
  BY ArraysAre
<1> QED
  BY <1>1, <1>2 DEF Lerp, Arrays

\* A quaternion of integers, and its components.
LEMMA QuaternionIs ==
  /\ \A w, x, y, z \in Int : Quaternion(w, x, y, z) \in Quaternions
  /\ \A q \in Quaternions : /\ q.w \in Int /\ q.x \in Int /\ q.y \in Int /\ q.z \in Int
                            /\ q = Quaternion(q.w, q.x, q.y, q.z)
  BY DEF Quaternion, Quaternions

\* The product of two quaternions is one.
LEMMA ProductIs ==
  ASSUME NEW a \in Quaternions, NEW b \in Quaternions
  PROVE  Product(a, b) \in Quaternions
<1>1. /\ a.w \in Int /\ a.x \in Int /\ a.y \in Int /\ a.z \in Int
      /\ b.w \in Int /\ b.x \in Int /\ b.y \in Int /\ b.z \in Int
  BY QuaternionIs
<1>2. /\ a.w * b.w - a.x * b.x - a.y * b.y - a.z * b.z \in Int
      /\ a.w * b.x + a.x * b.w + a.y * b.z - a.z * b.y \in Int
      /\ a.w * b.y - a.x * b.z + a.y * b.w + a.z * b.x \in Int
      /\ a.w * b.z + a.x * b.y - a.y * b.x + a.z * b.w \in Int
  BY <1>1
<1>3. Product(a, b) = Quaternion(a.w * b.w - a.x * b.x - a.y * b.y - a.z * b.z,
                                 a.w * b.x + a.x * b.w + a.y * b.z - a.z * b.y,
                                 a.w * b.y - a.x * b.z + a.y * b.w + a.z * b.x,
                                 a.w * b.z + a.x * b.y - a.y * b.x + a.z * b.w)
  BY DEF Product, Multiplied
<1> QED
  BY <1>2, <1>3, QuaternionIs

\* A bone never written, and one written with NaN, are records of a bone.
LEMMA UnsetIs == Unset \in BoneRecords /\ NotANumber \in BoneRecords
<1>1. <<0, 0, 0>> \in Arrays(3) /\ Zero \in Quaternions
  BY ArraysAre, QuaternionIs DEF Zero
<1> QED
  BY <1>1 DEF Unset, NotANumber, Bone, BoneRecords

\* The two scales.
LEMMA ScalesAre == Closed \in Nat /\ MaxSplay \in Nat
<1>1. IsFiniteSet({"A"}) /\ IsFiniteSet({"B"}) /\ IsFiniteSet({"C"}) /\ IsFiniteSet({"D"})
  BY FS_Singleton
<1>2. IsFiniteSet({"A"} \cup {"B"}) /\ IsFiniteSet({"C"} \cup {"D"})
  BY <1>1, FS_Union
<1>3. IsFiniteSet(({"A"} \cup {"B"}) \cup ({"C"} \cup {"D"}))
  BY <1>2, FS_Union
<1>4. Joints = ({"A"} \cup {"B"}) \cup ({"C"} \cup {"D"})
  BY DEF Joints
<1>5. Cardinality(Joints) \in Nat
  BY <1>3, <1>4, FS_CardinalityType
<1> QED
  BY <1>5, AnalogAssumption, CurlsAssumption

\* The transforms that a curl in range is between.
LEMMA BetweenTransforms ==
  ASSUME NEW b \in Bones, NEW curl \in 0 .. Closed
  PROVE  /\ Fraction(curl).of \in Nat \ {0} /\ Fraction(curl).part \in Int
         /\ \A t \in {KeyframeTransforms[b][Lower(curl)], KeyframeTransforms[b][Upper(curl)], InitialTransforms[b]} :
              t \in Transforms /\ t.rotation \in Arrays(4) /\ t.translation \in Arrays(3)
<1>1. curl \in Nat
  BY ScalesAre
<1>2. /\ Lower(curl) \in DOMAIN KeyframeTimes /\ Upper(curl) \in DOMAIN KeyframeTimes
      /\ Fraction(curl).of \in Nat \ {0} /\ Fraction(curl).part \in Int
  BY <1>1, KeyframesAround
<1>3. /\ KeyframeTransforms[b][Lower(curl)] \in Transforms /\ KeyframeTransforms[b][Upper(curl)] \in Transforms
      /\ InitialTransforms[b] \in Transforms
  BY <1>2, KeyframeTransformsAre, InitialTransformsAre
<1>4. \A t \in Transforms : t.rotation \in Arrays(4) /\ t.translation \in Arrays(3)
  BY DEF Transforms
<1> QED
  BY <1>2, <1>3, <1>4

\* A curl in range makes the same of both hands, before the left is mirrored.
LEMMA BentIs ==
  ASSUME NEW b \in Bones, NEW curl \in 0 .. Closed, NEW splay
  PROVE  /\ Bent(b, curl, splay, "right") \in BoneRecords
         /\ Bent(b, curl, splay, "left") = TransformLeftBone(Bent(b, curl, splay, "right"), b)
<1> DEFINE node  == InitialTransforms[b]
           start == KeyframeTransforms[b][Lower(curl)]
           end   == KeyframeTransforms[b][Upper(curl)]
           r     == Lerp(start.rotation, end.rotation, Fraction(curl))
           t     == Lerp(start.translation, end.translation, Fraction(curl))
           n     == node.rotation
           q     == IF start.rotation # EmptyTransform.rotation
                      THEN Quaternion(r[1], r[2], r[3], r[4]) ELSE Quaternion(n[4], n[1], n[2], n[3])
           splayed == IF splay \in -MaxSplay .. MaxSplay /\ IsBoneSplayable(b) THEN Product(q, SplayTurn(splay)) ELSE q
           bone    == IF start.translation # EmptyTransform.translation
                        THEN Bone(splayed, t, Fraction(curl).of) ELSE Bone(splayed, node.translation, 1)
           bent(h) == IF IsNotANumber(curl) /\ start # EmptyTransform THEN NotANumber ELSE OfHand(h, bone, b)
<1>1. /\ start.rotation \in Arrays(4) /\ end.rotation \in Arrays(4) /\ n \in Arrays(4)
      /\ start.translation \in Arrays(3) /\ end.translation \in Arrays(3) /\ node.translation \in Arrays(3)
      /\ Fraction(curl).of \in Nat \ {0} /\ Fraction(curl).part \in Int
  BY BetweenTransforms
<1>2. \A h : Bent(b, curl, splay, h) = bent(h)
  BY DEF Bent
<1> HIDE DEF start, end, node
<1>3. Fraction(curl).of \in Int
  BY <1>1
<1>4. r \in Arrays(4)
  BY <1>1, <1>3, LerpIs
<1>5. t \in Arrays(3)
  BY <1>1, <1>3, LerpIs
<1> HIDE DEF r, t, n
<1>6. q \in Quaternions
  <2>1. \A a \in Arrays(4) : a[1] \in Int /\ a[2] \in Int /\ a[3] \in Int /\ a[4] \in Int
    BY ArraysAre
  <2>2. /\ r[1] \in Int /\ r[2] \in Int /\ r[3] \in Int /\ r[4] \in Int
        /\ n[1] \in Int /\ n[2] \in Int /\ n[3] \in Int /\ n[4] \in Int
    BY <1>1, <1>4, <2>1
  <2> QED
    BY <2>2, QuaternionIs
<1> HIDE DEF q
<1>7. splayed \in Quaternions
  <2>1. CASE splay \in -MaxSplay .. MaxSplay
    <3>1. splay \in Int /\ MaxSplay \in Int
      BY <2>1, ScalesAre
    <3>2. SplayTurn(splay) \in Quaternions
      BY <3>1, QuaternionIs DEF SplayTurn
    <3> QED
      BY <1>6, <3>2, ProductIs
  <2>2. CASE splay \notin -MaxSplay .. MaxSplay
    BY <1>6, <2>2
  <2> QED
    BY <2>1, <2>2
<1> HIDE DEF splayed
<1>8. bone \in BoneRecords
  BY <1>1, <1>5, <1>7 DEF Bone, BoneRecords
<1> HIDE DEF bone
<1>9. bent("right") \in BoneRecords /\ bent("left") = TransformLeftBone(bent("right"), b)
  <2>1. TransformLeftBone(NotANumber, b) = NotANumber
    <3>1. NotANumber.is # "number"
      BY DEF NotANumber, Unset, Bone
    <3> QED
      BY <3>1 DEF TransformLeftBone
  <2>2. OfHand("right", bone, b) = bone /\ OfHand("left", bone, b) = TransformLeftBone(bone, b)
    BY DEF OfHand
  <2> QED
    BY <1>8, <2>1, <2>2, UnsetIs
<1> HIDE DEF bent
<1> QED
  BY <1>2, <1>9

\* So does every curl.
LEMMA BothHands ==
  ASSUME NEW b \in Bones, NEW left, NEW right \in BoneRecords, NEW curl, NEW splay,
         left = TransformLeftBone(right, b)
  PROVE  LET l == SetTransformForBone(left, b, curl, splay, "left")
             r == SetTransformForBone(right, b, curl, splay, "right")
         IN r \in BoneRecords /\ l = TransformLeftBone(r, b)
  BY BentIs DEF SetTransformForBone


--------------------------------------------------------------------------------
(* The two hands.                                                              *)

\* The left hand is the right one, transformed.
Mirrored ==
  \A b \in Bones : /\ skeleton["right"][b] \in BoneRecords
                   /\ skeleton["left"][b] = TransformLeftBone(skeleton["right"][b], b)

\* Two hands never written mirror each other: all is zero.
LEMMA InitMirrored == GloveInit => Mirrored
<1> SUFFICES ASSUME GloveInit, NEW b \in Bones
             PROVE  /\ skeleton["right"][b] \in BoneRecords
                    /\ skeleton["left"][b] = TransformLeftBone(skeleton["right"][b], b)
  BY DEF Mirrored
<1>1. skeleton["right"][b] = Unset /\ skeleton["left"][b] = Unset
  BY DEF GloveInit, Hands
<1>2. TransformLeftBone(Unset, b) = Unset
  <2>1. /\ Unset.is = "number" /\ Unset.orientation = Quaternion(0, 0, 0, 0) /\ Unset.position = <<0, 0, 0>>
        /\ Unset = Bone(Quaternion(0, 0, 0, 0), <<0, 0, 0>>, 1) /\ Unset.scale = 1
    BY DEF Unset, Bone, Zero
  <2>2. /\ Unset.orientation.w = 0 /\ Unset.orientation.x = 0 /\ Unset.orientation.y = 0 /\ Unset.orientation.z = 0
        /\ Unset.position[1] = 0 /\ Unset.position[2] = 0 /\ Unset.position[3] = 0
    BY <2>1 DEF Quaternion
  <2>3. \A z \in Int : z + z = z => -z = z
    OBVIOUS
  <2>4. /\ -Unset.orientation.x = Unset.orientation.x /\ -Unset.orientation.y = Unset.orientation.y
        /\ -Unset.orientation.z = Unset.orientation.z
        /\ -Unset.position[1] = Unset.position[1] /\ -Unset.position[2] = Unset.position[2]
        /\ -Unset.position[3] = Unset.position[3]
    <3>1. \A z \in {0} : z + z = z /\ z \in Int
      OBVIOUS
    <3> QED
      BY <2>2, <2>3, <3>1
  <2> QED
    BY <2>1, <2>2, <2>4 DEF TransformLeftBone
<1> QED
  BY <1>1, <1>2, UnsetIs

\* Both hands are written in the same step, from the same input.
LEMMA NextMirrored == Mirrored /\ [GloveNext]_gloveVars => Mirrored'
<1> SUFFICES ASSUME Mirrored, [GloveNext]_gloveVars, NEW b \in Bones
             PROVE  /\ skeleton'["right"][b] \in BoneRecords
                    /\ skeleton'["left"][b] = TransformLeftBone(skeleton'["right"][b], b)
  BY DEF Mirrored
<1>0. /\ skeleton["right"][b] \in BoneRecords
      /\ skeleton["left"][b] = TransformLeftBone(skeleton["right"][b], b)
  BY DEF Mirrored
<1>1. CASE Decode \/ UNCHANGED gloveVars
  BY <1>0, <1>1 DEF Decode, gloveVars
<1>2. CASE Deliver
  <2>1. CASE input.type # "Peripheral"
    BY <1>0, <1>2, <2>1 DEF Deliver
  <2>2. CASE input.type = "Peripheral"
    <3>1. /\ skeleton'["left"][b] = ComputeBoneTransforms(skeleton["left"], input.data, "left")[b]
          /\ skeleton'["right"][b] = ComputeBoneTransforms(skeleton["right"], input.data, "right")[b]
      BY <1>2, <2>2 DEF Deliver, Hands
    <3>2. CASE FingerOf(b) = {}
      BY <1>0, <3>1, <3>2 DEF ComputeBoneTransforms
    <3>3. CASE FingerOf(b) # {}
      <4> DEFINE f     == CHOOSE f \in FingerOf(b) : TRUE
                 curl  == CurlOf(input.data.flexion, f, b)
                 splay == input.data.splay[f]
      <4>1. /\ skeleton'["left"][b] = SetTransformForBone(skeleton["left"][b], b, curl, splay, "left")
            /\ skeleton'["right"][b] = SetTransformForBone(skeleton["right"][b], b, curl, splay, "right")
        BY <3>1, <3>3 DEF ComputeBoneTransforms
      <4> HIDE DEF curl, splay
      <4> QED
        BY <1>0, <4>1, BothHands
    <3> QED
      BY <3>2, <3>3
  <2> QED
    BY <2>1, <2>2
<1>3. CASE Activate
  <2> DEFINE r    == InitialTransforms[b].rotation
             bone == Bone(Quaternion(r[1], r[2], r[3], r[4]), InitialTransforms[b].translation, 1)
  <2>1. skeleton'["left"][b] = TransformLeftBone(bone, b) /\ skeleton'["right"][b] = bone
    BY <1>3 DEF Activate, Hands, LoadDefaultSkeletonByHand, OfHand
  <2>2. bone \in BoneRecords
    <3>1. r \in Arrays(4) /\ InitialTransforms[b].translation \in Arrays(3)
      BY InitialTransformsAre DEF Transforms
    <3> HIDE DEF r
    <3>2. r[1] \in Int /\ r[2] \in Int /\ r[3] \in Int /\ r[4] \in Int
      BY <3>1, ArraysAre
    <3>3. Quaternion(r[1], r[2], r[3], r[4]) \in Quaternions
      BY <3>2, QuaternionIs
    <3> QED
      BY <3>1, <3>3 DEF Bone, BoneRecords
  <2> QED
    BY <2>1, <2>2
<1> QED
  BY <1>1, <1>2, <1>3 DEF GloveNext

\* The left hand is always the transformed right one.
LEMMA Mirroring == GloveSpec => []Mirrored
  BY InitMirrored, NextMirrored, PTL DEF GloveSpec

\* The entries of a rotation's matrix, and how the signs and the order of a quaternion's
\* components change them.
LEMMA RotationIs ==
  ASSUME NEW w, NEW x, NEW y, NEW z
  PROVE  LET R == Rotation(Quaternion(w, x, y, z))
         IN /\ Norm(Quaternion(w, x, y, z)) = w * w + x * x + y * y + z * z
            /\ R[1][1] = w * w + x * x - y * y - z * z
            /\ R[1][2] = 2 * (x * y - w * z)
            /\ R[1][3] = 2 * (x * z + w * y)
            /\ R[2][1] = 2 * (x * y + w * z)
            /\ R[2][2] = w * w - x * x + y * y - z * z
            /\ R[2][3] = 2 * (y * z - w * x)
            /\ R[3][1] = 2 * (x * z - w * y)
            /\ R[3][2] = 2 * (y * z + w * x)
            /\ R[3][3] = w * w - x * x - y * y + z * z
  BY DEF Rotation, Quaternion, Norm

Signs(R, A, B) ==
  /\ R[1][1] \in Int /\ R[1][2] \in Int /\ R[1][3] \in Int
  /\ R[2][1] \in Int /\ R[2][2] \in Int /\ R[2][3] \in Int
  /\ R[3][1] \in Int /\ R[3][2] \in Int /\ R[3][3] \in Int
  /\ A[1][1] = R[1][1]  /\ A[1][2] = R[1][2]  /\ A[1][3] = R[1][3]
  /\ A[2][1] = -R[2][1] /\ A[2][2] = -R[2][2] /\ A[2][3] = -R[2][3]
  /\ A[3][1] = -R[3][1] /\ A[3][2] = -R[3][2] /\ A[3][3] = -R[3][3]
  /\ B[1][1] = R[1][1]  /\ B[1][2] = -R[1][2] /\ B[1][3] = -R[1][3]
  /\ B[2][1] = -R[2][1] /\ B[2][2] = R[2][2]  /\ B[2][3] = R[2][3]
  /\ B[3][1] = -R[3][1] /\ B[3][2] = R[3][2]  /\ B[3][3] = R[3][3]

\* The two quaternions TransformLeftBone makes turn as its reflections say.
LEMMA SignsAre ==
  ASSUME NEW w \in Int, NEW x \in Int, NEW y \in Int, NEW z \in Int
  PROVE  /\ Signs(Rotation(Quaternion(w, x, y, z)), Rotation(Quaternion(-x, w, -z, y)), Rotation(Quaternion(w, x, -y, -z)))
         /\ Norm(Quaternion(-x, w, -z, y)) = Norm(Quaternion(w, x, y, z))
         /\ Norm(Quaternion(w, x, -y, -z)) = Norm(Quaternion(w, x, y, z))
<1> DEFINE R == Rotation(Quaternion(w, x, y, z))
           A == Rotation(Quaternion(-x, w, -z, y))
           B == Rotation(Quaternion(w, x, -y, -z))
<1>1. /\ R[1][1] = w * w + x * x - y * y - z * z
      /\ R[1][2] = 2 * (x * y - w * z)
      /\ R[1][3] = 2 * (x * z + w * y)
      /\ R[2][1] = 2 * (x * y + w * z)
      /\ R[2][2] = w * w - x * x + y * y - z * z
      /\ R[2][3] = 2 * (y * z - w * x)
      /\ R[3][1] = 2 * (x * z - w * y)
      /\ R[3][2] = 2 * (y * z + w * x)
      /\ R[3][3] = w * w - x * x - y * y + z * z
  BY RotationIs
<1>2. /\ A[1][1] = (-x) * (-x) + w * w - (-z) * (-z) - y * y
      /\ A[1][2] = 2 * (w * (-z) - (-x) * y)
      /\ A[1][3] = 2 * (w * y + (-x) * (-z))
      /\ A[2][1] = 2 * (w * (-z) + (-x) * y)
      /\ A[2][2] = (-x) * (-x) - w * w + (-z) * (-z) - y * y
      /\ A[2][3] = 2 * ((-z) * y - (-x) * w)
      /\ A[3][1] = 2 * (w * y - (-x) * (-z))
      /\ A[3][2] = 2 * ((-z) * y + (-x) * w)
      /\ A[3][3] = (-x) * (-x) - w * w - (-z) * (-z) + y * y
  BY RotationIs
<1>3. /\ B[1][1] = w * w + x * x - (-y) * (-y) - (-z) * (-z)
      /\ B[1][2] = 2 * (x * (-y) - w * (-z))
      /\ B[1][3] = 2 * (x * (-z) + w * (-y))
      /\ B[2][1] = 2 * (x * (-y) + w * (-z))
      /\ B[2][2] = w * w - x * x + (-y) * (-y) - (-z) * (-z)
      /\ B[2][3] = 2 * ((-y) * (-z) - w * x)
      /\ B[3][1] = 2 * (x * (-z) - w * (-y))
      /\ B[3][2] = 2 * ((-y) * (-z) + w * x)
      /\ B[3][3] = w * w - x * x - (-y) * (-y) + (-z) * (-z)
  BY RotationIs
<1>4. /\ Norm(Quaternion(-x, w, -z, y)) = Norm(Quaternion(w, x, y, z))
      /\ Norm(Quaternion(w, x, -y, -z)) = Norm(Quaternion(w, x, y, z))
  BY RotationIs
<1> HIDE DEF R, A, B
<1>5. /\ A[1][1] = R[1][1]  /\ A[1][2] = R[1][2]  /\ A[1][3] = R[1][3]
      /\ A[2][1] = -R[2][1] /\ A[2][2] = -R[2][2] /\ A[2][3] = -R[2][3]
      /\ A[3][1] = -R[3][1] /\ A[3][2] = -R[3][2] /\ A[3][3] = -R[3][3]
  BY <1>1, <1>2
<1>6. /\ B[1][1] = R[1][1]  /\ B[1][2] = -R[1][2] /\ B[1][3] = -R[1][3]
      /\ B[2][1] = -R[2][1] /\ B[2][2] = R[2][2]  /\ B[2][3] = R[2][3]
      /\ B[3][1] = -R[3][1] /\ B[3][2] = R[3][2]  /\ B[3][3] = R[3][3]
  BY <1>1, <1>3
<1>7. /\ R[1][1] \in Int /\ R[1][2] \in Int /\ R[1][3] \in Int
      /\ R[2][1] \in Int /\ R[2][2] \in Int /\ R[2][3] \in Int
      /\ R[3][1] \in Int /\ R[3][2] \in Int /\ R[3][3] \in Int
  BY <1>1
<1> QED
  BY <1>4, <1>5, <1>6, <1>7 DEF R, A, B, Signs

\* What TransformLeftBone does to a bone is a reflection, of the bone's frame and its parent's.
LEMMA Reflection ==
  ASSUME NEW b \in Bones \ {Root}, NEW right \in BoneRecords, right.is = "number"
  PROVE  LET left == TransformLeftBone(right, b)
             s    == Reflected(Parent(b))
             t    == Reflected(b)
             L    == Rotation(left.orientation)
             R    == Rotation(right.orientation)
         IN /\ left.is = "number" /\ left.scale = right.scale /\ Norm(left.orientation) = Norm(right.orientation)
            /\ \A m \in 1 .. 3 : left.position[m] = s[m] * right.position[m]
            /\ \A m, n \in 1 .. 3 : L[m][n] = s[m] * R[m][n] * t[n]
<1> DEFINE q == right.orientation
           p == right.position
           left == TransformLeftBone(right, b)
<1>1. /\ q.w \in Int /\ q.x \in Int /\ q.y \in Int /\ q.z \in Int
      /\ p[1] \in Int /\ p[2] \in Int /\ p[3] \in Int
  <2>1. q \in Quaternions /\ p \in Arrays(3)
    BY DEF BoneRecords
  <2>2. \A a \in Arrays(3) : a[1] \in Int /\ a[2] \in Int /\ a[3] \in Int
    BY ArraysAre
  <2> QED
    BY <2>1, <2>2, QuaternionIs
<1>2. /\ Metacarpals = {2, 6, 11, 16, 21} /\ AuxBones = {26, 27, 28, 29, 30}
      /\ Root = 0 /\ Wrist = 1 /\ b # 0 /\ b \in Int
  BY BonesAssumption DEF Metacarpals, AuxBones, RootFingerBone, AuxBone, Root, Wrist
<1>3. PICK w \in Int, x \in Int, y \in Int, z \in Int :
        q = Quaternion(w, x, y, z) /\ q.w = w /\ q.x = x /\ q.y = y /\ q.z = z
  <2>1. q = Quaternion(q.w, q.x, q.y, q.z)
    BY QuaternionIs DEF BoneRecords
  <2> HIDE DEF q
  <2> QED
    BY <1>1, <2>1
<1> HIDE DEF q, p
<1> DEFINE R == Rotation(Quaternion(w, x, y, z))
           A == Rotation(Quaternion(-x, w, -z, y))
           B == Rotation(Quaternion(w, x, -y, -z))
<1>4. Signs(R, A, B)
  BY SignsAre
<1>5. /\ Norm(Quaternion(-x, w, -z, y)) = Norm(q) /\ Norm(Quaternion(w, x, -y, -z)) = Norm(q)
      /\ R = Rotation(q)
  BY <1>3, SignsAre
<1> HIDE DEF R, A, B
<1>6. CASE b \in Metacarpals
  <2>1. left = Bone(Quaternion(-x, w, -z, y), <<-p[1], p[2], p[3]>>, right.scale)
    BY <1>2, <1>3, <1>6 DEF TransformLeftBone, q, p
  <2>2. left.is = "number" /\ left.scale = right.scale /\ left.orientation = Quaternion(-x, w, -z, y) /\ left.position = <<-p[1], p[2], p[3]>>
    BY <2>1 DEF Bone
  <2>3. Reflected(Parent(b)) = <<-1, 1, 1>> /\ Reflected(b) = <<-1, -1, -1>>
    BY <1>2, <1>6 DEF Reflected, Parent
  <2>4. \A m, n \in 1 .. 3 : A[m][n] = <<-1, 1, 1>>[m] * R[m][n] * <<-1, -1, -1>>[n]
    BY <1>4 DEF Signs
  <2>5. \A m \in 1 .. 3 : <<-p[1], p[2], p[3]>>[m] = <<-1, 1, 1>>[m] * p[m]
    BY <1>1
  <2> QED
    BY <1>5, <2>2, <2>3, <2>4, <2>5 DEF A, q, p
<1>7. CASE b \in AuxBones \cup {Wrist}
  <2>1. left = Bone(Quaternion(w, x, -y, -z), <<-p[1], p[2], p[3]>>, right.scale)
    <3>1. b \notin Metacarpals /\ b \in Bones
      BY <1>2, <1>7
    <3> QED
      BY <1>2, <1>3, <1>7, <3>1 DEF TransformLeftBone, q, p
  <2>2. left.is = "number" /\ left.scale = right.scale /\ left.orientation = Quaternion(w, x, -y, -z) /\ left.position = <<-p[1], p[2], p[3]>>
    BY <2>1 DEF Bone
  <2>3. Reflected(Parent(b)) = <<-1, 1, 1>> /\ Reflected(b) = <<-1, 1, 1>>
    BY <1>2, <1>7 DEF Reflected, Parent
  <2>4. \A m, n \in 1 .. 3 : B[m][n] = <<-1, 1, 1>>[m] * R[m][n] * <<-1, 1, 1>>[n]
    BY <1>4 DEF Signs
  <2>5. \A m \in 1 .. 3 : <<-p[1], p[2], p[3]>>[m] = <<-1, 1, 1>>[m] * p[m]
    BY <1>1
  <2> QED
    BY <1>5, <2>2, <2>3, <2>4, <2>5 DEF B, q, p
<1>8. CASE b \notin Metacarpals /\ b \notin AuxBones \cup {Wrist}
  <2>1. left = Bone(q, <<-p[1], -p[2], -p[3]>>, right.scale)
    BY <1>2, <1>8 DEF TransformLeftBone, q, p
  <2>2. left.is = "number" /\ left.scale = right.scale /\ left.orientation = q /\ left.position = <<-p[1], -p[2], -p[3]>>
    BY <2>1 DEF Bone
  <2>3. Reflected(Parent(b)) = <<-1, -1, -1>> /\ Reflected(b) = <<-1, -1, -1>>
    BY <1>2, <1>8 DEF Reflected, Parent
  <2>4. \A m, n \in 1 .. 3 : R[m][n] = <<-1, -1, -1>>[m] * R[m][n] * <<-1, -1, -1>>[n]
    BY <1>4 DEF Signs
  <2>5. \A m \in 1 .. 3 : <<-p[1], -p[2], -p[3]>>[m] = <<-1, -1, -1>>[m] * p[m]
    BY <1>1
  <2> QED
    BY <1>5, <2>2, <2>3, <2>4, <2>5 DEF q, p
<1> QED
  BY <1>6, <1>7, <1>8

\* A transformed hand is a mirrored hand.
LEMMA TransformedIsMirrored == Mirrored => HandsAreMirrored
<1> SUFFICES ASSUME Mirrored PROVE HandsAreMirrored
  OBVIOUS
<1> SUFFICES ASSUME NEW b \in Bones \ {Root}
             PROVE  LET left  == skeleton["left"][b]
                        right == skeleton["right"][b]
                    IN /\ left.is = right.is
                       /\ right.is = "number" =>
                            /\ left.scale = right.scale
                            /\ Norm(left.orientation) = Norm(right.orientation)
                            /\ \A m \in 1 .. 3 :
                                 /\ left.position[m] = Reflected(Parent(b))[m] * right.position[m]
                                 /\ \A n \in 1 .. 3 :
                                      Rotation(left.orientation)[m][n]
                                        = Reflected(Parent(b))[m] * Rotation(right.orientation)[m][n] * Reflected(b)[n]
  BY DEF HandsAreMirrored
<1>1. /\ skeleton["right"][b] \in BoneRecords
      /\ skeleton["left"][b] = TransformLeftBone(skeleton["right"][b], b)
  BY DEF Mirrored
<1>2. CASE skeleton["right"][b].is = "number"
  <2> DEFINE right == skeleton["right"][b]
             left  == TransformLeftBone(right, b)
  <2>1. /\ left.is = "number" /\ left.scale = right.scale
        /\ Norm(left.orientation) = Norm(right.orientation)
    BY <1>1, <1>2, Reflection
  <2>2. \A m \in 1 .. 3 : left.position[m] = Reflected(Parent(b))[m] * right.position[m]
    BY <1>1, <1>2, Reflection
  <2>3. \A m, n \in 1 .. 3 :
          Rotation(left.orientation)[m][n] = Reflected(Parent(b))[m] * Rotation(right.orientation)[m][n] * Reflected(b)[n]
    BY <1>1, <1>2, Reflection
  <2>4. skeleton["left"][b] = left
    BY <1>1
  <2> HIDE DEF left
  <2> QED
    BY <1>2, <2>1, <2>2, <2>3, <2>4
<1>3. CASE skeleton["right"][b].is # "number"
  BY <1>1, <1>3 DEF TransformLeftBone
<1> QED
  BY <1>2, <1>3

\* The left hand's bones are at any time the mirror image of the right hand's, whatever the
\* model's file and the packets: TransformLeftBone (hand_tracking.cpp) is the same reflection
\* wherever a bone of the left hand is written.
THEOREM HandsMirrored == GloveSpec => []HandsAreMirrored
  BY TransformedIsMirrored, Mirroring, PTL

--------------------------------------------------------------------------------
(* What the channels make of a bone's keyframes.                               *)

\* A bone has at most one channel of rotations and one of translations.
LEMMA ChannelsAre ==
  ASSUME NEW b \in Bones
  PROVE  /\ Len(Channels[b]) \in 0 .. 2
         /\ \A n \in 1 .. Len(Channels[b]) :
              LET c == Channels[b][n]
              IN \/ c.type = "VEC4" /\ \A k \in DOMAIN KeyframeTimes : c.keyframes[k] \in Arrays(4) /\ \E m \in 1 .. 4 : c.keyframes[k][m] # 0
                 \/ c.type = "VEC3" /\ \A k \in DOMAIN KeyframeTimes : c.keyframes[k] \in Arrays(3) /\ \E m \in 1 .. 3 : c.keyframes[k][m] # 0
         /\ Len(Channels[b]) = 2 => Channels[b][1].type # Channels[b][2].type
<1> DEFINE c(n) == Channels[b][n]
           N    == Len(Channels[b])
<1>1. N \in Nat /\ DOMAIN Channels[b] = 1 .. N
  BY ModelAssumption
<1>2. ASSUME NEW n \in 1 .. N
      PROVE  \/ c(n).type = "VEC4" /\ \A k \in DOMAIN KeyframeTimes : c(n).keyframes[k] \in Arrays(4) /\ \E m \in 1 .. 4 : c(n).keyframes[k][m] # 0
             \/ c(n).type = "VEC3" /\ \A k \in DOMAIN KeyframeTimes : c(n).keyframes[k] \in Arrays(3) /\ \E m \in 1 .. 3 : c(n).keyframes[k][m] # 0
  <2>1. c(n) \in [type : {"VEC4"}, keyframes : Accessors(4)] \cup [type : {"VEC3"}, keyframes : Accessors(3)]
    <3>1. Channels[b] \in Seq([type : {"VEC4"}, keyframes : Accessors(4)] \cup [type : {"VEC3"}, keyframes : Accessors(3)])
      BY ModelAssumption
    <3> QED
      BY <3>1
  <2>2. \A k \in DOMAIN KeyframeTimes : \E m \in DOMAIN c(n).keyframes[k] : c(n).keyframes[k][m] # 0
    BY <1>1, ChannelsAssumption
  <2> HIDE DEF c
  <2>3. \A r \in [type : {"VEC4"}, keyframes : Accessors(4)] :
          r.type = "VEC4" /\ \A k \in DOMAIN KeyframeTimes : r.keyframes[k] \in Arrays(4) /\ DOMAIN r.keyframes[k] = 1 .. 4
    BY DEF Accessors, Arrays
  <2>4. \A r \in [type : {"VEC3"}, keyframes : Accessors(3)] :
          r.type = "VEC3" /\ \A k \in DOMAIN KeyframeTimes : r.keyframes[k] \in Arrays(3) /\ DOMAIN r.keyframes[k] = 1 .. 3
    BY DEF Accessors, Arrays
  <2>5. CASE c(n) \in [type : {"VEC4"}, keyframes : Accessors(4)]
    <3>1. \A k \in DOMAIN KeyframeTimes : DOMAIN c(n).keyframes[k] = 1 .. 4 /\ c(n).keyframes[k] \in Arrays(4)
      BY <2>3, <2>5
    <3> QED
      BY <2>2, <2>3, <2>5, <3>1
  <2>6. CASE c(n) \in [type : {"VEC3"}, keyframes : Accessors(3)]
    <3>1. \A k \in DOMAIN KeyframeTimes : DOMAIN c(n).keyframes[k] = 1 .. 3 /\ c(n).keyframes[k] \in Arrays(3)
      BY <2>4, <2>6
    <3> QED
      BY <2>2, <2>4, <2>6, <3>1
  <2> QED
    BY <2>1, <2>5, <2>6
<1>3. \A m, n \in 1 .. N : c(m).type = c(n).type => m = n
  BY <1>1, ChannelsAssumption
<1>4. N \in 0 .. 2
  <2> HIDE DEF c, N
  <2> SUFFICES ASSUME ~(N \in 0 .. 2) PROVE FALSE
    OBVIOUS
  <2>0. 1 \in 1 .. N /\ 2 \in 1 .. N /\ 3 \in 1 .. N
    BY <1>1
  <2>1. c(1).type \in {"VEC3", "VEC4"} /\ c(2).type \in {"VEC3", "VEC4"} /\ c(3).type \in {"VEC3", "VEC4"}
    BY <1>2, <2>0
  <2>2. c(1).type # c(2).type /\ c(1).type # c(3).type /\ c(2).type # c(3).type
    BY <1>3, <2>0
  <2> QED
    BY <2>1, <2>2
<1>5. Len(Channels[b]) = 2 => Channels[b][1].type # Channels[b][2].type
  BY <1>3
<1>6. Len(Channels[b]) \in 0 .. 2
  BY <1>4
<1> QED
  BY <1>2, <1>5, <1>6

\* Mapping a transform moves its place to and from the origin of its bone only where it was
\* there, whatever its rotation; a finger's own bones keep their rotation, but for a sign.
LEMMA MappedParts ==
  ASSUME NEW t \in Transforms, NEW b \in Bones
  PROVE  /\ \A u \in Transforms : u.translation = t.translation =>
              MapRightTransform(u, b).translation = MapRightTransform(t, b).translation
         /\ (\E m \in 1 .. 3 : t.translation[m] # 0) => MapRightTransform(t, b).translation # <<0, 0, 0>>
         /\ b \notin AuxBones \cup {Wrist} => MapRightTransform(t, b).rotation \in {t.rotation, Minus4(t.rotation)}
<1>1. /\ Wrist = 1 /\ AuxBones = {26, 27, 28, 29, 30} /\ RootFingerBone["B"] = 6 /\ AuxBone["A"] = 26
  BY DEF Wrist, AuxBones, RootFingerBone, AuxBone
<1>2. b \in Int
  BY BonesAssumption
<1>3. CASE b \in AuxBones \cup {Wrist}
  <2>1. \A u \in Transforms : MapRightTransform(u, b).translation = <<-u.translation[1], u.translation[2], -u.translation[3]>>
    <3>1. \A u, r : HalfTurned(u, r).translation = <<-u.translation[1], u.translation[2], -u.translation[3]>>
      BY DEF HalfTurned
    <3> QED
      BY <1>1, <1>2, <1>3, <3>1 DEF MapRightTransform
  <2>2. t.translation[1] \in Int /\ t.translation[2] \in Int /\ t.translation[3] \in Int
    <3>1. t.translation \in Arrays(3)
      BY DEF Transforms
    <3> QED
      BY <3>1, ArraysAre
  <2>3. \A a \in Int : -a = 0 => a = 0
    OBVIOUS
  <2>4. ASSUME <<-t.translation[1], t.translation[2], -t.translation[3]>> = <<0, 0, 0>>, NEW m \in 1 .. 3
        PROVE  t.translation[m] = 0
    BY <2>2, <2>3, <2>4
  <2> QED
    BY <1>3, <2>1, <2>4
<1>4. CASE b \notin AuxBones \cup {Wrist}
  <2>1. \A u \in Transforms : /\ MapRightTransform(u, b).translation = u.translation
                              /\ MapRightTransform(u, b).rotation \in {u.rotation, Minus4(u.rotation)}
    <3>1. \A u \in Transforms : LET v == [u EXCEPT !.rotation = Minus4(u.rotation)]
                                IN v.translation = u.translation /\ v.rotation = Minus4(u.rotation)
      BY DEF Transforms
    <3> QED
      BY <1>1, <1>2, <1>4, <3>1 DEF MapRightTransform
  <2> QED
    BY <2>1
<1> QED
  BY <1>3, <1>4

\* What a channel makes of a keyframe's transform.
Keyed(t, c, k, b) ==
  IF c.type = "VEC4" THEN [t EXCEPT !.rotation = MapRotation(c.keyframes[k])]
  ELSE MapRightTransform([t EXCEPT !.translation = c.keyframes[k]], b)

\* A channel of rotations leaves the place.
LEMMA KeyedTurns ==
  ASSUME NEW t \in Transforms, NEW c, NEW k, NEW b \in Bones, c.type = "VEC4", c.keyframes[k] \in Arrays(4)
  PROVE  /\ Keyed(t, c, k, b) \in Transforms
         /\ Keyed(t, c, k, b).rotation = MapRotation(c.keyframes[k])
         /\ Keyed(t, c, k, b).translation = t.translation
         /\ (\E m \in 1 .. 4 : c.keyframes[k][m] # 0) => Keyed(t, c, k, b).rotation # <<0, 0, 0, 0>>
<1>1. t.rotation \in Arrays(4) /\ t.translation \in Arrays(3) /\ t = [rotation |-> t.rotation, translation |-> t.translation]
  BY DEF Transforms
<1>2. MapRotation(c.keyframes[k]) \in Arrays(4)
  BY <1>1, TransformIs
<1>3. Keyed(t, c, k, b) = [rotation |-> MapRotation(c.keyframes[k]), translation |-> t.translation]
  BY <1>1 DEF Keyed
<1>4. ASSUME NEW r \in Arrays(4), MapRotation(r) = <<0, 0, 0, 0>>, NEW m \in 1 .. 4 PROVE r[m] = 0
  BY <1>4 DEF MapRotation
<1> QED
  BY <1>1, <1>2, <1>3, <1>4 DEF Transforms

\* A channel of translations makes the place that of a node there.
LEMMA KeyedMoves ==
  ASSUME NEW t \in Transforms, NEW c, NEW k, NEW b \in Bones, c.type = "VEC3", c.keyframes[k] \in Arrays(3)
  PROVE  /\ Keyed(t, c, k, b) \in Transforms
         /\ Keyed(t, c, k, b) = MapRightTransform([rotation |-> t.rotation, translation |-> c.keyframes[k]], b)
         /\ \A r \in Arrays(4) : Keyed(t, c, k, b).translation
                                   = MapRightTransform([rotation |-> r, translation |-> c.keyframes[k]], b).translation
         /\ (\E m \in 1 .. 3 : c.keyframes[k][m] # 0) => Keyed(t, c, k, b).translation # <<0, 0, 0>>
<1>1. t.rotation \in Arrays(4) /\ t.translation \in Arrays(3) /\ t = [rotation |-> t.rotation, translation |-> t.translation]
  BY DEF Transforms
<1> DEFINE u(r) == [rotation |-> r, translation |-> c.keyframes[k]]
<1>2. Keyed(t, c, k, b) = MapRightTransform(u(t.rotation), b)
  BY <1>1 DEF Keyed
<1>3. \A r \in Arrays(4) : u(r) \in Transforms /\ u(r).translation = c.keyframes[k]
  BY DEF Transforms
<1> HIDE DEF u
<1>4. MapRightTransform(u(t.rotation), b) \in Transforms
  BY <1>1, <1>3, MappedIs
<1>5. \A r \in Arrays(4) : MapRightTransform(u(t.rotation), b).translation = MapRightTransform(u(r), b).translation
  BY <1>1, <1>3, MappedParts
<1>6. (\E m \in 1 .. 3 : c.keyframes[k][m] # 0) => MapRightTransform(u(t.rotation), b).translation # <<0, 0, 0>>
  <2>1. u(t.rotation) \in Transforms /\ u(t.rotation).translation = c.keyframes[k]
    BY <1>1, <1>3
  <2>2. ASSUME NEW v \in Transforms
        PROVE  (\E m \in 1 .. 3 : v.translation[m] # 0) => MapRightTransform(v, b).translation # <<0, 0, 0>>
    BY MappedParts
  <2> QED
    BY <2>1, <2>2
<1> QED
  BY <1>2, <1>4, <1>5, <1>6 DEF u

\* A keyframe is what the bone's channels, at most two, make of an empty transform.
LEMMA KeyedByChannels ==
  ASSUME NEW b \in Bones, NEW k \in DOMAIN KeyframeTimes
  PROVE  LET c(n) == Channels[b][n]
         IN KeyframeTransforms[b][k] =
              CASE Len(Channels[b]) = 0 -> EmptyTransform
                [] Len(Channels[b]) = 1 -> Keyed(EmptyTransform, c(1), k, b)
                [] Len(Channels[b]) = 2 -> Keyed(Keyed(EmptyTransform, c(1), k, b), c(2), k, b)
<1>1. PICK g : LoadsTo(b, g, Len(Channels[b]))
  BY KeyframesLoaded
<1>2. ASSUME NEW n \in 1 .. Len(Channels[b]), n \in {1, 2} PROVE g[n][k] = Keyed(g[n - 1][k], Channels[b][n], k, b)
  <2>1. g[n] = LoadChannel(g[n - 1], Channels[b][n], b) /\ DOMAIN g[n - 1] = DOMAIN KeyframeTimes
    <3>1. n - 1 \in 0 .. Len(Channels[b]) /\ Len(Channels[b]) \in Nat
      BY <1>2, ChannelsAre
    <3>2. g[n] = LoadChannel(g[n - 1], Channels[b][n], b)
      BY <1>1 DEF LoadsTo
    <3>3. g[n - 1] \in [DOMAIN KeyframeTimes -> Transforms]
      BY <1>1, <3>1 DEF LoadsTo
    <3> QED
      BY <3>2, <3>3
  <2> QED
    BY <2>1 DEF LoadChannel, Keyed
<1>3. g[0][k] = EmptyTransform /\ KeyframeTransforms[b] = g[Len(Channels[b])]
  BY <1>1 DEF LoadsTo
<1>4. Len(Channels[b]) \in {0, 1, 2}
  <2>1. Len(Channels[b]) \in 0 .. 2
    BY ChannelsAre
  <2> QED
    BY <2>1
<1>5. CASE Len(Channels[b]) = 0
  BY <1>3, <1>5
<1>6. CASE Len(Channels[b]) = 1
  <2>1. 1 \in 1 .. Len(Channels[b]) /\ 1 - 1 = 0
    BY <1>6
  <2>2. g[1][k] = Keyed(g[0][k], Channels[b][1], k, b)
    BY <1>2, <2>1
  <2> QED
    BY <1>3, <1>6, <2>2
<1>7. CASE Len(Channels[b]) = 2
  <2>1. 1 \in 1 .. Len(Channels[b]) /\ 2 \in 1 .. Len(Channels[b]) /\ 1 - 1 = 0 /\ 2 - 1 = 1
    BY <1>7
  <2>2. g[1][k] = Keyed(g[0][k], Channels[b][1], k, b)
    BY <1>2, <2>1
  <2>3. g[2][k] = Keyed(g[1][k], Channels[b][2], k, b)
    BY <1>2, <2>1
  <2> QED
    BY <1>3, <1>7, <2>2, <2>3
<1> QED
  BY <1>4, <1>5, <1>6, <1>7

\* A bone with a channel of translations is nowhere at its parent's origin, one without always;
\* an animated bone has no empty keyframe.
LEMMA KeyframesMove ==
  ASSUME NEW b \in Bones, NEW k \in DOMAIN KeyframeTimes
  PROVE  LET s     == KeyframeTransforms[b][k]
             moved == \E n \in DOMAIN Channels[b] : Channels[b][n].type = "VEC3"
         IN /\ moved <=> s.translation # <<0, 0, 0>>
            /\ Channels[b] # <<>> => s # EmptyTransform
<1> DEFINE N     == Len(Channels[b])
           c(n)  == Channels[b][n]
           s     == KeyframeTransforms[b][k]
           moved == \E n \in DOMAIN Channels[b] : Channels[b][n].type = "VEC3"
           one   == Keyed(EmptyTransform, c(1), k, b)
           two   == Keyed(one, c(2), k, b)
<1>1. /\ N \in {0, 1, 2} /\ DOMAIN Channels[b] = 1 .. N /\ (N = 0 => Channels[b] = <<>>)
  <2>1. N \in 0 .. 2
    BY ChannelsAre
  <2>2. DOMAIN Channels[b] = 1 .. N /\ (N = 0 => Channels[b] = <<>>)
    BY ModelAssumption
  <2> QED
    BY <2>1, <2>2
<1>2. /\ (N = 0 => s = EmptyTransform) /\ (N = 1 => s = one) /\ (N = 2 => s = two)
  BY KeyedByChannels
<1>3. /\ EmptyTransform \in Transforms
      /\ EmptyTransform.rotation = <<0, 0, 0, 0>> /\ EmptyTransform.translation = <<0, 0, 0>>
  BY ArraysAre DEF EmptyTransform, Transforms
<1>4. ASSUME NEW n \in 1 .. N
      PROVE  \/ c(n).type = "VEC4" /\ c(n).keyframes[k] \in Arrays(4) /\ \E m \in 1 .. 4 : c(n).keyframes[k][m] # 0
             \/ c(n).type = "VEC3" /\ c(n).keyframes[k] \in Arrays(3) /\ \E m \in 1 .. 3 : c(n).keyframes[k][m] # 0
  BY ChannelsAre
<1>5. N = 2 => c(1).type # c(2).type
  BY ChannelsAre
<1>6. ASSUME NEW t \in Transforms, NEW n \in 1 .. N
      PROVE  /\ Keyed(t, c(n), k, b) \in Transforms
             /\ c(n).type = "VEC4" => /\ Keyed(t, c(n), k, b).rotation # <<0, 0, 0, 0>>
                                      /\ Keyed(t, c(n), k, b).translation = t.translation
             /\ c(n).type = "VEC3" => Keyed(t, c(n), k, b).translation # <<0, 0, 0>>
             /\ c(n).type \in {"VEC3", "VEC4"}
  <2> HIDE DEF c, N
  <2>1. CASE c(n).type = "VEC4" /\ c(n).keyframes[k] \in Arrays(4) /\ \E m \in 1 .. 4 : c(n).keyframes[k][m] # 0
    BY <2>1, KeyedTurns
  <2>2. CASE c(n).type = "VEC3" /\ c(n).keyframes[k] \in Arrays(3) /\ \E m \in 1 .. 3 : c(n).keyframes[k][m] # 0
    BY <2>2, KeyedMoves
  <2> QED
    BY <1>4, <2>1, <2>2
<1> HIDE DEF c, s, N
<1>7. CASE N = 0
  <2>1. ~moved
    BY <1>1, <1>7
  <2> QED
    BY <1>1, <1>2, <1>3, <1>7, <2>1 DEF s
<1>8. CASE N = 1
  <2>0. 1 .. N = {1}
    BY <1>8
  <2>1. 1 \in 1 .. N /\ (moved <=> c(1).type = "VEC3")
    BY <1>1, <2>0 DEF c
  <2>2. /\ c(1).type = "VEC4" => one.rotation # <<0, 0, 0, 0>> /\ one.translation = <<0, 0, 0>>
        /\ c(1).type = "VEC3" => one.translation # <<0, 0, 0>>
        /\ c(1).type \in {"VEC3", "VEC4"}
    BY <1>3, <1>6, <2>1
  <2> QED
    BY <1>2, <1>3, <1>8, <2>1, <2>2 DEF s
<1>9. CASE N = 2
  <2>1. 1 \in 1 .. N /\ 2 \in 1 .. N /\ 1 .. N = {1, 2}
    BY <1>9
  <2>2. /\ one \in Transforms /\ (c(1).type = "VEC3" => one.translation # <<0, 0, 0>>)
        /\ c(1).type \in {"VEC3", "VEC4"} /\ c(2).type \in {"VEC3", "VEC4"}
    BY <1>3, <1>6, <2>1
  <2>3. /\ c(2).type = "VEC4" => two.translation = one.translation
        /\ c(2).type = "VEC3" => two.translation # <<0, 0, 0>>
    BY <1>6, <2>1, <2>2
  <2>4. two.translation # <<0, 0, 0>>
    BY <1>5, <1>9, <2>2, <2>3
  <2>5. moved
    BY <1>1, <1>5, <1>9, <2>1, <2>2 DEF c
  <2> QED
    BY <1>2, <1>3, <1>9, <2>4, <2>5 DEF s
<1> QED
  BY <1>1, <1>7, <1>8, <1>9

\* A transform is another one's, but for the sign of its rotation and, for a bone that is
\* not moved, its place.
Rests(s, t) ==
  /\ s.rotation \in {t.rotation, Minus4(t.rotation)} \/ t.rotation = Minus4(s.rotation)
  /\ s.translation \in {t.translation, <<0, 0, 0>>}

\* Where an animation starts at rest, its first keyframe is the bone's node.
LEMMA FirstIsNode ==
  ASSUME NEW b \in Bones, Moving(b), StartsAtRest(b), ~TurnedLast(b)
  PROVE  Rests(KeyframeTransforms[b][1], InitialTransforms[b])
<1> DEFINE N      == Len(Channels[b])
           c(n)   == Channels[b][n]
           s      == KeyframeTransforms[b][1]
           R      == MapRotation(Nodes[b].rotation)
           P      == Nodes[b].translation
           at(r)  == [rotation |-> r, translation |-> P]
           node   == InitialTransforms[b]
           one    == Keyed(EmptyTransform, c(1), 1, b)
           two    == Keyed(one, c(2), 1, b)
<1>1. /\ N \in {0, 1, 2} /\ DOMAIN Channels[b] = 1 .. N /\ 1 \in DOMAIN KeyframeTimes
  <2>1. N \in 0 .. 2
    BY ChannelsAre
  <2>2. DOMAIN Channels[b] = 1 .. N
    BY ModelAssumption
  <2>3. 1 \in DOMAIN KeyframeTimes
    BY TimesAssumption
  <2> QED
    BY <2>1, <2>2, <2>3
<1>2. (N = 0 => s = EmptyTransform) /\ (N = 1 => s = one) /\ (N = 2 => s = two)
  BY <1>1, KeyedByChannels
<1>3. /\ EmptyTransform \in Transforms
      /\ EmptyTransform.rotation = <<0, 0, 0, 0>> /\ EmptyTransform.translation = <<0, 0, 0>>
  BY ArraysAre DEF EmptyTransform, Transforms
<1>4. R \in Arrays(4) /\ P \in Arrays(3) /\ Nodes[b].rotation \in Arrays(4) /\ <<0, 0, 0, 0>> \in Arrays(4)
  <2>1. Nodes[b].rotation \in Arrays(4) /\ P \in Arrays(3)
    BY ModelAssumption
  <2>2. <<0, 0, 0, 0>> \in Arrays(4)
    BY ArraysAre
  <2>3. R \in Arrays(4)
    BY <1>3, <2>1, TransformIs
  <2> QED
    BY <2>1, <2>2, <2>3
<1>5. node = MapRightTransform(at(R), b) /\ \A r \in Arrays(4) : at(r) \in Transforms
  BY <1>4 DEF InitialTransforms, Transforms
<1>6. ASSUME NEW n \in 1 .. N
      PROVE  \/ c(n).type = "VEC4" /\ c(n).keyframes[1] = Nodes[b].rotation
             \/ c(n).type = "VEC3" /\ c(n).keyframes[1] = P
  <2>1. c(n).type \in {"VEC3", "VEC4"}
    BY ChannelsAre
  <2> QED
    BY <1>1, <2>1 DEF StartsAtRest
<1>7. ASSUME NEW t \in Transforms, NEW n \in 1 .. N
      PROVE  /\ Keyed(t, c(n), 1, b) \in Transforms
             /\ c(n).type = "VEC4" => Keyed(t, c(n), 1, b).rotation = R /\ Keyed(t, c(n), 1, b).translation = t.translation
             /\ c(n).type = "VEC3" => /\ Keyed(t, c(n), 1, b) = MapRightTransform(at(t.rotation), b)
                                      /\ Keyed(t, c(n), 1, b).translation = node.translation
  <2> HIDE DEF N, c, node
  <2>1. CASE c(n).type = "VEC4" /\ c(n).keyframes[1] = Nodes[b].rotation
    BY <1>4, <2>1, KeyedTurns
  <2>2. CASE c(n).type = "VEC3" /\ c(n).keyframes[1] = P
    <3> HIDE DEF P, R
    <3>1. c(n).keyframes[1] \in Arrays(3) /\ c(n).type = "VEC3"
      BY <1>4, <2>2
    <3>2. /\ Keyed(t, c(n), 1, b) \in Transforms
          /\ Keyed(t, c(n), 1, b) = MapRightTransform([rotation |-> t.rotation, translation |-> c(n).keyframes[1]], b)
          /\ Keyed(t, c(n), 1, b).translation
               = MapRightTransform([rotation |-> R, translation |-> c(n).keyframes[1]], b).translation
      BY <1>4, <3>1, KeyedMoves
    <3> QED
      BY <1>5, <2>2, <3>2
  <2> QED
    BY <1>6, <2>1, <2>2
<1>8. \E n \in 1 .. N : c(n).type = "VEC4"
  BY <1>1 DEF StartsAtRest
<1>9. b # Wrist /\ (c(N).type = "VEC4" => b \notin AuxBones)
  <2>1. b # 1
    BY BonesAssumption DEF Moving, FingerOf, FingerBones, RootFingerBone, AuxBone
  <2> QED
    BY <2>1 DEF Wrist, TurnedLast
<1>10. b \notin AuxBones => node.rotation \in {R, Minus4(R)}
  <2>1. at(R) \in Transforms /\ at(R).rotation = R
    BY <1>4, <1>5
  <2> HIDE DEF at, R, node
  <2> QED
    BY <1>5, <1>9, <2>1, MappedParts
<1>11. N = 2 => c(1).type # c(2).type
  BY ChannelsAre
<1> HIDE DEF N, c, s, R, P, at, node
<1>12. CASE N = 1
  <2>1. c(1).type = "VEC4" /\ 1 \in 1 .. N
    <3>1. \A n \in 1 .. N : n = 1
      BY <1>12
    <3> QED
      BY <1>8, <1>12, <3>1
  <2>2. one.rotation = R /\ one.translation = <<0, 0, 0>>
    BY <1>3, <1>7, <2>1
  <2>3. node.rotation \in {R, Minus4(R)}
    BY <1>9, <1>10, <1>12, <2>1
  <2> QED
    BY <1>2, <1>12, <2>2, <2>3 DEF Rests, s, node
<1>13. CASE N = 2
  <2>1. 1 \in 1 .. N /\ 2 \in 1 .. N
    BY <1>13
  <2>2. one \in Transforms
    BY <1>3, <1>7, <2>1
  <2>3. CASE c(1).type = "VEC4"
    <3>1. c(2).type = "VEC3"
      BY <1>6, <1>11, <1>13, <2>1, <2>3
    <3>2. one.rotation = R
      BY <1>3, <1>7, <2>1, <2>3
    <3>3. two = MapRightTransform(at(R), b)
      BY <1>7, <2>1, <2>2, <3>1, <3>2
    <3> QED
      BY <1>2, <1>5, <1>13, <3>3 DEF Rests, s, node
  <2>4. CASE c(1).type = "VEC3"
    <3>1. c(2).type = "VEC4"
      BY <1>6, <1>11, <1>13, <2>1, <2>4
    <3>2. one.translation = node.translation
      BY <1>3, <1>7, <2>1, <2>4
    <3>3. two.rotation = R /\ two.translation = node.translation
      BY <1>7, <2>1, <2>2, <3>1, <3>2
    <3>4. node.rotation \in {R, Minus4(R)}
      BY <1>9, <1>10, <1>13, <3>1
    <3> QED
      BY <1>2, <1>13, <3>3, <3>4 DEF Rests, s, node
  <2> QED
    BY <1>6, <2>1, <2>3, <2>4
<1>14. N # 0
  BY <1>8
<1> QED
  BY <1>1, <1>12, <1>13, <1>14

--------------------------------------------------------------------------------
(* A bone follows its curl.                                                    *)

\* The keyframes' times increase.
LEMMA TimesIncrease ==
  ASSUME NEW m \in 1 .. Len(KeyframeTimes), NEW n \in 1 .. Len(KeyframeTimes), m < n
  PROVE  KeyframeTimes[m] < KeyframeTimes[n]
<1> DEFINE L == Len(KeyframeTimes)
           S == {d \in 0 .. L - m - 1 : KeyframeTimes[m] < KeyframeTimes[m + 1 + d]}
<1>1. L \in Nat /\ \A k \in 1 .. L : KeyframeTimes[k] \in Int
  BY TimesAssumption
<1>2. \A k \in 2 .. L : KeyframeTimes[k - 1] < KeyframeTimes[k]
  BY TimesAssumption
<1> HIDE DEF L
<1>3. m \in 1 .. L /\ n \in 1 .. L /\ L - m - 1 \in Nat
  BY <1>1 DEF L
<1>4. 0 \in S
  <2>1. m + 1 \in 2 .. L /\ (m + 1) - 1 = m
    BY <1>1, <1>3
  <2>2. KeyframeTimes[(m + 1) - 1] < KeyframeTimes[m + 1]
    BY <1>2, <2>1
  <2>3. m + 1 + 0 = m + 1
    BY <1>3
  <2> QED
    BY <1>3, <2>1, <2>2, <2>3
<1>5. ASSUME NEW d \in 0 .. (L - m - 1) - 1, d \in S PROVE d + 1 \in S
  <2>1. PICK k \in 2 .. L : k = m + 1 + (d + 1) /\ k - 1 = m + 1 + d
    BY <1>1, <1>3
  <2>2. KeyframeTimes[m] < KeyframeTimes[k - 1] /\ KeyframeTimes[k - 1] < KeyframeTimes[k]
    BY <1>2, <1>5, <2>1
  <2>3. KeyframeTimes[m] \in Int /\ KeyframeTimes[k - 1] \in Int /\ KeyframeTimes[k] \in Int
    BY <1>1, <1>3
  <2>4. KeyframeTimes[m] < KeyframeTimes[k]
    BY <2>2, <2>3
  <2>5. d + 1 \in 0 .. L - m - 1
    BY <1>1, <1>3
  <2> QED
    BY <2>1, <2>4, <2>5
<1> HIDE DEF S
<1>6. 0 .. L - m - 1 \subseteq S
  BY <1>3, <1>4, <1>5, UpTo
<1>7. n - m - 1 \in S /\ m + 1 + (n - m - 1) = n
  BY <1>1, <1>3, <1>6
<1> QED
  BY <1>7 DEF S

\* A curl's keyframe is the last that is not after it.
LEMMA LowerIs ==
  ASSUME NEW curl \in Int, NEW k \in 1 .. Len(KeyframeTimes), KeyframeTimes[k] <= curl,
         k < Len(KeyframeTimes) => curl < KeyframeTimes[k + 1]
  PROVE  Lower(curl) = k
<1> DEFINE L == Len(KeyframeTimes)
<1>1. L \in Nat /\ DOMAIN KeyframeTimes = 1 .. L /\ \A m \in 1 .. L : KeyframeTimes[m] \in Int
  BY TimesAssumption
<1>2. \A m, n \in 1 .. L : m < n => KeyframeTimes[m] < KeyframeTimes[n]
  BY TimesIncrease
<1>3. k \in 1 .. L /\ (k < L => curl < KeyframeTimes[k + 1])
  OBVIOUS
<1> HIDE DEF L
<1>4. ASSUME NEW m \in 1 .. L PROVE KeyframeTimes[m] <= curl <=> m \in 1 .. k
  <2>1. CASE m <= k
    <3>1. m = k \/ m < k
      BY <2>1
    <3> QED
      BY <1>1, <1>2, <1>3, <2>1, <3>1
  <2>2. CASE m > k
    <3>1. k < L /\ k + 1 \in 1 .. L /\ (m = k + 1 \/ k + 1 < m)
      BY <1>1, <1>3, <2>2
    <3>2. KeyframeTimes[k + 1] <= KeyframeTimes[m] /\ curl < KeyframeTimes[k + 1]
      BY <1>1, <1>2, <1>3, <3>1
    <3>3. curl < KeyframeTimes[m]
      BY <1>1, <3>1, <3>2
    <3> QED
      BY <1>1, <1>3, <2>2, <3>3
  <2> QED
    BY <1>1, <1>3, <2>1, <2>2
<1>5. {m \in DOMAIN KeyframeTimes : KeyframeTimes[m] <= curl} = 1 .. k
  BY <1>1, <1>3, <1>4
<1>6. Cardinality(1 .. k) = k
  BY <1>3, FS_Interval
<1> QED
  BY <1>5, <1>6 DEF Lower

\* Interpolating by part / of.
LEMMA Interpolated ==
  ASSUME NEW a \in Int, NEW e \in Int, NEW o \in Int, NEW p \in Int
  PROVE  (((o - p) * a + p * e) - o * a) * o = o * (e - a) * p
<1>1. (o - p) * a = o * a - p * a /\ o * a \in Int /\ p * a \in Int /\ p * e \in Int
  OBVIOUS
<1>2. ((o - p) * a + p * e) - o * a = p * e - p * a
  BY <1>1
<1>3. p * e - p * a = (e - a) * p
  OBVIOUS
<1>4. \A x \in Int : x * p * o = o * x * p
  OBVIOUS
<1>5. e - a \in Int
  OBVIOUS
<1> QED
  BY <1>2, <1>3, <1>4, <1>5

\* The bone made of a curl in range is where Follows says.
LEMMA BentFollows ==
  ASSUME NEW b \in Bones, Moving(b), NEW curl \in 0 .. Closed, NEW splay, NEW old
  PROVE  Follows(b, curl, old, Bent(b, curl, splay, "right"))
<1> DEFINE L     == Len(KeyframeTimes)
           T     == KeyframeTimes
           at(k) == KeyframeTransforms[b][k]
           l     == Lower(curl)
           u     == Upper(curl)
           node  == InitialTransforms[b]
           start == at(l)
           end   == at(u)
           r     == Lerp(start.rotation, end.rotation, Fraction(curl))
           t     == Lerp(start.translation, end.translation, Fraction(curl))
           n     == node.rotation
           q     == IF start.rotation # EmptyTransform.rotation
                      THEN Quaternion(r[1], r[2], r[3], r[4]) ELSE Quaternion(n[4], n[1], n[2], n[3])
           splayed == IF splay \in -MaxSplay .. MaxSplay /\ IsBoneSplayable(b) THEN Product(q, SplayTurn(splay)) ELSE q
           bone    == IF start.translation # EmptyTransform.translation
                        THEN Bone(splayed, t, Fraction(curl).of) ELSE Bone(splayed, node.translation, 1)
           moved   == \E m \in DOMAIN Channels[b] : Channels[b][m].type = "VEC3"
           bent    == Bent(b, curl, splay, "right")
<1>1. /\ L \in Nat /\ L > 1 /\ DOMAIN T = 1 .. L /\ \A k \in 1 .. L : T[k] \in Int
  BY TimesAssumption
<1>2. curl \in Nat /\ ~(curl < 0 \/ curl > Closed)
  BY ScalesAre
<1>3. bent = IF curl = T[L] /\ start # EmptyTransform THEN NotANumber ELSE bone
  BY DEF Bent, OfHand, IsNotANumber
<1>4. \A k \in 1 .. L : at(k) # EmptyTransform /\ (moved <=> at(k).translation # <<0, 0, 0>>)
  <2>1. Channels[b] # <<>>
    BY ChannelsAssumption DEF Moving
  <2> QED
    BY <1>1, <2>1, KeyframesMove
<1>5. \A k \in 1 .. L : at(k).translation \in Arrays(3)
  <2>1. \A k \in 1 .. L : at(k) \in Transforms
    BY <1>1, KeyframeTransformsAre
  <2> HIDE DEF at
  <2> QED
    BY <2>1 DEF Transforms
<1>6. node.translation \in Arrays(3)
  BY InitialTransformsAre DEF Transforms
<1>7. \A a \in Arrays(3) : a[1] \in Int /\ a[2] \in Int /\ a[3] \in Int /\ DOMAIN a = 1 .. 3
  <2>1. 1 \in 1 .. 3 /\ 2 \in 1 .. 3 /\ 3 \in 1 .. 3
    OBVIOUS
  <2> SUFFICES ASSUME NEW a \in Arrays(3) PROVE a[1] \in Int /\ a[2] \in Int /\ a[3] \in Int /\ DOMAIN a = 1 .. 3
    OBVIOUS
  <2>2. DOMAIN a = 1 .. 3 /\ \A k \in 1 .. 3 : a[k] \in Int
    BY ArraysAre
  <2> QED
    BY <2>1, <2>2
<1>8. \A k \in 1 .. L : PlaceAt(b, k) = IF moved THEN at(k).translation ELSE node.translation
  BY DEF PlaceAt
<1>9. /\ bone.is = "number" /\ NotANumber.is = "nan"
      /\ start.translation # <<0, 0, 0>> => bone.position = t /\ bone.scale = Fraction(curl).of
      /\ start.translation = <<0, 0, 0>> => bone.position = node.translation /\ bone.scale = 1
  <2> HIDE DEF splayed, start, t, node
  <2> QED
    BY DEF Bone, NotANumber, Unset, EmptyTransform
<1>10. bone # NotANumber
  BY <1>9
<1>11. \A k, m \in 1 .. L : k < m => T[k] < T[m]
  BY TimesIncrease
<1> DEFINE beyond(p)  == curl > T[L] => \A m \in 1 .. 3 : p.position[m] = p.scale * PlaceAt(b, L)[m]
           between(p) == \A k \in 1 .. L - 1 : curl \in T[k] .. T[k + 1] - 1 =>
                           \A m \in 1 .. 3 :
                             (p.position[m] - p.scale * PlaceAt(b, k)[m]) * (T[k + 1] - T[k])
                               = p.scale * (PlaceAt(b, k + 1)[m] - PlaceAt(b, k)[m]) * (curl - T[k])
<1>12. Follows(b, curl, old, bent) <=> ((bent = NotANumber) <=> (curl = T[L])) /\ beyond(bent) /\ between(bent)
  <2> HIDE DEF bent
  <2> QED
    BY <1>2 DEF Follows
<1>13. t = [m \in DOMAIN start.translation |->
             (Fraction(curl).of - Fraction(curl).part) * start.translation[m] + Fraction(curl).part * end.translation[m]]
  BY DEF Lerp
<1>14. curl >= T[L] => l = L
  <2> SUFFICES ASSUME curl >= T[L] PROVE Lower(curl) = L
    OBVIOUS
  <2>1. curl \in Int /\ L \in 1 .. L /\ T[L] <= curl
    BY <1>1, <1>2
  <2> QED
    BY <2>1, LowerIs
<1>15. u = IF l < L THEN l + 1 ELSE l
  BY DEF Upper
<1>16. Fraction(curl) = IF l = u THEN [of |-> 1, part |-> 1] ELSE [of |-> T[u] - T[l], part |-> curl - T[l]]
  BY DEF Fraction
<1>17. /\ l = u => Fraction(curl).of = 1 /\ Fraction(curl).part = 1
       /\ l # u => Fraction(curl).of = T[u] - T[l] /\ Fraction(curl).part = curl - T[l]
  BY <1>16
<1>18. L \in 1 .. L
  BY <1>1
<1>19. l \in 1 .. L => start.translation \in Arrays(3) /\ (moved <=> start.translation # <<0, 0, 0>>)
  BY <1>4, <1>5
<1>20. u \in 1 .. L => end.translation \in Arrays(3)
  BY <1>5
<1>21. (l = L => start = at(L)) /\ \A k : l = k /\ u = k + 1 => start = at(k) /\ end = at(k + 1)
  OBVIOUS
<1>22. l = u => start = end
  OBVIOUS
<1> HIDE DEF L, T, at, l, u, node, start, end, t, bone, moved, bent
<1>23. CASE curl = T[L]
  <2>1. bent = NotANumber
    BY <1>3, <1>4, <1>14, <1>18, <1>21, <1>1, <1>2, <1>23
  <2>2. ASSUME NEW k \in 1 .. L - 1, curl \in T[k] .. T[k + 1] - 1 PROVE FALSE
    <3>1. k + 1 \in 1 .. L /\ (k + 1 < L \/ k + 1 = L) /\ k \in 1 .. L
      BY <1>1
    <3>2. T[k + 1] <= T[L] /\ T[k + 1] \in Int /\ T[L] \in Int /\ T[k] \in Int
      BY <1>1, <1>11, <1>18, <3>1
    <3> QED
      BY <1>23, <2>2, <3>2
  <2>3. ~(curl > T[L])
    BY <1>1, <1>18, <1>23
  <2>4. (bent = NotANumber) <=> (curl = T[L])
    BY <1>23, <2>1
  <2>5. beyond(bent)
    BY <2>3
  <2>6. between(bent)
    BY <2>2
  <2> HIDE DEF beyond, between
  <2> QED
    BY <1>12, <2>4, <2>5, <2>6 DEF bent
<1>24. CASE curl # T[L]
  <2>1. bent = bone
    BY <1>3, <1>24
  <2>2. ASSUME curl > T[L], NEW m \in 1 .. 3 PROVE bone.position[m] = bone.scale * PlaceAt(b, L)[m]
    <3>1. l = L /\ u = L
      BY <1>1, <1>2, <1>14, <1>15, <1>18, <2>2
    <3>2. start = at(L) /\ start = end /\ Fraction(curl).of = 1 /\ Fraction(curl).part = 1
      BY <1>17, <1>21, <1>22, <3>1
    <3>3. start.translation \in Arrays(3) /\ (moved <=> start.translation # <<0, 0, 0>>)
      BY <1>18, <1>19, <3>1
    <3>4. CASE moved
      <4>1. m \in DOMAIN start.translation /\ start.translation[m] \in Int
        BY <1>7, <3>3
      <4>2. t[m] = (1 - 1) * start.translation[m] + 1 * start.translation[m]
        BY <1>13, <3>2, <4>1
      <4>3. t[m] = 1 * start.translation[m]
        BY <4>1, <4>2
      <4>4. bone.position = t /\ bone.scale = 1 /\ PlaceAt(b, L) = start.translation
        BY <1>8, <1>9, <1>18, <3>2, <3>3, <3>4
      <4> QED
        BY <4>3, <4>4
    <3>5. CASE ~moved
      <4>1. bone.position = node.translation /\ bone.scale = 1 /\ PlaceAt(b, L) = node.translation
        BY <1>8, <1>9, <1>18, <3>3, <3>5
      <4>2. node.translation[m] \in Int
        BY <1>6, <1>7
      <4> QED
        BY <4>1, <4>2
    <3> QED
      BY <3>4, <3>5
  <2>3. ASSUME NEW k \in 1 .. L - 1, curl \in T[k] .. T[k + 1] - 1, NEW m \in 1 .. 3
        PROVE  (bone.position[m] - bone.scale * PlaceAt(b, k)[m]) * (T[k + 1] - T[k])
                 = bone.scale * (PlaceAt(b, k + 1)[m] - PlaceAt(b, k)[m]) * (curl - T[k])
    <3>1. k \in 1 .. L /\ k + 1 \in 1 .. L /\ k < L /\ k # k + 1 /\ T[k] \in Int /\ T[k + 1] \in Int
          /\ T[k] <= curl /\ curl < T[k + 1] /\ curl \in Int
      BY <1>1, <1>2, <2>3
    <3>2. l = k
      BY <3>1, LowerIs DEF l, L, T
    <3>3. u = k + 1
      BY <1>15, <3>1, <3>2
    <3>4. /\ Fraction(curl).of = T[k + 1] - T[k] /\ Fraction(curl).part = curl - T[k]
          /\ start = at(k) /\ end = at(k + 1)
      BY <1>17, <1>21, <3>1, <3>2, <3>3
    <3>5. /\ start.translation \in Arrays(3) /\ end.translation \in Arrays(3)
          /\ (moved <=> start.translation # <<0, 0, 0>>)
      BY <1>19, <1>20, <3>1, <3>2, <3>3
    <3>6. CASE moved
      <4>1. m \in DOMAIN start.translation /\ start.translation[m] \in Int /\ end.translation[m] \in Int
        BY <1>7, <3>5
      <4>2. bone.position = t /\ bone.scale = T[k + 1] - T[k]
            /\ PlaceAt(b, k) = start.translation /\ PlaceAt(b, k + 1) = end.translation
        BY <1>8, <1>9, <3>1, <3>4, <3>5, <3>6
      <4>3. PICK o \in Int, p \in Int : o = T[k + 1] - T[k] /\ p = curl - T[k]
        BY <3>1
      <4>4. t[m] = (o - p) * start.translation[m] + p * end.translation[m]
        BY <1>13, <3>4, <4>1, <4>3
      <4>5. (t[m] - o * start.translation[m]) * o = o * (end.translation[m] - start.translation[m]) * p
        BY <4>1, <4>4, Interpolated
      <4> QED
        BY <4>2, <4>3, <4>5
    <3>7. CASE ~moved
      <4>1. bone.position = node.translation /\ bone.scale = 1
            /\ PlaceAt(b, k) = node.translation /\ PlaceAt(b, k + 1) = node.translation
        BY <1>8, <1>9, <3>1, <3>5, <3>7
      <4>2. node.translation[m] \in Int
        BY <1>6, <1>7
      <4>3. \A x, y, z \in Int : (x - 1 * x) * y = 1 * (x - x) * z
        OBVIOUS
      <4>4. T[k + 1] - T[k] \in Int /\ curl - T[k] \in Int
        BY <3>1
      <4> QED
        BY <4>1, <4>2, <4>3, <4>4
    <3> QED
      BY <3>6, <3>7
  <2>4. (bent = NotANumber) <=> (curl = T[L])
    BY <1>10, <1>24, <2>1
  <2>5. beyond(bone)
    BY <2>2
  <2>6. between(bone)
    BY <2>3
  <2> HIDE DEF beyond, between
  <2> QED
    BY <1>12, <2>1, <2>4, <2>5, <2>6 DEF bent
<1> QED
  BY <1>23, <1>24

--------------------------------------------------------------------------------
(* What is delivered.                                                          *)

\* An input of fingers is what its packet's map says.
Decodes == input.type = "Peripheral" => input.data = Peripheral(input_map)

\* There is none at first.
LEMMA InitDecodes == GloveInit => Decodes
  BY DEF GloveInit, Decodes

\* Only DecodePacket makes one.
LEMMA NextDecodes == Decodes /\ [GloveNext]_gloveVars => Decodes'
<1> SUFFICES ASSUME Decodes, [GloveNext]_gloveVars PROVE Decodes'
  OBVIOUS
<1>1. CASE SkipJunk \/ ParseItem
  BY <1>1 DEF SkipJunk, ParseItem, Decodes
<1>2. CASE DecodePacket
  <2>1. /\ input_map' = input_map
        /\ input' = IF Has(input_map, InfoKey) THEN DecodeInfoPacket(input_map) ELSE DecodePeripheralPacket(input_map)
    BY <1>2 DEF DecodePacket
  <2>2. DecodeInfoPacket(input_map).type # "Peripheral"
    BY DEF DecodeInfoPacket, Invalid
  <2>3. DecodePeripheralPacket(input_map).type = "Peripheral"
          => DecodePeripheralPacket(input_map).data = Peripheral(input_map)
    BY DEF DecodePeripheralPacket, Invalid
  <2> QED
    BY <2>1, <2>2, <2>3 DEF Decodes
<1>3. CASE Deliver
  BY <1>3 DEF Deliver, Decodes
<1>4. CASE Activate \/ UNCHANGED gloveVars
  BY <1>4 DEF Activate, gloveVars, decoding, Decodes
<1> QED
  BY <1>1, <1>2, <1>3, <1>4 DEF GloveNext, Decode

\* The two together.
LEMMA Delivered == GloveSpec => [](Parsed /\ Decodes)
<1>1. Parsed /\ Decodes /\ [GloveNext]_gloveVars => (Parsed /\ Decodes)'
  BY NextParsed, NextDecodes
<1>2. GloveInit => Parsed /\ Decodes
  BY InitParsed, InitDecodes
<1> QED
  BY <1>1, <1>2, PTL DEF GloveSpec

\* A packet's numbers are integers, and so is the curl of a bone that follows a finger.
LEMMA CurlIs ==
  ASSUME Parsed, NEW b \in Bones, Moving(b)
  PROVE  CurlIn(Peripheral(input_map), b) \in Int
<1> DEFINE m == input_map
           f == CHOOSE g \in FingerOf(b) : TRUE
<1>1. \A k \in DOMAIN m : m[k] \in Seq(Digits)
  BY DEF Parsed, Matches
<1>2. ASSUME NEW v \in Seq(Digits) PROVE Number(v) \in Int
  <2>1. Numbers(v) \in [0 .. Len(v) -> Nat] /\ Len(v) \in 0 .. Len(v)
    BY NumbersAre
  <2> QED
    BY <2>1 DEF Number
<1>3. ASSUME NEW g \in Fingers, NEW j \in Joints PROVE Flexion(m, g, j) \in Int
  <2>1. Default \in Int
    BY AnalogAssumption DEF Default
  <2> QED
    BY <1>1, <1>2, <2>1 DEF Flexion, Has
<1>4. \A g \in Fingers : \A j \in Joints : Peripheral(m).flexion[g][j] \in Int
  BY <1>3 DEF Peripheral
<1>5. f \in FingerOf(b)
  BY DEF Moving
<1>6. CurlIn(Peripheral(m), b) = CurlOf(Peripheral(m).flexion, f, b)
  BY DEF CurlIn
<1> HIDE DEF f, m
<1>7. f \in Fingers /\ b \in FingerBones(f)
  BY <1>5 DEF FingerOf, AuxBone, Fingers
<1>8. b # AuxBone[f] => b - RootFingerBone[f] \in 0 .. 3
  BY <1>7 DEF FingerBones
<1>9. CASE b = AuxBone[f]
  <2> DEFINE g == Peripheral(m).flexion[f]
  <2>1. g["A"] \in Int /\ g["B"] \in Int /\ g["C"] \in Int /\ g["D"] \in Int
    BY <1>4, <1>7 DEF Joints
  <2>2. CurlOf(Peripheral(m).flexion, f, b) = g["A"] + g["B"] + g["C"] + g["D"]
    BY <1>9 DEF CurlOf
  <2> HIDE DEF g
  <2> QED
    BY <1>6, <2>1, <2>2 DEF m
<1>10. CASE b # AuxBone[f]
  <2>1. RootFingerBone[f] \in Int /\ b \in Int
    BY <1>7, BonesAssumption DEF RootFingerBone, Fingers
  <2>2. PICK d \in 0 .. 3 : d = b - RootFingerBone[f]
    BY <1>8, <1>10
  <2>3. JointsInOrder[d + 1] \in Joints
    BY DEF JointsInOrder, Joints
  <2>4. CurlOf(Peripheral(m).flexion, f, b) = 4 * Peripheral(m).flexion[f][JointsInOrder[d + 1]]
    BY <1>10, <2>2 DEF CurlOf
  <2>5. Peripheral(m).flexion[f][JointsInOrder[d + 1]] \in Int
    BY <1>4, <1>7, <2>3
  <2> QED
    BY <1>6, <2>4, <2>5 DEF m
<1> QED
  BY <1>9, <1>10 DEF m

\* Deliver bends every bone of a finger at its curl.
LEMMA DeliverBends ==
  ASSUME Parsed, Decodes, [GloveNext]_gloveVars, input.type = "Peripheral", input'.type # "Peripheral",
         NEW h \in Hands, NEW b \in Bones, Moving(b)
  PROVE  /\ CurlIn(input.data, b) \in Int
         /\ skeleton'[h][b] = SetTransformForBone(skeleton[h][b], b, CurlIn(input.data, b), SplayIn(input.data, b), h)
<1>1. Deliver
  <2>1. ~(SkipJunk \/ ParseItem \/ DecodePacket)
    BY DEF SkipJunk, ParseItem, DecodePacket
  <2>2. ~(Activate \/ UNCHANGED gloveVars)
    BY DEF Activate, gloveVars, decoding
  <2> QED
    BY <2>1, <2>2 DEF GloveNext, Decode
<1>2. input.data = Peripheral(input_map)
  BY DEF Decodes
<1>3. skeleton'[h][b] = ComputeBoneTransforms(skeleton[h], input.data, h)[b]
  BY <1>1 DEF Deliver
<1>4. skeleton'[h][b] = SetTransformForBone(skeleton[h][b], b, CurlIn(input.data, b), SplayIn(input.data, b), h)
  BY <1>3 DEF ComputeBoneTransforms, Moving, CurlIn, SplayIn
<1> QED
  BY <1>2, <1>4, CurlIs

\* Whatever the model's file and the packets, a bone of the right hand goes to the place its
\* curl has between the keyframes, is lost at the last one, and stays where it is if the curl
\* is out of range: ComputeBoneTransforms (hand_tracking.cpp) on the input of every packet.
THEOREM BonesFollow == GloveSpec => BonesFollowTheCurl
<1>1. ASSUME Parsed, Decodes, [GloveNext]_gloveVars
      PROVE  \A b \in Bones :
               input.type = "Peripheral" /\ input'.type # "Peripheral" /\ Moving(b) =>
                 Follows(b, CurlIn(input.data, b), skeleton["right"][b], skeleton'["right"][b])
  <2> SUFFICES ASSUME NEW b \in Bones, input.type = "Peripheral", input'.type # "Peripheral", Moving(b)
               PROVE  Follows(b, CurlIn(input.data, b), skeleton["right"][b], skeleton'["right"][b])
    OBVIOUS
  <2> DEFINE curl  == CurlIn(input.data, b)
             splay == SplayIn(input.data, b)
             old   == skeleton["right"][b]
  <2>1. curl \in Int /\ skeleton'["right"][b] = SetTransformForBone(old, b, curl, splay, "right")
    BY <1>1, DeliverBends DEF Hands
  <2> HIDE DEF curl, splay, old
  <2>2. CASE curl \in 0 .. Closed
    <3>1. skeleton'["right"][b] = Bent(b, curl, splay, "right")
      BY <2>1, <2>2 DEF SetTransformForBone
    <3> QED
      BY <2>2, <3>1, BentFollows DEF curl, old
  <2>3. CASE curl \notin 0 .. Closed
    <3>1. skeleton'["right"][b] = old
      BY <2>1, <2>3 DEF SetTransformForBone
    <3>2. curl < 0 \/ curl > Closed
      BY <2>1, <2>3, ScalesAre
    <3>3. Follows(b, curl, old, old)
      BY <3>2 DEF Follows
    <3> QED
      BY <3>1, <3>3 DEF curl, old
  <2> QED
    BY <2>2, <2>3
<1>2. Parsed /\ Decodes /\ [GloveNext]_gloveVars
        => [\A b \in Bones :
              input.type = "Peripheral" /\ input'.type # "Peripheral" /\ Moving(b) =>
                Follows(b, CurlIn(input.data, b), skeleton["right"][b], skeleton'["right"][b])]_gloveVars
  BY <1>1
<1> QED
  BY <1>2, Delivered, PTL DEF GloveSpec, BonesFollowTheCurl

--------------------------------------------------------------------------------
(* An open hand.                                                               *)

\* A quaternion as long as one likes turns alike.
LEMMA SameTurn ==
  ASSUME NEW d \in Int, NEW w \in Int, NEW x \in Int, NEW y \in Int, NEW z \in Int
  PROVE  SameRotation(Quaternion(d * w, d * x, d * y, d * z), Quaternion(w, x, y, z))
<1> DEFINE R == Rotation(Quaternion(w, x, y, z))
           S == Rotation(Quaternion(d * w, d * x, d * y, d * z))
<1>1. PICK e \in Int, ww \in Int, xx \in Int, yy \in Int, zz \in Int, wx \in Int, wy \in Int, wz \in Int,
           xy \in Int, xz \in Int, yz \in Int :
        /\ e = d * d
        /\ ww = w * w /\ xx = x * x /\ yy = y * y /\ zz = z * z /\ wx = w * x /\ wy = w * y /\ wz = w * z
        /\ xy = x * y /\ xz = x * z /\ yz = y * z
  OBVIOUS
<1>2. \A a, b \in Int : (d * a) * (d * b) = (d * d) * (a * b)
  OBVIOUS
<1>3. /\ (d * w) * (d * w) = e * ww /\ (d * x) * (d * x) = e * xx
      /\ (d * y) * (d * y) = e * yy /\ (d * z) * (d * z) = e * zz
      /\ (d * w) * (d * x) = e * wx /\ (d * w) * (d * y) = e * wy /\ (d * w) * (d * z) = e * wz
      /\ (d * x) * (d * y) = e * xy /\ (d * x) * (d * z) = e * xz /\ (d * y) * (d * z) = e * yz
  BY <1>1, <1>2
<1>4. /\ Norm(Quaternion(w, x, y, z)) = ww + xx + yy + zz
      /\ R[1][1] = ww + xx - yy - zz
      /\ R[1][2] = 2 * (xy - wz)
      /\ R[1][3] = 2 * (xz + wy)
      /\ R[2][1] = 2 * (xy + wz)
      /\ R[2][2] = ww - xx + yy - zz
      /\ R[2][3] = 2 * (yz - wx)
      /\ R[3][1] = 2 * (xz - wy)
      /\ R[3][2] = 2 * (yz + wx)
      /\ R[3][3] = ww - xx - yy + zz
  BY <1>1, RotationIs
<1>5. /\ Norm(Quaternion(d * w, d * x, d * y, d * z)) = e * ww + e * xx + e * yy + e * zz
      /\ S[1][1] = e * ww + e * xx - e * yy - e * zz
      /\ S[1][2] = 2 * (e * xy - e * wz)
      /\ S[1][3] = 2 * (e * xz + e * wy)
      /\ S[2][1] = 2 * (e * xy + e * wz)
      /\ S[2][2] = e * ww - e * xx + e * yy - e * zz
      /\ S[2][3] = 2 * (e * yz - e * wx)
      /\ S[3][1] = 2 * (e * xz - e * wy)
      /\ S[3][2] = 2 * (e * yz + e * wx)
      /\ S[3][3] = e * ww - e * xx - e * yy + e * zz
  <2>1. PICK W, X, Y, Z : W = d * w /\ X = d * x /\ Y = d * y /\ Z = d * z
    OBVIOUS
  <2>2. /\ W * W = e * ww /\ X * X = e * xx /\ Y * Y = e * yy /\ Z * Z = e * zz
        /\ W * X = e * wx /\ W * Y = e * wy /\ W * Z = e * wz
        /\ X * Y = e * xy /\ X * Z = e * xz /\ Y * Z = e * yz
    BY <1>3, <2>1
  <2>3. S = Rotation(Quaternion(W, X, Y, Z))
        /\ Norm(Quaternion(d * w, d * x, d * y, d * z)) = Norm(Quaternion(W, X, Y, Z))
    BY <2>1
  <2> HIDE DEF S
  <2> QED
    BY <2>2, <2>3, RotationIs
<1> DEFINE P == Norm(Quaternion(d * w, d * x, d * y, d * z))
           Q == Norm(Quaternion(w, x, y, z))
<1> HIDE DEF R, S, P, Q
<1>6. P = e * Q /\ Q \in Int
  BY <1>4, <1>5 DEF P, Q
<1>7. ASSUME NEW m \in 1 .. 3, NEW n \in 1 .. 3 PROVE S[m][n] = e * R[m][n] /\ R[m][n] \in Int
  <2>1. /\ S[1][1] = e * R[1][1] /\ S[1][2] = e * R[1][2] /\ S[1][3] = e * R[1][3]
        /\ R[1][1] \in Int /\ R[1][2] \in Int /\ R[1][3] \in Int
    BY <1>4, <1>5
  <2>2. /\ S[2][1] = e * R[2][1] /\ S[2][2] = e * R[2][2] /\ S[2][3] = e * R[2][3]
        /\ R[2][1] \in Int /\ R[2][2] \in Int /\ R[2][3] \in Int
    BY <1>4, <1>5
  <2>3. /\ S[3][1] = e * R[3][1] /\ S[3][2] = e * R[3][2] /\ S[3][3] = e * R[3][3]
        /\ R[3][1] \in Int /\ R[3][2] \in Int /\ R[3][3] \in Int
    BY <1>4, <1>5
  <2>4. m \in {1, 2, 3} /\ n \in {1, 2, 3}
    OBVIOUS
  <2> QED
    BY <2>1, <2>2, <2>3, <2>4
<1>8. \A r, q \in Int : (e * r) * q = r * (e * q)
  OBVIOUS
<1>9. \A m, n \in 1 .. 3 : S[m][n] * Q = R[m][n] * P
  BY <1>6, <1>7, <1>8
<1> QED
  BY <1>9 DEF SameRotation, R, S, P, Q

\* A quaternion has the direction of another.
Along(q, r) ==
  \E d, w, x, y, z \in Int : r = Quaternion(w, x, y, z) /\ q = Quaternion(d * w, d * x, d * y, d * z)

\* A bone is another one but for its scale and the length of its quaternion.
Grown(bone, default) ==
  /\ bone.is = "number" /\ default.is = "number" /\ bone.scale \in Int
  /\ \A m \in 1 .. 3 : default.position[m] \in Int /\ bone.position[m] = bone.scale * default.position[m]
  /\ Along(bone.orientation, default.orientation)

\* Then it looks like it.
LEMMA GrownAlike == \A bone, default : Grown(bone, default) => Alike(bone, default)
<1> SUFFICES ASSUME NEW bone, NEW default, Grown(bone, default) PROVE Alike(bone, default)
  OBVIOUS
<1>1. PICK d \in Int, w \in Int, x \in Int, y \in Int, z \in Int :
        default.orientation = Quaternion(w, x, y, z) /\ bone.orientation = Quaternion(d * w, d * x, d * y, d * z)
  BY DEF Grown, Along
<1>2. SameRotation(bone.orientation, default.orientation)
  BY <1>1, SameTurn
<1>3. \A m \in 1 .. 3 : bone.position[m] = bone.scale * default.position[m]
  BY DEF Grown
<1> QED
  BY <1>2, <1>3 DEF Alike

\* A bone of a hand is not one of the palm's and of the auxiliary ones too.
LEMMA Disjoint == \A b \in Metacarpals : b \notin AuxBones \cup {Wrist}
<1>1. Metacarpals = {2, 6, 11, 16, 21} /\ AuxBones = {26, 27, 28, 29, 30} /\ Wrist = 1
  BY DEF Metacarpals, AuxBones, RootFingerBone, AuxBone, Wrist
<1> QED
  BY <1>1

\* And so do both in the left hand.
LEMMA GrownLeft ==
  ASSUME NEW bone, NEW default, Grown(bone, default), NEW b
  PROVE  Grown(TransformLeftBone(bone, b), TransformLeftBone(default, b))
<1>1. PICK d \in Int, w \in Int, x \in Int, y \in Int, z \in Int :
        default.orientation = Quaternion(w, x, y, z) /\ bone.orientation = Quaternion(d * w, d * x, d * y, d * z)
  BY DEF Grown, Along
<1> DEFINE p == bone.position
           P == default.position
           c == bone.scale
           Left(q, s, e)   == Bone(q, <<-s[1], s[2], s[3]>>, e)
           Inside(q, s, e) == Bone(q, <<-s[1], -s[2], -s[3]>>, e)
<1>2. /\ bone.is = "number" /\ default.is = "number" /\ c \in Int
      /\ \A m \in 1 .. 3 : P[m] \in Int /\ p[m] = c * P[m]
  BY DEF Grown
<1>3. /\ Quaternion(w, x, y, z).w = w /\ Quaternion(w, x, y, z).x = x
      /\ Quaternion(w, x, y, z).y = y /\ Quaternion(w, x, y, z).z = z
      /\ Quaternion(d * w, d * x, d * y, d * z).w = d * w /\ Quaternion(d * w, d * x, d * y, d * z).x = d * x
      /\ Quaternion(d * w, d * x, d * y, d * z).y = d * y /\ Quaternion(d * w, d * x, d * y, d * z).z = d * z
  BY DEF Quaternion
<1>4. /\ -(d * x) = d * (-x) /\ -(d * y) = d * (-y) /\ -(d * z) = d * (-z)
      /\ -x \in Int /\ -y \in Int /\ -z \in Int
  OBVIOUS
<1>5. \A a \in Int : -(c * a) = c * (-a) /\ -a \in Int
  BY <1>2
<1>6. /\ P[1] \in Int /\ P[2] \in Int /\ P[3] \in Int
      /\ p[1] = c * P[1] /\ p[2] = c * P[2] /\ p[3] = c * P[3]
  BY <1>2
<1>7. ASSUME NEW q, NEW r, NEW e, Along(q, r)
      PROVE  Grown(Left(q, p, c), Left(r, P, e)) /\ Grown(Inside(q, p, c), Inside(r, P, e))
  <2> HIDE DEF p, P, c
  <2>1. /\ -p[1] = c * (-P[1]) /\ -p[2] = c * (-P[2]) /\ -p[3] = c * (-P[3])
        /\ -P[1] \in Int /\ -P[2] \in Int /\ -P[3] \in Int
    BY <1>5, <1>6
  <2>2. \A m \in 1 .. 3 : /\ <<-P[1], P[2], P[3]>>[m] \in Int /\ <<-P[1], -P[2], -P[3]>>[m] \in Int
                          /\ <<-p[1], p[2], p[3]>>[m] = c * <<-P[1], P[2], P[3]>>[m]
                          /\ <<-p[1], -p[2], -p[3]>>[m] = c * <<-P[1], -P[2], -P[3]>>[m]
    BY <1>6, <2>1
  <2>3. \A u, v, k : Bone(u, v, k).is = "number" /\ Bone(u, v, k).orientation = u
                     /\ Bone(u, v, k).position = v /\ Bone(u, v, k).scale = k
    BY DEF Bone
  <2>4. ASSUME NEW u, NEW v, \A m \in 1 .. 3 : v[m] \in Int /\ u[m] = c * v[m]
        PROVE  Grown(Bone(q, u, c), Bone(r, v, e))
    BY <1>2, <1>7, <2>3, <2>4 DEF Grown
  <2> QED
    BY <2>2, <2>4
<1> HIDE DEF p, P, c
<1>8. CASE b = Root
  BY <1>8 DEF TransformLeftBone
<1>9. CASE b # Root /\ b \in Metacarpals
  <2>1. /\ TransformLeftBone(bone, b) = Left(Quaternion(-(d * x), d * w, -(d * z), d * y), p, c)
        /\ TransformLeftBone(default, b) = Left(Quaternion(-x, w, -z, y), P, default.scale)
    BY <1>1, <1>2, <1>3, <1>9, Disjoint DEF TransformLeftBone, p, P, c
  <2> HIDE DEF Left, Inside
  <2> QED
    BY <1>4, <1>7, <2>1 DEF Along
<1>10. CASE b # Root /\ b \in AuxBones \cup {Wrist}
  <2>1. /\ TransformLeftBone(bone, b) = Left(Quaternion(d * w, d * x, -(d * y), -(d * z)), p, c)
        /\ TransformLeftBone(default, b) = Left(Quaternion(w, x, -y, -z), P, default.scale)
    BY <1>1, <1>2, <1>3, <1>10, Disjoint DEF TransformLeftBone, p, P, c
  <2> HIDE DEF Left, Inside
  <2> QED
    BY <1>4, <1>7, <2>1 DEF Along
<1>11. CASE b # Root /\ b \notin Metacarpals /\ b \notin AuxBones \cup {Wrist}
  <2>1. /\ TransformLeftBone(bone, b) = Inside(Quaternion(d * w, d * x, d * y, d * z), p, c)
        /\ TransformLeftBone(default, b) = Inside(Quaternion(w, x, y, z), P, default.scale)
    BY <1>1, <1>2, <1>11 DEF TransformLeftBone, p, P, c
  <2> HIDE DEF Left, Inside
  <2> QED
    BY <1>7, <2>1 DEF Along
<1> QED
  BY <1>8, <1>9, <1>10, <1>11

\* Turned by a splay of zero, a quaternion is the same.
LEMMA Unsplayed ==
  ASSUME NEW q \in Quaternions
  PROVE  Product(q, SplayTurn(0)) = q
<1>1. q.w \in Int /\ q.x \in Int /\ q.y \in Int /\ q.z \in Int /\ q = Quaternion(q.w, q.x, q.y, q.z)
  BY QuaternionIs
<1>2. Quaternion(1, 0, 0, 0) \in Quaternions /\ SplayTurn(0) = Quaternion(1, 0, 0, 0)
  BY QuaternionIs DEF SplayTurn
<1>3. LET o == Quaternion(1, 0, 0, 0) IN o.w = 1 /\ o.x = 0 /\ o.y = 0 /\ o.z = 0
  BY DEF Quaternion
<1> DEFINE o == Quaternion(1, 0, 0, 0)
<1>4. Product(q, o) = Quaternion(q.w * o.w - q.x * o.x - q.y * o.y - q.z * o.z,
                                 q.w * o.x + q.x * o.w + q.y * o.z - q.z * o.y,
                                 q.w * o.y - q.x * o.z + q.y * o.w + q.z * o.x,
                                 q.w * o.z + q.x * o.y - q.y * o.x + q.z * o.w)
  <2>1. <<q, o>> \in Quaternions \X Quaternions
    BY <1>2
  <2> HIDE DEF o
  <2> QED
    BY <2>1 DEF Product, Multiplied
<1> HIDE DEF o
<1>5. o.w = 1 /\ o.x = 0 /\ o.y = 0 /\ o.z = 0
  BY <1>3 DEF o
<1>6. /\ q.w * o.w - q.x * o.x - q.y * o.y - q.z * o.z = q.w
      /\ q.w * o.x + q.x * o.w + q.y * o.z - q.z * o.y = q.x
      /\ q.w * o.y - q.x * o.z + q.y * o.w + q.z * o.x = q.y
      /\ q.w * o.z + q.x * o.y - q.y * o.x + q.z * o.w = q.z
  BY <1>1, <1>5
<1> QED
  BY <1>1, <1>2, <1>4, <1>6 DEF o

\* A curl of zero is at the first keyframe.
LEMMA OpenKeyframe ==
  /\ Lower(0) = 1 /\ ~IsNotANumber(0)
  /\ Fraction(0).of \in Nat \ {0} /\ Fraction(0).part = 0
<1> DEFINE L == Len(KeyframeTimes)
<1>1. L \in Nat /\ L > 1 /\ KeyframeTimes[1] = 0 /\ \A k \in 1 .. L : KeyframeTimes[k] \in Int
  BY TimesAssumption
<1> HIDE DEF L
<1>2. 1 \in 1 .. L /\ 2 \in 1 .. L /\ L \in 1 .. L /\ 1 + 1 = 2
  BY <1>1
<1>3. KeyframeTimes[1] < KeyframeTimes[2] /\ KeyframeTimes[1] < KeyframeTimes[L]
  BY <1>1, <1>2, TimesIncrease DEF L
<1>4. Lower(0) = 1
  BY <1>1, <1>2, <1>3, LowerIs DEF L
<1>5. Upper(0) = 2
  BY <1>1, <1>2, <1>4 DEF Upper, L
<1>6. Fraction(0) = [of |-> KeyframeTimes[2] - KeyframeTimes[1], part |-> 0 - KeyframeTimes[1]]
  BY <1>4, <1>5 DEF Fraction
<1>7. Fraction(0).of = KeyframeTimes[2] - KeyframeTimes[1] /\ Fraction(0).part = 0 - KeyframeTimes[1]
  BY <1>6
<1>8. Fraction(0).of \in Nat \ {0} /\ Fraction(0).part = 0
  BY <1>1, <1>2, <1>3, <1>7
<1>9. ~IsNotANumber(0)
  BY <1>1, <1>2, <1>3 DEF IsNotANumber, L
<1> QED
  BY <1>4, <1>8, <1>9

\* At no part of the way to the next keyframe the first one is only scaled.
LEMMA LerpAtStart ==
  ASSUME NEW k \in Nat, NEW a \in Arrays(k), NEW b \in Arrays(k), NEW f, f.of \in Int, f.part = 0
  PROVE  \A m \in 1 .. k : Lerp(a, b, f)[m] = f.of * a[m]
<1> SUFFICES ASSUME NEW m \in 1 .. k PROVE Lerp(a, b, f)[m] = f.of * a[m]
  OBVIOUS
<1>1. m \in DOMAIN a /\ a[m] \in Int /\ b[m] \in Int
  BY ArraysAre
<1>2. Lerp(a, b, f)[m] = (f.of - f.part) * a[m] + f.part * b[m]
  BY <1>1 DEF Lerp
<1>3. \A x, y, o \in Int : (o - 0) * x + 0 * y = o * x
  OBVIOUS
<1> QED
  BY <1>1, <1>2, <1>3

\* The default bone of the right hand.
DefaultBone(b) ==
  LET r == InitialTransforms[b].rotation
  IN Bone(Quaternion(r[1], r[2], r[3], r[4]), InitialTransforms[b].translation, 1)

\* An open and unsplayed bone, at rest in the first keyframe, is its node grown.
LEMMA OpenIsGrown ==
  ASSUME NEW b \in Bones, Moving(b), StartsAtRest(b), ~TurnedLast(b),
         NEW splay, IsBoneSplayable(b) => splay = 0
  PROVE  Grown(Bent(b, 0, splay, "right"), DefaultBone(b))
<1> DEFINE node  == InitialTransforms[b]
           start == KeyframeTransforms[b][Lower(0)]
           end   == KeyframeTransforms[b][Upper(0)]
           of    == Fraction(0).of
           r     == Lerp(start.rotation, end.rotation, Fraction(0))
           t     == Lerp(start.translation, end.translation, Fraction(0))
           n     == node.rotation
           s     == start.rotation
           q     == IF start.rotation # EmptyTransform.rotation
                      THEN Quaternion(r[1], r[2], r[3], r[4]) ELSE Quaternion(n[4], n[1], n[2], n[3])
           splayed == IF splay \in -MaxSplay .. MaxSplay /\ IsBoneSplayable(b) THEN Product(q, SplayTurn(splay)) ELSE q
           bone    == IF start.translation # EmptyTransform.translation
                        THEN Bone(splayed, t, of) ELSE Bone(splayed, node.translation, 1)
<1>1. Bent(b, 0, splay, "right") = bone
  BY OpenKeyframe DEF Bent, OfHand
<1>2. of \in Int /\ Fraction(0).part = 0
  BY OpenKeyframe
<1>3. /\ start.rotation \in Arrays(4) /\ end.rotation \in Arrays(4) /\ n \in Arrays(4)
      /\ start.translation \in Arrays(3) /\ end.translation \in Arrays(3) /\ node.translation \in Arrays(3)
  <2>1. 0 \in 0 .. Closed
    BY ScalesAre
  <2> QED
    BY <2>1, BetweenTransforms
<1>4. /\ s \in {n, Minus4(n)} \/ n = Minus4(s)
      /\ start.translation \in {node.translation, <<0, 0, 0>>}
  BY FirstIsNode, OpenKeyframe DEF Rests
<1>5. DefaultBone(b) = Bone(Quaternion(n[1], n[2], n[3], n[4]), node.translation, 1)
  BY DEF DefaultBone
<1>6. EmptyTransform.rotation = <<0, 0, 0, 0>> /\ EmptyTransform.translation = <<0, 0, 0>>
  BY DEF EmptyTransform
<1> HIDE DEF node, start, end, of
<1>7. \A m \in 1 .. 4 : r[m] = of * s[m]
  BY <1>2, <1>3, LerpAtStart DEF of
<1>8. \A m \in 1 .. 3 : t[m] = of * start.translation[m]
  BY <1>2, <1>3, LerpAtStart DEF of
<1>9. \A m \in 1 .. 4 : s[m] \in Int /\ n[m] \in Int
  BY <1>3, ArraysAre
<1> HIDE DEF r, t, n, s
<1>10. /\ 1 \in 1 .. 4 /\ 2 \in 1 .. 4 /\ 3 \in 1 .. 4 /\ 4 \in 1 .. 4
  OBVIOUS
<1>11. PICK g \in {1, -1} : \A m \in 1 .. 4 : s[m] = g * n[m]
  <2>1. CASE s = n
    <3>1. \A m \in 1 .. 4 : s[m] = 1 * n[m]
      BY <1>9, <2>1
    <3> QED
      BY <3>1
  <2>2. CASE s = Minus4(n) \/ n = Minus4(s)
    <3>1. \A m \in 1 .. 4 : s[m] = -n[m] \/ n[m] = -s[m]
      BY <2>2 DEF Minus4
    <3>2. \A m \in 1 .. 4 : s[m] = (-1) * n[m]
      BY <1>9, <3>1
    <3> QED
      BY <3>2
  <2> QED
    BY <1>4, <2>1, <2>2
<1>12. /\ q \in Quaternions
       /\ Along(q, Quaternion(n[1], n[2], n[3], n[4]))
  <2>1. CASE start.rotation # <<0, 0, 0, 0>>
    <3>1. q = Quaternion(r[1], r[2], r[3], r[4])
      BY <1>6, <2>1
    <3>2. PICK d \in Int : d = of * g
      BY <1>2
    <3>3. ASSUME NEW m \in 1 .. 4 PROVE r[m] = d * n[m] /\ r[m] \in Int
      <4>1. r[m] = of * (g * n[m])
        BY <1>7, <1>11
      <4>2. \A x, y, z \in Int : x * (y * z) = (x * y) * z /\ (x * y) * z \in Int
        OBVIOUS
      <4> QED
        BY <1>2, <1>9, <3>2, <4>1, <4>2
    <3>4. q = Quaternion(d * n[1], d * n[2], d * n[3], d * n[4])
      BY <1>10, <3>1, <3>3
    <3>5. q \in Quaternions
      <4>1. r[1] \in Int /\ r[2] \in Int /\ r[3] \in Int /\ r[4] \in Int
        BY <1>10, <3>3
      <4> HIDE DEF q
      <4> QED
        BY <3>1, <4>1, QuaternionIs
    <3>6. n[1] \in Int /\ n[2] \in Int /\ n[3] \in Int /\ n[4] \in Int
      BY <1>9, <1>10
    <3> QED
      BY <3>4, <3>5, <3>6 DEF Along
  <2>2. CASE start.rotation = <<0, 0, 0, 0>>
    <3>1. \A m \in 1 .. 4 : n[m] = 0
      <4>1. \A m \in 1 .. 4 : s[m] = 0
        BY <2>2 DEF s
      <4> QED
        BY <1>9, <1>11, <4>1
    <3>2. q = Quaternion(n[4], n[1], n[2], n[3])
      BY <1>6, <2>2
    <3>3. ASSUME NEW m \in 1 .. 4 PROVE 1 * n[m] = n[4] /\ n[m] \in Int /\ n[m] = n[4]
      BY <1>10, <3>1
    <3>4. n[1] \in Int /\ n[2] \in Int /\ n[3] \in Int /\ n[4] \in Int
      BY <1>10, <3>3
    <3>5. PICK d \in Int : q = Quaternion(d * n[1], d * n[2], d * n[3], d * n[4])
      BY <1>10, <3>2, <3>3
    <3> HIDE DEF q
    <3>6. q \in Quaternions
      BY <3>2, <3>4, QuaternionIs
    <3> QED
      BY <3>4, <3>5, <3>6 DEF Along
  <2> QED
    BY <2>1, <2>2
<1> HIDE DEF q
<1>13. splayed = q
  BY <1>12, Unsplayed
<1> HIDE DEF splayed
<1>14. \A u, v, k : /\ Bone(u, v, k).is = "number" /\ Bone(u, v, k).orientation = u
                    /\ Bone(u, v, k).position = v /\ Bone(u, v, k).scale = k
  BY DEF Bone
<1>15. \A m \in 1 .. 3 : node.translation[m] \in Int
  BY <1>3, ArraysAre
<1>16. CASE start.translation # <<0, 0, 0>>
  <2>1. bone = Bone(q, t, of) /\ start.translation = node.translation
    BY <1>4, <1>6, <1>13, <1>16
  <2>2. \A m \in 1 .. 3 : t[m] = of * node.translation[m]
    BY <1>8, <2>1
  <2> HIDE DEF bone
  <2> QED
    BY <1>1, <1>2, <1>5, <1>12, <1>14, <1>15, <2>1, <2>2 DEF Grown
<1>17. CASE start.translation = <<0, 0, 0>>
  <2>1. bone = Bone(q, node.translation, 1)
    BY <1>6, <1>13, <1>17
  <2>2. \A m \in 1 .. 3 : node.translation[m] = 1 * node.translation[m]
    BY <1>15
  <2> HIDE DEF bone
  <2> QED
    BY <1>1, <1>5, <1>12, <1>14, <1>15, <2>1, <2>2 DEF Grown
<1> QED
  BY <1>16, <1>17

\* Whatever the model's file, a hand reported open and unsplayed looks like the default one
\* wherever the animation starts at rest: keyframes and nodes go through the same
\* MapRightTransform (hand_tracking.cpp), but for the auxiliary bones turned last.
THEOREM OpenHandRests == GloveSpec => OpenHandIsTheDefault
<1>1. ASSUME Parsed, Decodes, [GloveNext]_gloveVars
      PROVE  \A h \in Hands, b \in Bones :
               /\ input.type = "Peripheral" /\ input'.type # "Peripheral"
               /\ Moving(b) /\ StartsAtRest(b) /\ ~TurnedLast(b)
               /\ CurlIn(input.data, b) = 0 /\ (IsBoneSplayable(b) => SplayIn(input.data, b) = 0)
               => Alike(skeleton'[h][b], LoadDefaultSkeletonByHand(h)[b])
  <2> SUFFICES ASSUME NEW h \in Hands, NEW b \in Bones, input.type = "Peripheral", input'.type # "Peripheral",
                      Moving(b), StartsAtRest(b), ~TurnedLast(b),
                      CurlIn(input.data, b) = 0, IsBoneSplayable(b) => SplayIn(input.data, b) = 0
               PROVE  Alike(skeleton'[h][b], LoadDefaultSkeletonByHand(h)[b])
    OBVIOUS
  <2> DEFINE splay == SplayIn(input.data, b)
             right == Bent(b, 0, splay, "right")
  <2>1. 0 \in 0 .. Closed
    BY ScalesAre
  <2>2. skeleton'[h][b] = Bent(b, 0, splay, h)
    BY <1>1, <2>1, DeliverBends DEF SetTransformForBone
  <2>3. Grown(right, DefaultBone(b))
    BY OpenIsGrown
  <2>4. LoadDefaultSkeletonByHand(h)[b] = OfHand(h, DefaultBone(b), b)
    BY DEF LoadDefaultSkeletonByHand, DefaultBone
  <2>5. CASE h = "left"
    <3>1. skeleton'[h][b] = TransformLeftBone(right, b)
      BY <2>1, <2>2, <2>5, BentIs
    <3>2. Grown(skeleton'[h][b], LoadDefaultSkeletonByHand(h)[b])
      BY <2>3, <2>4, <2>5, <3>1, GrownLeft DEF OfHand
    <3> QED
      BY <3>2, GrownAlike
  <2>6. CASE h = "right"
    <3>1. Grown(skeleton'[h][b], LoadDefaultSkeletonByHand(h)[b])
      BY <2>2, <2>3, <2>4, <2>6 DEF OfHand
    <3> QED
      BY <3>1, GrownAlike
  <2> QED
    BY <2>5, <2>6 DEF Hands
<1>2. Parsed /\ Decodes /\ [GloveNext]_gloveVars
        => [\A h \in Hands, b \in Bones :
              /\ input.type = "Peripheral" /\ input'.type # "Peripheral"
              /\ Moving(b) /\ StartsAtRest(b) /\ ~TurnedLast(b)
              /\ CurlIn(input.data, b) = 0 /\ (IsBoneSplayable(b) => SplayIn(input.data, b) = 0)
              => Alike(skeleton'[h][b], LoadDefaultSkeletonByHand(h)[b])]_gloveVars
  BY <1>1
<1> QED
  BY <1>2, Delivered, PTL DEF GloveSpec, OpenHandIsTheDefault

================================================================================
