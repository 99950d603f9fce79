-------------------------- MODULE DriverSettingsProofs -------------------------
(* Machine-checked proofs about DriverSettings, for any workers and bodies and *)
(* any number of requests and saves.                                           *)
EXTENDS DriverSettings, TLAPS

--------------------------------------------------------------------------------
(* The inductive invariant.                                                    *)

\* A task that reads has seen every setting as it is now, one that does not has read
\* nothing.
Watches(t) ==
  /\ op[t] \in Reads => \A o \in Options : settings[o] \in seen[t][o]
  /\ op[t] \notin Reads => got[t] = <<>>

\* The calls of b that change setting o: those before the first refused item.
Changes(c, o) == c[2] \in {"set", "remove"} /\ o \in Named(c[1])
Active(b, o)  == {i \in 1..Len(b) : Changes(b[i], o) /\ \A j \in 1..i : b[j][2] # "refused"}

\* A writer changes each setting once at most, and what it has yet to change is all
\* that the settings lack of what is expected.
Owes(b) ==
  /\ \A o \in Options : \A i, j \in 1..Len(b) : Changes(b[i], o) /\ Changes(b[j], o) => i = j
  /\ \A o \in Options : /\ \A i \in Active(b, o) : expected[o] = b[i][3]
                        /\ Active(b, o) = {} => expected[o] = settings[o]
Serial ==
  ~overlapped =>
    /\ \A t, u \in Threads : op[t] \in Writes /\ op[u] \in Writes => t = u
    /\ \A t \in Threads : op[t] \in Writes => Owes(todo[t])
    /\ (\A t \in Threads : op[t] \notin Writes) => settings = expected

IInv == TypeOK /\ (\A t \in Threads : Watches(t)) /\ AnswersAreCurrent /\ Serial

--------------------------------------------------------------------------------
(* The calls.                                                                  *)

LEMMA CallFacts ==
  ASSUME NEW c \in Calls
  PROVE  /\ c[2] = "get" => c[1] \in Options
         /\ c[2] \in {"set", "remove"} => c[3] \in Values
         /\ c[2] \in {"set", "refused", "skipped"} => c[1] \in Options
BY DEF Calls, Items, Values, Default

LEMMA ItemsAreCalls == Items \subseteq Calls
BY DEF Calls

LEMMA OrdersAreCalls ==
  /\ GetOrder \in Seq(Calls) /\ DeleteOrder \in Seq(Calls) /\ ConfigurationOrder \in Seq(Calls)
  /\ PoseOrder \in Seq(Calls) /\ Gets(<<"driver">>) \in Seq(Calls)
<1>1. \A o \in Options : <<o, "get", 0>> \in Calls
  BY DEF Calls
<1>2. \A o \in Options \cup {"pose"} : <<o, "remove", Default>> \in Calls
  BY DEF Calls
<1>4. GetOrder \in Seq(Calls)
  BY <1>1 DEF GetOrder, Gets, Options
<1>5. ConfigurationOrder \in Seq(Calls)
  BY <1>1 DEF ConfigurationOrder, Gets, Options
<1>6. PoseOrder \in Seq(Calls)
  BY <1>1 DEF PoseOrder, Gets, Options
<1>7. Gets(<<"driver">>) \in Seq(Calls)
  BY <1>1 DEF Gets, Options
<1>8. DeleteOrder \in Seq(Calls)
  BY <1>2 DEF DeleteOrder, Removes, Options
<1> QED
  BY <1>4, <1>5, <1>6, <1>7, <1>8

LEMMA DueFacts ==
  ASSUME TypeOK, NEW t \in Threads, todo[t] # <<>>
  PROVE  /\ todo[t] \in Seq(Calls) /\ Due(t) = todo[t][1] /\ Due(t) \in Calls
         /\ Tail(todo[t]) \in Seq(Calls) /\ Len(todo[t]) \in Nat \ {0}
         /\ Len(Tail(todo[t])) = Len(todo[t]) - 1
         /\ \A i \in 1..Len(Tail(todo[t])) : Tail(todo[t])[i] = todo[t][i + 1]
<1>1. todo[t] \in Seq(Calls)
  BY DEF TypeOK
<1> QED
  BY <1>1 DEF Due

LEMMA InitInvariant == Init => IInv
<1> SUFFICES ASSUME Init PROVE IInv
  OBVIOUS
<1>0. /\ settings = [o \in Options |-> Default] /\ expected = settings
      /\ op = [t \in Threads |-> IF t = Provider THEN "configuration" ELSE "idle"]
      /\ got = [t \in Threads |-> <<>>]
      /\ seen = [t \in Threads |-> IF t = Provider THEN Now(settings) ELSE Unseen]
  BY DEF Init
<1>1. TypeOK
  <2>1. settings \in [Options -> Values] /\ expected \in [Options -> Values]
    BY <1>0 DEF Values, Default
  <2>2. op \in [Threads -> {"idle"} \cup Reads \cup Writes]
    BY <1>0 DEF Reads
  <2>3. todo \in [Threads -> Seq(Calls)]
    BY OrdersAreCalls DEF Init
  <2>4. got \in [Threads -> Seq(Options \X Values)]
    BY <1>0
  <2>5. Now(settings) \in [Options -> SUBSET Values] /\ Unseen \in [Options -> SUBSET Values]
    BY <2>1 DEF Now, Unseen
  <2>6. seen \in [Threads -> [Options -> SUBSET Values]]
    BY <1>0, <2>5
  <2> QED
    BY <2>1, <2>2, <2>3, <2>4, <2>6 DEF Init, TypeOK
<1>2. \A t \in Threads : Watches(t)
  BY <1>0 DEF Watches, Reads, Now
<1>3. AnswersAreCurrent
  BY <1>0 DEF AnswersAreCurrent
<1>4. Serial
  BY <1>0 DEF Serial, Writes
<1> QED
  BY <1>1, <1>2, <1>3, <1>4 DEF IInv

--------------------------------------------------------------------------------
(* Every step keeps the types.                                                 *)

LEMMA BeginTypes ==
  ASSUME TypeOK, NEW t \in Threads, NEW task \in Reads \cup Writes, NEW order \in Seq(Calls),
         Begin(t, task, order), expected' \in [Options -> Values], requests' \in Nat,
         saves' \in Nat, overlapped' \in BOOLEAN
  PROVE  TypeOK'
<1>1. op' \in [Threads -> {"idle"} \cup Reads \cup Writes]
  BY DEF Begin, TypeOK
<1>2. todo' \in [Threads -> Seq(Calls)]
  BY DEF Begin, TypeOK
<1>3. Now(settings) \in [Options -> SUBSET Values] /\ Unseen \in [Options -> SUBSET Values]
  BY DEF Now, Unseen, TypeOK
<1>4. seen' \in [Threads -> [Options -> SUBSET Values]]
  BY <1>3 DEF Begin, TypeOK
<1> QED
  BY <1>1, <1>2, <1>4 DEF Begin, TypeOK

LEMMA CallingTypes ==
  ASSUME TypeOK, NEW t \in Threads, NEW what, Calling(t, what)
  PROVE  todo' \in [Threads -> Seq(Calls)]
<1>1. Tail(todo[t]) \in Seq(Calls)
  BY DueFacts DEF Calling
<1> QED
  BY <1>1 DEF Calling, TypeOK

LEMMA StoreTypes ==
  ASSUME TypeOK, NEW name, NEW v \in Values, Store(name, v)
  PROVE  settings' \in [Options -> Values] /\ seen' \in [Threads -> [Options -> SUBSET Values]]
<1>1. settings' \in [Options -> Values]
  BY DEF Store, TypeOK
<1>2. ASSUME NEW t \in Threads, NEW o \in Options
      PROVE  (IF op[t] \in Reads THEN seen[t][o] \cup {settings'[o]} ELSE {}) \in SUBSET Values
  <2>1. settings'[o] \in Values /\ seen[t][o] \subseteq Values
    BY <1>1 DEF TypeOK
  <2> QED
    BY <2>1
<1>3. seen' = [t \in Threads |-> [o \in Options |->
                 IF op[t] \in Reads THEN seen[t][o] \cup {settings'[o]} ELSE {}]]
  BY DEF Store
<1> QED
  BY <1>1, <1>2, <1>3

LEMMA PostedType ==
  ASSUME NEW b \in Bodies, NEW s \in [Options -> Values]
  PROVE  Posted(b, s) \in [Options -> Values]
<1> SUFFICES ASSUME NEW o \in Options
             PROVE  (IF Taken(b, o) = {} THEN s[o] ELSE b[CHOOSE i \in Taken(b, o) : TRUE][3]) \in Values
  BY DEF Posted
<1>1. ASSUME Taken(b, o) # {} PROVE b[CHOOSE i \in Taken(b, o) : TRUE][3] \in Values
  <2> DEFINE i == CHOOSE i \in Taken(b, o) : TRUE
  <2>1. i \in Taken(b, o)
    BY <1>1
  <2>2. i \in 1..Len(b) /\ b[i][2] = "set"
    BY <2>1 DEF Taken
  <2>3. b[i] \in Calls
    BY <2>2, BodiesAssumption, ItemsAreCalls
  <2> QED
    BY <2>2, <2>3, CallFacts
<1> QED
  BY <1>1

LEMMA NextTypeOK ==
  ASSUME TypeOK, Next
  PROVE  TypeOK'
<1>0. /\ settings \in [Options -> Values] /\ expected \in [Options -> Values]
      /\ op \in [Threads -> {"idle"} \cup Reads \cup Writes]
      /\ got \in [Threads -> Seq(Options \X Values)]
      /\ requests \in Nat /\ saves \in Nat /\ overlapped \in BOOLEAN
      /\ seen \in [Threads -> [Options -> SUBSET Values]] /\ todo \in [Threads -> Seq(Calls)]
  BY DEF TypeOK
<1>w. Workers \subseteq Threads /\ Provider \in Threads /\ Saver \in Threads
  BY DEF Threads
<1>1. ASSUME NEW w \in Workers, Get(w) PROVE TypeOK'
  <2>1. Begin(w, "get", GetOrder) /\ UNCHANGED <<expected, overlapped, saves>> /\ requests' \in Nat
    BY <1>0, <1>1 DEF Get, Request
  <2> QED
    BY <1>0, <1>w, <2>1, OrdersAreCalls, BeginTypes DEF Reads
<1>2. ASSUME NEW w \in Workers, Delete(w) PROVE TypeOK'
  <2>1. /\ Begin(w, "delete", DeleteOrder) /\ overlapped' \in BOOLEAN /\ UNCHANGED saves
        /\ requests' \in Nat
    BY <1>0, <1>2 DEF Delete, Request, Sets
  <2>2. expected' = [o \in Options |-> IF o = "namedpipe" THEN expected[o] ELSE Default]
    BY <1>2 DEF Delete, Sets
  <2>3. expected' \in [Options -> Values]
    BY <1>0, <2>2 DEF Default, Values
  <2> QED
    BY <1>0, <1>w, <2>1, <2>3, OrdersAreCalls, BeginTypes DEF Writes
<1>3. ASSUME NEW w \in Workers, NEW b \in Bodies, Post(w, b) PROVE TypeOK'
  <2>1. /\ Begin(w, "post", b) /\ overlapped' \in BOOLEAN /\ UNCHANGED saves
        /\ requests' \in Nat /\ expected' = Posted(b, expected)
    BY <1>0, <1>3 DEF Post, Request, Sets
  <2>2. expected' \in [Options -> Values]
    BY <1>0, <2>1, PostedType
  <2>3. b \in Seq(Calls)
    BY BodiesAssumption, ItemsAreCalls
  <2> QED
    BY <1>0, <1>w, <2>1, <2>2, <2>3, BeginTypes DEF Writes
<1>4. ASSUME NEW v \in Values, Save(v) PROVE TypeOK'
  <2> DEFINE order == <<<<"position", "set", v>>, <<"degrees", "set", v>>>>
  <2>1. /\ Begin(Saver, "save", order) /\ overlapped' \in BOOLEAN /\ UNCHANGED requests
        /\ saves' \in Nat
    BY <1>0, <1>4 DEF Save, Sets
  <2>2. expected' = [o \in Options |-> IF o \in {"position", "degrees"} THEN v ELSE expected[o]]
    BY <1>4 DEF Save, Sets
  <2>3. expected' \in [Options -> Values]
    BY <1>0, <2>2
  <2>4. <<"position", "set", v>> \in Calls /\ <<"degrees", "set", v>> \in Calls
    BY DEF Calls, Items, Options
  <2>5. order \in Seq(Calls)
    BY <2>4
  <2>6. "save" \in Reads \cup Writes
    BY DEF Writes
  <2> HIDE DEF order
  <2> QED
    BY <1>0, <1>w, <2>1, <2>3, <2>5, <2>6, BeginTypes
<1>5. ASSUME NEW t \in Threads, Read(t) PROVE TypeOK'
  <2>1. todo[t] # <<>> /\ Due(t)[2] = "get"
    BY <1>5 DEF Read, Calling
  <2>2. Due(t)[1] \in Options
    BY <2>1, DueFacts, CallFacts
  <2>3. Reading(Due(t)[1]) \in Values
    BY <1>0, <2>2 DEF Reading, Values
  <2>4. <<Due(t)[1], Reading(Due(t)[1])>> \in Options \X Values
    BY <2>2, <2>3
  <2>5. Append(got[t], <<Due(t)[1], Reading(Due(t)[1])>>) \in Seq(Options \X Values)
    BY <1>0, <2>4
  <2>6. got' = [got EXCEPT ![t] = Append(got[t], <<Due(t)[1], Reading(Due(t)[1])>>)]
    BY <1>5 DEF Read
  <2>7. got' \in [Threads -> Seq(Options \X Values)]
    BY <1>0, <2>5, <2>6
  <2>8. todo' \in [Threads -> Seq(Calls)]
    BY <1>5, CallingTypes DEF Read
  <2> QED
    BY <1>0, <1>5, <2>7, <2>8 DEF Read, Counters, TypeOK
<1>6. ASSUME NEW t \in Threads, SetItem(t) \/ RemoveSection(t) PROVE TypeOK'
  <2>1. todo[t] # <<>> /\ Due(t)[2] \in {"set", "remove"} /\ Store(Due(t)[1], Due(t)[3])
    BY <1>6 DEF SetItem, RemoveSection, Calling
  <2>2. Due(t)[3] \in Values
    BY <2>1, DueFacts, CallFacts
  <2>3. settings' \in [Options -> Values] /\ seen' \in [Threads -> [Options -> SUBSET Values]]
    BY <2>1, <2>2, StoreTypes
  <2>4. todo' \in [Threads -> Seq(Calls)]
    BY <1>6, CallingTypes DEF SetItem, RemoveSection
  <2>5. UNCHANGED <<op, got, requests, saves, expected, overlapped>>
    BY <1>6 DEF SetItem, RemoveSection, Counters
  <2> QED
    BY <1>0, <2>3, <2>4, <2>5 DEF TypeOK
<1>7. ASSUME NEW t \in Threads, SkipItem(t) PROVE TypeOK'
  <2>1. todo' \in [Threads -> Seq(Calls)]
    BY <1>7, CallingTypes DEF SkipItem
  <2> QED
    BY <1>0, <1>7, <2>1 DEF SkipItem, Counters, TypeOK
<1>8. ASSUME NEW t \in Threads, Refuse(t) PROVE TypeOK'
  <2>1. todo' = [todo EXCEPT ![t] = <<>>]
    BY <1>8 DEF Refuse
  <2>2. todo' \in [Threads -> Seq(Calls)]
    BY <1>0, <2>1
  <2> QED
    BY <1>0, <1>8, <2>2 DEF Refuse, Counters, TypeOK
<1>9. ASSUME NEW t \in Threads, Answer(t) PROVE TypeOK'
  <2>1. op' = [op EXCEPT ![t] = "idle"] /\ got' = [got EXCEPT ![t] = <<>>] /\ seen' = [seen EXCEPT ![t] = Unseen]
    BY <1>9 DEF Answer
  <2>2. Unseen \in [Options -> SUBSET Values]
    BY DEF Unseen
  <2>3. /\ op' \in [Threads -> {"idle"} \cup Reads \cup Writes]
        /\ got' \in [Threads -> Seq(Options \X Values)]
        /\ seen' \in [Threads -> [Options -> SUBSET Values]]
    BY <1>0, <2>1, <2>2
  <2> QED
    BY <1>0, <1>9, <2>3 DEF Answer, Counters, TypeOK
<1>10. CASE MakeServer
  <2>1. op' \in [Threads -> {"idle"} \cup Reads \cup Writes]
    BY <1>0, <1>10 DEF MakeServer, Reads
  <2>2. todo' \in [Threads -> Seq(Calls)]
    BY <1>0, <1>10, OrdersAreCalls DEF MakeServer
  <2> QED
    BY <1>0, <1>10, <2>1, <2>2 DEF MakeServer, Counters, TypeOK
<1>11. CASE MakeDriver
  <2>1. todo' \in [Threads -> Seq(Calls)]
    BY <1>0, <1>11, OrdersAreCalls DEF MakeDriver
  <2> QED
    BY <1>0, <1>11, <2>1 DEF MakeDriver, Counters, TypeOK
<1> QED
  BY <1>1, <1>2, <1>3, <1>4, <1>5, <1>6, <1>7, <1>8, <1>9, <1>10, <1>11 DEF Next, Call

--------------------------------------------------------------------------------
(* Every step keeps what is read current.                                      *)

LEMMA Growing ==
  ASSUME NEW o, NEW S, NEW T, S \subseteq T
  PROVE  MayBeRead(o, S) \subseteq MayBeRead(o, T)
BY DEF MayBeRead

\* Of a thread's answers.
Current(t) ==
  \A i \in 1..Len(got[t]) : got[t][i][2] \in MayBeRead(got[t][i][1], seen[t][got[t][i][1]])

LEMMA BeginReads ==
  ASSUME TypeOK, \A u \in Threads : Watches(u) /\ Current(u), NEW t \in Threads, NEW task, NEW order,
         Begin(t, task, order)
  PROVE  \A u \in Threads : (Watches(u) /\ Current(u))'
<1>1. /\ UNCHANGED <<settings, got>> /\ op[t] = "idle"
      /\ \A u \in Threads : op'[u] = IF u = t THEN task ELSE op[u]
      /\ \A u \in Threads : seen'[u] = IF u # t THEN seen[u] ELSE IF task \in Reads THEN Now(settings) ELSE Unseen
  BY DEF Begin, TypeOK
<1>2. got[t] = <<>>
  BY <1>1 DEF Watches, Reads
<1>3. Watches(t)'
  BY <1>1, <1>2 DEF Watches, Now
<1>4. Current(t)'
  BY <1>1, <1>2 DEF Current
<1>5. \A u \in Threads : u # t => Watches(u)'
  BY <1>1 DEF Watches
<1>6. \A u \in Threads : u # t => Current(u)'
  BY <1>1 DEF Current
<1> QED
  BY <1>3, <1>4, <1>5, <1>6

LEMMA StoreReads ==
  ASSUME TypeOK, TypeOK', \A u \in Threads : Watches(u) /\ Current(u), NEW name, NEW v, Store(name, v),
         UNCHANGED <<op, got>>
  PROVE  \A u \in Threads : (Watches(u) /\ Current(u))'
<1> SUFFICES ASSUME NEW u \in Threads PROVE (Watches(u) /\ Current(u))'
  OBVIOUS
<1>1. \A o \in Options : seen'[u][o] = IF op[u] \in Reads THEN seen[u][o] \cup {settings'[o]} ELSE {}
  BY DEF Store
<1>2. Watches(u)'
  BY <1>1 DEF Watches
<1>3. CASE op[u] \notin Reads
  BY <1>3 DEF Watches, Current
<1>4. CASE op[u] \in Reads
  <2> SUFFICES ASSUME NEW i \in 1..Len(got[u])
               PROVE  got[u][i][2] \in MayBeRead(got[u][i][1], seen'[u][got[u][i][1]])
    BY <1>2 DEF Current
  <2>1. got[u] \in Seq(Options \X Values)
    BY DEF TypeOK
  <2>2. got[u][i][1] \in Options
    BY <2>1
  <2>3. got[u][i][2] \in MayBeRead(got[u][i][1], seen[u][got[u][i][1]])
    BY DEF Current
  <2>4. seen[u][got[u][i][1]] \subseteq seen'[u][got[u][i][1]]
    BY <1>1, <1>4, <2>2
  <2> QED
    BY <2>3, <2>4, Growing
<1> QED
  BY <1>2, <1>3, <1>4

LEMMA NextReads ==
  ASSUME TypeOK, TypeOK', \A u \in Threads : Watches(u) /\ Current(u), Next
  PROVE  \A u \in Threads : (Watches(u) /\ Current(u))'
<1> DEFINE Goal == \A u \in Threads : (Watches(u) /\ Current(u))'
<1>w. Workers \subseteq Threads /\ Provider \in Threads /\ Saver \in Threads
  BY DEF Threads
<1>1. ASSUME NEW w \in Workers, Get(w) \/ Delete(w) \/ \E b \in Bodies : Post(w, b) PROVE Goal
  BY <1>w, <1>1, BeginReads DEF Get, Delete, Post
<1>2. ASSUME NEW v \in Values, Save(v) PROVE Goal
  BY <1>w, <1>2, BeginReads DEF Save
<1>3. ASSUME NEW t \in Threads, Read(t) PROVE Goal
  <2> DEFINE o == Due(t)[1]
  <2>1. todo[t] # <<>> /\ Due(t)[2] = "get" /\ op[t] \in Reads
    BY <1>3 DEF Read, Calling
  <2>2. o \in Options
    BY <2>1, DueFacts, CallFacts
  <2>3. UNCHANGED <<op, settings, seen>>
    BY <1>3 DEF Read
  <2>4. \A u \in Threads : got'[u] = IF u = t THEN Append(got[t], <<o, Reading(o)>>) ELSE got[u]
    BY <1>3 DEF Read, TypeOK
  <2>5. settings[o] \in seen[t][o]
    BY <2>1, <2>2 DEF Watches
  <2>6. Reading(o) \in MayBeRead(o, seen[t][o])
    BY <2>5 DEF Reading, MayBeRead
  <2>7. \A u \in Threads : Watches(u)'
    BY <2>1, <2>3, <2>4 DEF Watches
  <2>8. ASSUME NEW u \in Threads PROVE Current(u)'
    <3>1. CASE u # t
      BY <2>3, <2>4, <3>1 DEF Current
    <3>2. CASE u = t
      <4>1. got[t] \in Seq(Options \X Values) /\ got'[t] = Append(got[t], <<o, Reading(o)>>)
        BY <2>4 DEF TypeOK
      <4>2. /\ Len(got'[t]) = Len(got[t]) + 1 /\ Len(got[t]) \in Nat
            /\ got'[t][Len(got[t]) + 1] = <<o, Reading(o)>>
            /\ \A i \in 1..Len(got[t]) : got'[t][i] = got[t][i]
        BY <4>1
      <4>3. ASSUME NEW i \in 1..Len(got'[t])
            PROVE  got'[t][i][2] \in MayBeRead(got'[t][i][1], seen[t][got'[t][i][1]])
        <5>1. CASE i = Len(got[t]) + 1
          BY <2>6, <4>2, <5>1
        <5>2. CASE i \in 1..Len(got[t])
          BY <4>2, <5>2 DEF Current
        <5> QED
          BY <4>2, <5>1, <5>2
      <4> QED
        BY <2>3, <3>2, <4>3 DEF Current
    <3> QED
      BY <3>1, <3>2
  <2> QED
    BY <2>7, <2>8
<1>4. ASSUME NEW t \in Threads, SetItem(t) \/ RemoveSection(t) PROVE Goal
  BY <1>4, StoreReads DEF SetItem, RemoveSection
<1>5. ASSUME UNCHANGED <<settings, seen, got>>,
             \A t \in Threads : op'[t] = op[t] \/ (op[t] \in Reads /\ op'[t] \in Reads)
      PROVE  Goal
  <2>1. \A u \in Threads : Watches(u)'
    BY <1>5 DEF Watches
  <2>2. \A u \in Threads : Current(u)'
    BY <1>5 DEF Current
  <2> QED
    BY <2>1, <2>2
<1>6. ASSUME NEW t \in Threads, SkipItem(t) \/ Refuse(t) PROVE Goal
  BY <1>5, <1>6 DEF SkipItem, Refuse
<1>7. CASE MakeServer
  <2>1. \A u \in Threads : op'[u] = op[u] \/ (op[u] \in Reads /\ op'[u] \in Reads)
    BY <1>7, <1>w DEF MakeServer, TypeOK, Reads
  <2> QED
    BY <1>5, <1>7, <2>1 DEF MakeServer
<1>8. CASE MakeDriver
  BY <1>5, <1>8 DEF MakeDriver
<1>9. ASSUME NEW t \in Threads, Answer(t) PROVE Goal
  <2>1. /\ UNCHANGED settings
        /\ \A u \in Threads : /\ op'[u] = IF u = t THEN "idle" ELSE op[u]
                              /\ got'[u] = IF u = t THEN <<>> ELSE got[u]
                              /\ seen'[u] = IF u = t THEN Unseen ELSE seen[u]
    BY <1>9 DEF Answer, TypeOK
  <2>2. \A u \in Threads : Watches(u)'
    BY <2>1 DEF Watches, Reads
  <2>3. \A u \in Threads : Current(u)'
    BY <2>1 DEF Current
  <2> QED
    BY <2>2, <2>3
<1> QED
  BY <1>1, <1>2, <1>3, <1>4, <1>6, <1>7, <1>8, <1>9 DEF Next, Call

--------------------------------------------------------------------------------
(* Every step keeps the writers serial.                                        *)

LEMMA OwesTail ==
  ASSUME NEW b \in Seq(Calls), b # <<>>, b[1][2] # "refused", Owes(b), UNCHANGED expected,
         \A o \in Options : settings'[o] = IF Changes(b[1], o) THEN b[1][3] ELSE settings[o],
         NEW c, c = Tail(b)
  PROVE  Owes(c)'
<1>1. /\ Len(b) \in Nat \ {0} /\ Len(c) = Len(b) - 1 /\ 1 \in 1..Len(b)
      /\ \A i \in 1..Len(c) : c[i] = b[i + 1] /\ i + 1 \in 1..Len(b)
      /\ \A i \in 1..Len(b) : i # 1 => i - 1 \in 1..Len(c) /\ c[i - 1] = b[i]
  OBVIOUS
<1>2. \A o \in Options : \A i, j \in 1..Len(c) : Changes(c[i], o) /\ Changes(c[j], o) => i = j
  <2> SUFFICES ASSUME NEW o \in Options, NEW i \in 1..Len(c), NEW j \in 1..Len(c),
                      Changes(c[i], o), Changes(c[j], o)
               PROVE  i = j
    OBVIOUS
  <2>1. i + 1 = j + 1
    BY <1>1 DEF Owes
  <2> QED
    BY <2>1
<1>3. ASSUME NEW o \in Options, NEW i \in 1..Len(c)
      PROVE  i \in Active(c, o) <=> i + 1 \in Active(b, o)
  <2>1. (\A j \in 1..i : c[j][2] # "refused") <=> (\A j \in 1..(i + 1) : b[j][2] # "refused")
    <3>1. ASSUME \A j \in 1..i : c[j][2] # "refused", NEW j \in 1..(i + 1) PROVE b[j][2] # "refused"
      <4>1. CASE j = 1
        BY <4>1
      <4>2. CASE j # 1
        <5>1. j - 1 \in 1..i /\ c[j - 1] = b[j]
          BY <1>1, <4>2
        <5> QED
          BY <3>1, <5>1
      <4> QED
        BY <4>1, <4>2
    <3>2. ASSUME \A j \in 1..(i + 1) : b[j][2] # "refused", NEW j \in 1..i PROVE c[j][2] # "refused"
      <4>1. j + 1 \in 1..(i + 1) /\ c[j] = b[j + 1]
        BY <1>1
      <4> QED
        BY <3>2, <4>1
    <3> QED
      BY <3>1, <3>2
  <2>2. c[i] = b[i + 1] /\ i + 1 \in 1..Len(b)
    BY <1>1
  <2> QED
    BY <2>1, <2>2 DEF Active
<1>4. ASSUME NEW o \in Options
      PROVE  (\A i \in Active(c, o) : expected[o] = c[i][3]) /\ (Active(c, o) = {} => expected[o] = settings'[o])
  <2>1. \A i \in Active(c, o) : i \in 1..Len(c) /\ Changes(c[i], o)
    BY DEF Active
  <2>2. CASE Changes(b[1], o)
    <3>1. 1 \in Active(b, o)
      BY <1>1, <2>2 DEF Active
    <3>2. expected[o] = b[1][3]
      BY <3>1 DEF Owes
    <3>3. Active(c, o) = {}
      <4> SUFFICES ASSUME NEW i \in Active(c, o) PROVE FALSE
        OBVIOUS
      <4>1. i + 1 \in 1..Len(b) /\ Changes(b[i + 1], o)
        BY <1>1, <2>1
      <4>2. i + 1 = 1
        BY <1>1, <2>2, <4>1 DEF Owes
      <4> QED
        BY <2>1, <4>2
    <3> QED
      BY <2>2, <3>2, <3>3
  <2>3. CASE ~Changes(b[1], o)
    <3>1. \A i \in Active(c, o) : expected[o] = c[i][3]
      <4> SUFFICES ASSUME NEW i \in Active(c, o) PROVE expected[o] = c[i][3]
        OBVIOUS
      <4>1. i + 1 \in Active(b, o) /\ c[i] = b[i + 1]
        BY <1>1, <1>3, <2>1
      <4> QED
        BY <4>1 DEF Owes
    <3>2. ASSUME Active(c, o) = {} PROVE Active(b, o) = {}
      <4> SUFFICES ASSUME NEW i \in Active(b, o) PROVE FALSE
        OBVIOUS
      <4>1. i \in 1..Len(b) /\ i # 1
        BY <2>3 DEF Active
      <4>2. i - 1 \in 1..Len(c) /\ (i - 1) + 1 = i
        BY <1>1, <4>1
      <4> QED
        BY <1>3, <3>2, <4>2
    <3> QED
      BY <2>3, <3>1, <3>2 DEF Owes
  <2> QED
    BY <2>2, <2>3
<1> QED
  BY <1>2, <1>4 DEF Owes

\* A writer that begins when none is at work.
LEMMA SerialBegin ==
  ASSUME TypeOK, Serial, NEW t \in Threads, NEW task \in Writes, NEW order, Begin(t, task, order),
         overlapped' = (overlapped \/ \E u \in Threads : op[u] \in Writes),
         settings = expected => Owes(order)'
  PROVE  Serial'
<1> SUFFICES ASSUME ~overlapped' PROVE Serial!2'
  BY DEF Serial
<1>1. ~overlapped /\ \A u \in Threads : op[u] \notin Writes
  BY DEF Begin
<1>2. /\ \A u \in Threads : op'[u] = IF u = t THEN task ELSE op[u]
      /\ todo'[t] = order /\ UNCHANGED settings
  BY DEF Begin, TypeOK
<1>3. settings = expected
  BY <1>1 DEF Serial
<1> QED
  BY <1>1, <1>2, <1>3

\* A writer at its next call.
LEMMA SerialCall ==
  ASSUME TypeOK, Serial, NEW t \in Threads, op[t] \in Writes, NEW c,
         \A u \in Threads : todo'[u] = IF u = t THEN c ELSE todo[u],
         UNCHANGED <<op, expected, overlapped>>, Owes(todo[t]) => Owes(c)'
  PROVE  Serial'
<1> SUFFICES ASSUME ~overlapped' PROVE Serial!2'
  BY DEF Serial
<1>1. /\ \A u \in Threads : op[u] \in Writes => u = t
      /\ Owes(todo[t])
  BY DEF Serial
<1>2. Owes(c)'
  BY <1>1
<1> QED
  BY <1>1, <1>2

LEMMA PostOwes ==
  ASSUME NEW b \in Bodies, settings = expected, UNCHANGED settings, expected' = Posted(b, expected)
  PROVE  Owes(b)'
<1>1. b \in Seq(Items) /\ \A i, j \in 1..Len(b) : b[i][1] = b[j][1] => i = j
  BY BodiesAssumption
<1>2. ASSUME NEW i \in 1..Len(b), NEW o \in Options
      PROVE  Changes(b[i], o) <=> b[i][1] = o /\ b[i][2] = "set"
  <2>1. b[i] \in Items
    BY <1>1
  <2>2. b[i][1] \in Options /\ b[i][2] # "remove"
    BY <2>1 DEF Items
  <2>3. b[i][1] # "pose"
    BY <2>2 DEF Options
  <2> QED
    BY <2>2, <2>3 DEF Changes, Named
<1>3. ASSUME NEW o \in Options PROVE Active(b, o) = Taken(b, o)
  BY <1>2 DEF Active, Taken
<1>4. ASSUME NEW o \in Options
      PROVE  (\A i \in Active(b, o) : expected'[o] = b[i][3]) /\ (Active(b, o) = {} => expected'[o] = settings[o])
  <2>1. expected'[o] = IF Taken(b, o) = {} THEN expected[o] ELSE b[CHOOSE i \in Taken(b, o) : TRUE][3]
    BY DEF Posted
  <2>2. CASE Taken(b, o) = {}
    BY <1>3, <2>1, <2>2
  <2>3. CASE Taken(b, o) # {}
    <3> DEFINE k == CHOOSE i \in Taken(b, o) : TRUE
    <3>1. k \in Taken(b, o)
      BY <2>3
    <3>2. \A i \in Taken(b, o) : i = k
      BY <1>1, <3>1 DEF Taken
    <3> QED
      BY <1>3, <2>1, <2>3, <3>2
  <2> QED
    BY <2>2, <2>3
<1>5. \A o \in Options : \A i, j \in 1..Len(b) : Changes(b[i], o) /\ Changes(b[j], o) => i = j
  BY <1>1, <1>2
<1> QED
  BY <1>4, <1>5 DEF Owes

LEMMA DeleteOwes ==
  ASSUME settings = expected, UNCHANGED settings,
         expected' = [o \in Options |-> IF o = "namedpipe" THEN expected[o] ELSE Default]
  PROVE  Owes(DeleteOrder)'
<1>1. /\ Len(DeleteOrder) = 5
      /\ DeleteOrder[1] = <<"driver", "remove", Default>> /\ DeleteOrder[2] = <<"serial", "remove", Default>>
      /\ DeleteOrder[3] = <<"btserial", "remove", Default>> /\ DeleteOrder[4] = <<"pose", "remove", Default>>
      /\ DeleteOrder[5] = <<"alpha", "remove", Default>>
  BY DEF DeleteOrder, Removes
<1>2. \A i \in 1..5 : i = 1 \/ i = 2 \/ i = 3 \/ i = 4 \/ i = 5
  OBVIOUS
<1>3. \A o \in Options : /\ Changes(DeleteOrder[1], o) <=> o = "driver"
                         /\ Changes(DeleteOrder[2], o) <=> o = "serial"
                         /\ Changes(DeleteOrder[3], o) <=> o = "btserial"
                         /\ Changes(DeleteOrder[4], o) <=> o \in {"position", "degrees"}
                         /\ Changes(DeleteOrder[5], o) <=> o = "alpha"
  BY <1>1 DEF Changes, Named
<1>4. \A i \in 1..5 : DeleteOrder[i][2] # "refused" /\ DeleteOrder[i][3] = Default
  BY <1>1, <1>2
<1>5. \A o \in Options : \A i, j \in 1..5 : Changes(DeleteOrder[i], o) /\ Changes(DeleteOrder[j], o) => i = j
  BY <1>2, <1>3
<1>6. \A o \in Options : Active(DeleteOrder, o) = {i \in 1..5 : Changes(DeleteOrder[i], o)}
  BY <1>1, <1>4 DEF Active
<1>7. ASSUME NEW o \in Options, o # "namedpipe" PROVE Active(DeleteOrder, o) # {}
  <2>1. o \in {"driver", "btserial", "serial", "alpha", "position", "degrees"}
    BY <1>7 DEF Options
  <2>2. \E i \in 1..5 : Changes(DeleteOrder[i], o)
    BY <1>3, <2>1
  <2> QED
    BY <1>6, <2>2
<1>8. ASSUME NEW i \in Active(DeleteOrder, "namedpipe") PROVE FALSE
  <2>1. i \in 1..5 /\ Changes(DeleteOrder[i], "namedpipe")
    BY <1>1 DEF Active
  <2> QED
    BY <1>2, <1>3, <2>1 DEF Options
<1>9. \A o \in Options : expected'[o] = IF o = "namedpipe" THEN settings[o] ELSE Default
  OBVIOUS
<1>10. ASSUME NEW o \in Options
       PROVE  /\ \A i \in Active(DeleteOrder, o) : expected'[o] = DeleteOrder[i][3]
              /\ Active(DeleteOrder, o) = {} => expected'[o] = settings'[o]
  <2>1. \A i \in Active(DeleteOrder, o) : DeleteOrder[i][3] = Default
    BY <1>4, <1>6
  <2> QED
    BY <1>7, <1>8, <1>9, <2>1
<1> QED
  BY <1>1, <1>5, <1>10 DEF Owes

LEMMA SaveOwes ==
  ASSUME NEW v, NEW order, order = <<<<"position", "set", v>>, <<"degrees", "set", v>>>>,
         settings = expected, UNCHANGED settings,
         expected' = [o \in Options |-> IF o \in {"position", "degrees"} THEN v ELSE expected[o]]
  PROVE  Owes(order)'
<1>1. Len(order) = 2 /\ order[1] = <<"position", "set", v>> /\ order[2] = <<"degrees", "set", v>>
  OBVIOUS
<1>2. \A i \in 1..2 : i = 1 \/ i = 2
  OBVIOUS
<1>3. \A o \in Options : /\ Changes(order[1], o) <=> o = "position"
                         /\ Changes(order[2], o) <=> o = "degrees"
  BY <1>1 DEF Changes, Named
<1>4. \A i \in 1..2 : order[i][2] # "refused" /\ order[i][3] = v
  BY <1>1, <1>2
<1>5. \A o \in Options : \A i, j \in 1..2 : Changes(order[i], o) /\ Changes(order[j], o) => i = j
  BY <1>2, <1>3
<1>6. \A o \in Options : Active(order, o) = {i \in 1..2 : Changes(order[i], o)}
  BY <1>1, <1>4 DEF Active
<1>7. \A o \in Options : expected'[o] = IF o \in {"position", "degrees"} THEN v ELSE settings[o]
  OBVIOUS
<1>8. ASSUME NEW o \in Options
      PROVE  /\ \A i \in Active(order, o) : expected'[o] = order[i][3]
             /\ Active(order, o) = {} => expected'[o] = settings'[o]
  <2>1. o \in {"position", "degrees"} => Active(order, o) # {}
    BY <1>3, <1>6
  <2>2. o \notin {"position", "degrees"} => Active(order, o) = {}
    BY <1>2, <1>3, <1>6
  <2>3. \A i \in Active(order, o) : order[i][3] = v
    BY <1>4, <1>6
  <2> QED
    BY <1>7, <2>1, <2>2, <2>3
<1> QED
  BY <1>1, <1>5, <1>8 DEF Owes

LEMMA NextSerial ==
  ASSUME TypeOK, Serial, Next
  PROVE  Serial'
<1>w. Workers \subseteq Threads /\ Provider \in Threads /\ Saver \in Threads
  BY DEF Threads
<1>1. ASSUME NEW w \in Workers, Get(w) PROVE Serial'
  <2>1. /\ \A u \in Threads : op'[u] = IF u = w THEN "get" ELSE op[u]
        /\ \A u \in Threads : u # w => todo'[u] = todo[u]
        /\ op[w] = "idle" /\ UNCHANGED <<settings, expected, overlapped>>
    BY <1>1 DEF Get, Begin, TypeOK
  <2>2. \A u \in Threads : (op'[u] \in Writes <=> op[u] \in Writes) /\ (op[u] \in Writes => u # w)
    BY <2>1 DEF Writes
  <2>3. \A b : Owes(b) => Owes(b)'
    BY <2>1 DEF Owes
  <2> QED
    BY <2>1, <2>2, <2>3 DEF Serial
<1>2. ASSUME NEW w \in Workers, NEW b \in Bodies, Post(w, b) PROVE Serial'
  <2>1. /\ Begin(w, "post", b) /\ expected' = Posted(b, expected) /\ UNCHANGED settings
        /\ overlapped' = (overlapped \/ \E u \in Threads : op[u] \in Writes)
    BY <1>2 DEF Post, Sets, Begin
  <2> QED
    BY <1>w, <2>1, PostOwes, SerialBegin DEF Writes
<1>3. ASSUME NEW w \in Workers, Delete(w) PROVE Serial'
  <2>1. /\ Begin(w, "delete", DeleteOrder) /\ UNCHANGED settings
        /\ expected' = [o \in Options |-> IF o = "namedpipe" THEN expected[o] ELSE Default]
        /\ overlapped' = (overlapped \/ \E u \in Threads : op[u] \in Writes)
    BY <1>3 DEF Delete, Sets, Begin
  <2>2. settings = expected => Owes(DeleteOrder)'
    BY <2>1, DeleteOwes
  <2>3. PICK order : order = DeleteOrder
    OBVIOUS
  <2>4. settings = expected => Owes(order)'
    BY <2>2, <2>3 DEF Owes
  <2> QED
    BY <1>w, <2>1, <2>3, <2>4, SerialBegin DEF Writes
<1>4. ASSUME NEW v \in Values, Save(v) PROVE Serial'
  <2>1. PICK order : order = <<<<"position", "set", v>>, <<"degrees", "set", v>>>>
    OBVIOUS
  <2>2. /\ Begin(Saver, "save", order) /\ UNCHANGED settings
        /\ expected' = [o \in Options |-> IF o \in {"position", "degrees"} THEN v ELSE expected[o]]
        /\ overlapped' = (overlapped \/ \E u \in Threads : op[u] \in Writes)
    BY <1>4, <2>1 DEF Save, Sets, Begin
  <2>3. settings = expected => Owes(order)'
    BY <2>1, <2>2, SaveOwes
  <2> QED
    BY <1>w, <2>2, <2>3, SerialBegin DEF Writes
<1>5. ASSUME NEW t \in Threads, SetItem(t) \/ RemoveSection(t) \/ SkipItem(t) PROVE Serial'
  <2>1. PICK b, c : b = todo[t] /\ c = Tail(b)
    OBVIOUS
  <2>2. /\ op[t] \in Writes /\ b # <<>> /\ UNCHANGED <<op, expected, overlapped>>
        /\ todo' = [todo EXCEPT ![t] = c]
    BY <1>5, <2>1 DEF SetItem, RemoveSection, SkipItem, Calling, Counters, Writes
  <2>3. b \in Seq(Calls) /\ Due(t) = b[1]
    BY <2>1, <2>2, DueFacts
  <2>4. b[1][2] # "refused"
    BY <1>5, <2>3 DEF SetItem, RemoveSection, SkipItem, Calling
  <2>5. \A o \in Options : settings'[o] = IF Changes(b[1], o) THEN b[1][3] ELSE settings[o]
    BY <1>5, <2>3 DEF SetItem, RemoveSection, SkipItem, Calling, Store, Changes
  <2>6. Owes(b) => Owes(c)'
    BY <2>1, <2>2, <2>3, <2>4, <2>5, OwesTail
  <2>7. \A u \in Threads : todo'[u] = IF u = t THEN c ELSE todo[u]
    BY <2>2 DEF TypeOK
  <2> QED
    BY <2>1, <2>2, <2>6, <2>7, SerialCall
<1>6. ASSUME NEW t \in Threads, Refuse(t) PROVE Serial'
  <2>1. PICK b : b = todo[t]
    OBVIOUS
  <2>2. /\ op[t] \in Writes /\ b # <<>> /\ UNCHANGED <<op, expected, overlapped, settings>>
        /\ todo' = [todo EXCEPT ![t] = <<>>]
    BY <1>6, <2>1 DEF Refuse, Counters, Writes
  <2>3. b \in Seq(Calls) /\ b[1][2] = "refused"
    BY <1>6, <2>1, <2>2, DueFacts DEF Refuse
  <2>4. \A o \in Options : Active(b, o) = {} /\ Active(<<>>, o) = {}
    BY <2>3 DEF Active
  <2>5. Owes(b) => Owes(<<>>)'
    BY <2>2, <2>4 DEF Owes
  <2>6. \A u \in Threads : todo'[u] = IF u = t THEN <<>> ELSE todo[u]
    BY <2>2 DEF TypeOK
  <2> QED
    BY <2>1, <2>2, <2>5, <2>6, SerialCall
<1>7. ASSUME UNCHANGED <<settings, expected, overlapped>>,
             \A u \in Threads : /\ op'[u] \in Writes <=> op[u] \in Writes
                                /\ op[u] \in Writes => todo'[u] = todo[u]
      PROVE  Serial'
  <2>1. \A b : Owes(b) => Owes(b)'
    BY <1>7 DEF Owes
  <2> QED
    BY <1>7, <2>1 DEF Serial
<1>8. ASSUME NEW t \in Threads, Read(t) PROVE Serial'
  <2>1. \A u \in Threads : u # t => todo'[u] = todo[u]
    BY <1>8 DEF Read, Calling
  <2>2. op[t] \notin Writes
    BY <1>8 DEF Read, Reads, Writes
  <2> QED
    BY <1>7, <1>8, <2>1, <2>2 DEF Read, Counters
<1>9. CASE MakeServer \/ MakeDriver
  <2>1. /\ \A u \in Threads : u # Provider => todo'[u] = todo[u] /\ op'[u] = op[u]
        /\ op[Provider] \in Reads /\ op'[Provider] \in Reads
    BY <1>9, <1>w DEF MakeServer, MakeDriver, TypeOK, Reads
  <2>2. op[Provider] \notin Writes /\ op'[Provider] \notin Writes
    BY <2>1 DEF Reads, Writes
  <2> QED
    BY <1>7, <1>9, <2>1, <2>2 DEF MakeServer, MakeDriver, Counters
<1>10. ASSUME NEW t \in Threads, Answer(t) PROVE Serial'
  <2>1. /\ \A u \in Threads : op'[u] = IF u = t THEN "idle" ELSE op[u]
        /\ UNCHANGED <<settings, todo, expected, overlapped>> /\ todo[t] = <<>>
    BY <1>10 DEF Answer, Counters, TypeOK
  <2>2. "idle" \notin Writes
    BY DEF Writes
  <2>3. CASE op[t] \notin Writes
    BY <1>7, <2>1, <2>2, <2>3
  <2>4. CASE op[t] \in Writes
    <3> SUFFICES ASSUME ~overlapped PROVE Serial!2'
      BY <2>1 DEF Serial
    <3>1. \A u \in Threads : op'[u] \notin Writes
      BY <2>1, <2>2, <2>4 DEF Serial
    <3>2. Owes(<<>>)
      BY <2>1, <2>4 DEF Serial
    <3>3. \A o \in Options : Active(<<>>, o) = {}
      BY DEF Active
    <3>4. \A o \in Options : expected[o] = settings[o]
      BY <3>2, <3>3 DEF Owes
    <3>5. settings = expected
      BY <3>4 DEF TypeOK
    <3> QED
      BY <2>1, <3>1, <3>5
  <2> QED
    BY <2>3, <2>4
<1> QED
  BY <1>1, <1>2, <1>3, <1>4, <1>5, <1>6, <1>8, <1>9, <1>10 DEF Next, Call

--------------------------------------------------------------------------------
(* The theorems.                                                               *)

LEMMA NextInvariant == IInv /\ [Next]_vars => IInv'
<1> SUFFICES ASSUME IInv, [Next]_vars PROVE IInv'
  OBVIOUS
<1>1. CASE Next
  <2>1. TypeOK'
    BY <1>1, NextTypeOK DEF IInv
  <2>2. \A u \in Threads : Watches(u) /\ Current(u)
    BY DEF IInv, AnswersAreCurrent, Current
  <2>3. \A u \in Threads : (Watches(u) /\ Current(u))'
    BY <1>1, <2>1, <2>2, NextReads DEF IInv
  <2>4. Serial'
    BY <1>1, NextSerial DEF IInv
  <2> QED
    BY <2>1, <2>3, <2>4 DEF IInv, AnswersAreCurrent, Current
<1>2. CASE UNCHANGED vars
  <2>1. TypeOK' /\ AnswersAreCurrent'
    BY <1>2 DEF vars, IInv, TypeOK, AnswersAreCurrent
  <2>2. \A t \in Threads : Watches(t)'
    BY <1>2 DEF vars, IInv, Watches
  <2>3. Serial'
    BY <1>2 DEF vars, IInv, Serial, Owes
  <2> QED
    BY <2>1, <2>2, <2>3 DEF IInv
<1> QED
  BY <1>1, <1>2

LEMMA Invariance == Spec => []IInv
BY InitInvariant, NextInvariant, PTL DEF Spec

\* The variables keep their types, whatever is posted.
THEOREM TypeCorrect == Spec => []TypeOK
<1>1. IInv => TypeOK
  BY DEF IInv
<1> QED
  BY <1>1, Invariance, PTL

\* However many requests overlap, no reader gets a value that the setting has not had
\* since its task began, nor a max_analog_value of zero.
THEOREM ReadersAreCurrent == Spec => []AnswersAreCurrent
<1>1. IInv => AnswersAreCurrent
  BY DEF IInv
<1> QED
  BY <1>1, Invariance, PTL

\* And writers that never overlap leave the settings as if each had been one step.
THEOREM WritersAreSerial == Spec => []SettingsAreSerial
<1>1. IInv => SettingsAreSerial
  BY DEF IInv, Serial, SettingsAreSerial
<1> QED
  BY <1>1, Invariance, PTL

================================================================================
