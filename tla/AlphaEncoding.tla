----------------------------- MODULE AlphaEncoding -----------------------------
(* How a glove's packet is decoded: ParseToMap cuts it into keys and values,   *)
(* one item per turn of its loop, and DecodePacket makes an input of the map.  *)
(*                                                                             *)
(* A character is a string of length one, and a packet, a key or a value a     *)
(* sequence of them.  Numbers are scaled by max_analog_value instead of        *)
(* divided by it.  Inputs that are decoded alike are represented by some: of   *)
(* those with a number the curls, joints and splays, of those without one the  *)
(* buttons.                                                                    *)
EXTENDS Integers, Sequences, FiniteSetsExt, SequencesExt

CONSTANT MaxAnalogValue   \* max_analog_value

ASSUME AnalogAssumption == MaxAnalogValue \in Nat \ {0}

Letters == {"A", "B", "C", "D", "E", "F", "G", "H", "I", "J", "K", "L", "M",
            "N", "O", "P", "Q", "R", "S", "T", "U", "V", "W", "X", "Y", "Z"}
KeyCharacters == Letters \cup {"(", ")"}
DigitsInOrder == <<"0", "1", "2", "3", "4", "5", "6", "7", "8", "9">>
Digits == ToSet(DigitsInOrder)

Fingers    == {"A", "B", "C", "D", "E"}    \* thumb to pinky
Joints     == {"A", "B", "C", "D"}
Buttons    == {"H", "I", "J", "K", "L", "M", "N", "O"}
InfoFields == {"V", "G", "H"}              \* firmware, device type and hand

CurlKey(f)     == <<f>>
JointKey(f, j) == <<"(", f, "A", j, ")">>
SplayKey(f)    == <<"(", f, "B", ")">>
InfoKey        == <<"Z">>
FieldKey(c)    == <<"(", "Z", c, ")">>

NumberKeys ==
  {CurlKey(f) : f \in Fingers} \cup {SplayKey(f) : f \in Fingers}
    \cup {JointKey(f, j) : f \in Fingers, j \in Joints}
FieldKeys == {FieldKey(c) : c \in InfoFields}
KnownKeys == NumberKeys \cup FieldKeys \cup {InfoKey} \cup {<<b>> : b \in Buttons}

Has(m, k) == k \in DOMAIN m

VARIABLES
  buff,        \* the packet
  i,           \* the index of ParseToMap's loop
  input_map,   \* the keys and values found so far
  input        \* the decoded og::Input, of type "None" until there is one

decoding == <<buff, i, input_map, input>>

--------------------------------------------------------------------------------
(* The first index from p on whose character is not in C: where a loop that    *)
(* collects the characters in C stops.                                         *)
RunEnd(b, p, C) == Min({q \in p .. Len(b) : b[q] \notin C} \cup {Len(b) + 1})

(* A key in parentheses is read to the end of the key characters, not to the   *)
(* closing parenthesis.                                                        *)
KeyEnd(b, p) == IF b[p] = "(" THEN RunEnd(b, p, KeyCharacters) ELSE p + 1

SkipJunk ==
  /\ input.type = "None" /\ i <= Len(buff)
  /\ buff[i] \notin KeyCharacters
  /\ i' = i + 1
  /\ UNCHANGED <<buff, input_map, input>>

\* Mutant: insert instead of insert_or_assign.
InsertOnce(m, key, value) ==
  IF key \in KnownKeys \ DOMAIN m
    THEN [k \in DOMAIN m \cup {key} |-> IF k = key THEN value ELSE m[k]] ELSE m

InsertOrAssign(m, key, value) ==
  IF key \in KnownKeys
    THEN [k \in DOMAIN m \cup {key} |-> IF k = key THEN value ELSE m[k]] ELSE m

ParseItem ==
  /\ input.type = "None" /\ i <= Len(buff)
  /\ buff[i] \in KeyCharacters
  /\ LET end  == KeyEnd(buff, i)
         next == RunEnd(buff, end, Digits)
     IN /\ input_map' = InsertOrAssign(input_map, SubSeq(buff, i, end - 1), SubSeq(buff, end, next - 1))
        /\ i' = next
  /\ UNCHANGED <<buff, input>>

--------------------------------------------------------------------------------
(* std::stof and std::stoi of a value that is not empty; they throw on an      *)
(* empty one.  Numbers(v)[n] is what the first n digits stand for.             *)
Digit(c)   == CHOOSE d \in 0 .. 9 : DigitsInOrder[d + 1] = c
Numbers(v) == LET number[n \in 0 .. Len(v)] == IF n = 0 THEN 0 ELSE 10 * number[n - 1] + Digit(v[n]) IN number
Number(v)  == Numbers(v)[Len(v)]
Throws(m, K) == \E k \in K : Has(m, k) /\ m[k] = <<>>

Invalid == [type |-> "Invalid"]

\* Mutant: a finger that is not in the packet is at zero.
FlexionZero(m, f, j) ==
  IF Has(m, JointKey(f, j)) THEN Number(m[JointKey(f, j)])
  ELSE IF Has(m, CurlKey(f)) THEN Number(m[CurlKey(f)]) ELSE 0

(* A joint without a value of its own follows its finger's curl, and a finger  *)
(* without either is at -1.                                                    *)
Default == -MaxAnalogValue
Flexion(m, f, j) ==
  IF Has(m, JointKey(f, j)) THEN Number(m[JointKey(f, j)])
  ELSE IF Has(m, CurlKey(f)) THEN Number(m[CurlKey(f)]) ELSE Default

Peripheral(m) ==
  [flexion |-> [f \in Fingers |-> [j \in Joints |-> Flexion(m, f, j)]],
   splay   |-> [f \in Fingers |-> IF Has(m, SplayKey(f)) THEN 2 * Number(m[SplayKey(f)]) - MaxAnalogValue ELSE 0],
   pressed |-> {b \in Buttons : Has(m, <<b>>)}]

(* og::InputPeripheralData{}: all zero.                                        *)
EmptyPeripheral ==
  [flexion |-> [f \in Fingers |-> [j \in Joints |-> 0]], splay |-> [f \in Fingers |-> 0], pressed |-> {}]

DecodePeripheralPacket(m) ==
  IF Throws(m, NumberKeys) \/ Peripheral(m) = EmptyPeripheral THEN Invalid
  ELSE [type |-> "Peripheral", data |-> Peripheral(m)]

Info(m) == [c \in InfoFields |-> IF Has(m, FieldKey(c)) THEN Number(m[FieldKey(c)]) ELSE 0]

DecodeInfoPacket(m) ==
  IF Throws(m, FieldKeys) \/ \A c \in InfoFields : Info(m)[c] = 0 THEN Invalid
  ELSE [type |-> "Info", data |-> Info(m)]

DecodePacket ==
  /\ input.type = "None" /\ i > Len(buff)
  /\ input' = IF Has(input_map, InfoKey) THEN DecodeInfoPacket(input_map) ELSE DecodePeripheralPacket(input_map)
  /\ UNCHANGED <<buff, i, input_map>>

--------------------------------------------------------------------------------
(* The grammar of a packet, without the loop: an item starts at every key      *)
(* character that no parenthesis before it reaches over key characters only;   *)
(* its key is all that the parenthesis reaches, or the one character, and its  *)
(* value the digits that follow.                                               *)
Reaches(b, p, q) == b[p] = "(" /\ \A r \in p .. q : b[r] \in KeyCharacters
ItemStarts(b)    == {q \in 1 .. Len(b) : b[q] \in KeyCharacters /\ ~\E p \in 1 .. q - 1 : Reaches(b, p, q)}
KeyAt(b, p)      == SubSeq(b, p, Max({q \in p .. Len(b) : q = p \/ Reaches(b, p, q)}))
ValueAt(b, p)    ==
  LET start == p + Len(KeyAt(b, p))
  IN SubSeq(b, start, Max({start - 1} \cup {q \in start .. Len(b) : \A r \in start .. q : b[r] \in Digits}))

(* What ParseToMap finds is what the grammar says: the known keys of the       *)
(* packet, each with the value of its last item.                               *)
ParsedByTheGrammar ==
  input.type # "None" =>
    LET last(k) == Max({p \in ItemStarts(buff) : KeyAt(buff, p) = k})
    IN /\ DOMAIN input_map = {KeyAt(buff, p) : p \in ItemStarts(buff)} \cap KnownKeys
       /\ \A k \in DOMAIN input_map : input_map[k] = ValueAt(buff, last(k))

(* A packet of inputs is rejected only if a number is missing from it or every *)
(* joint of every finger is given as zero: junk, unknown keys, torn keys and   *)
(* missing fingers are no reason to.                                           *)
RejectedWithReason ==
  input = Invalid /\ ~Has(input_map, InfoKey) =>
    \/ \E p \in ItemStarts(buff) : KeyAt(buff, p) \in NumberKeys /\ ValueAt(buff, p) = <<>>
    \/ \A f \in Fingers : \A j \in Joints :
         \E p \in ItemStarts(buff) :
           KeyAt(buff, p) \in {CurlKey(f), JointKey(f, j)} /\ ToSet(ValueAt(buff, p)) = {"0"}

(* DecodePeripheralPacket throws "Peripheral packet was empty." when the input *)
(* is all zero.  A packet without any key is not, since fingers default to -1, *)
(* and one that reports every finger fully open is.                            *)
OnlyEmptyIsEmpty ==
  input = Invalid /\ ~Throws(input_map, NumberKeys \cup FieldKeys) /\ ~Has(input_map, InfoKey)
    => DOMAIN input_map = {}

================================================================================

