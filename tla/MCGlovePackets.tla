---------------------------- MODULE MCGlovePackets ----------------------------
(* GlovePackets for TLC: the packets are all concatenations of up to MaxPieces *)
(* pieces, which make up whole keys and values and torn ones, and pairs of     *)
(* packets of whole items; the model is of some bones of a thumb and of an     *)
(* index finger.                                                               *)
EXTENDS GlovePackets

CONSTANT MaxPieces

Pieces == {<<"A">>, <<"(">>, <<"A", "A", "A", ")">>, <<"A", "B", ")">>, <<"Z">>, <<"Z", "V", ")">>,
           <<"H">>, <<"0">>, <<"1">>, <<"~">>,
           <<"A", "0", "B", "0", "C", "0", "D", "0", "E", "0">>}
TornPackets == UNION {{FlattenSeq(p) : p \in [1 .. n -> Pieces]} : n \in 0 .. MaxPieces}

Items == {<<f, v>> : f \in {"A", "B"}, v \in {"0", "1", "2", "3", "4", "5"}}
           \cup {<<"(", f, "A", j, ")", v>> : f \in {"A", "B"}, j \in {"B", "D"}, v \in {"1", "3"}}
           \cup {<<"(", f, "B", ")", v>> : f \in {"A", "B"}, v \in {"0", "2", "4", "5"}}
Pairs == {p \o q : p \in Items, q \in Items}

MCStreams == {<<p>> : p \in TornPackets} \cup {<<p, q>> : p \in Items, q \in Pairs}

--------------------------------------------------------------------------------
MCBones == {0, 1, 2, 3, 6, 7, 26, 27}

(* Turns by a quarter, a half and a third, told apart by every mapping.        *)
Turn(b) ==
  CASE b \in {0, 7} -> <<0, 0, 0, 1>> [] b \in {1, 26} -> <<1, 1, -1, 1>> [] b = 2 -> <<1, 0, 0, 1>>
    [] b \in {3, 27} -> <<0, -1, 0, 1>> [] b = 6 -> <<1, 0, -1, 0>>
Place(b) == <<8 * b, 8, -16>>

MCNodes == [b \in MCBones |-> [rotation |-> Turn(b), translation |-> Place(b)]]

Rotations(b)    == [type |-> "VEC4", keyframes |-> <<Turn(b), <<0, 0, 1, 1>>, <<0, 1, 1, -1>>>>]
Translations(b) == [type |-> "VEC3", keyframes |-> <<Place(b), <<0, 16, 8>>, <<8, -24, 0>>>>]

(* Rotations first, after the translations, alone, or not at all.              *)
MCChannels ==
  [b \in MCBones |-> CASE b \in {0, 1}    -> <<>>
                       [] b \in {2, 6, 26} -> <<Rotations(b), Translations(b)>>
                       [] b = 3            -> <<Rotations(b)>>
                       [] b = 27           -> <<Translations(b), Rotations(b)>>
                       [] b = 7            -> <<Translations(b)>>]
MCKeyframeTimes == <<0, 8, 12>>

================================================================================
