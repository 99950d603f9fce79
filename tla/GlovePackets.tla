----------------------------- MODULE GlovePackets -----------------------------
(* From the packets of a pair of gloves to the bones of both hands: each       *)
(* packet is decoded, LucidglovesDevice passes on the inputs of type           *)
(* Peripheral, and KnuckleDeviceDriver bends its hand by them; Activate gives  *)
(* it the default skeleton.  The wearer moves both hands alike, so that both   *)
(* gloves send the same packets and the two hands can be compared.             *)
EXTENDS AlphaEncoding, HandTracking

CONSTANT Streams   \* bound: the sequences of packets a pair of gloves may send

ASSUME StreamsAssumption == \A s \in Streams : s \in Seq(Seq(STRING)) /\ s # <<>>
ASSUME CurlsAssumption   == Closed = Cardinality(Joints) * MaxAnalogValue /\ MaxSplay = MaxAnalogValue

Hands == {"left", "right"}

VARIABLES
  stream,      \* the packets that are still to come
  skeleton,    \* skeleton_ of each hand
  activated    \* SteamVR has called Activate

gloveVars == <<decoding, stream, skeleton, activated>>

GloveInit ==
  \E s \in Streams :
    /\ buff = Head(s) /\ stream = Tail(s) /\ i = 1 /\ input_map = <<>> /\ input = [type |-> "None"]
    /\ skeleton = [h \in Hands |-> [b \in Bones |-> Unset]] /\ activated = FALSE

Decode == (SkipJunk \/ ParseItem \/ DecodePacket) /\ UNCHANGED <<stream, skeleton, activated>>

(* The callbacks of a decoded packet; then the next packet arrives.            *)
Deliver ==
  /\ input.type \notin {"None", "Delivered"}
  /\ skeleton' = IF input.type # "Peripheral" THEN skeleton
                 ELSE [h \in Hands |-> ComputeBoneTransforms(skeleton[h], input.data, h)]
  /\ IF stream = <<>>
       THEN input' = [type |-> "Delivered"] /\ UNCHANGED <<buff, i, input_map, stream>>
       ELSE buff' = Head(stream) /\ stream' = Tail(stream) /\ i' = 1 /\ input_map' = <<>> /\ input' = [type |-> "None"]
  /\ UNCHANGED activated

Activate ==
  /\ ~activated /\ activated' = TRUE
  /\ skeleton' = [h \in Hands |-> LoadDefaultSkeletonByHand(h)]
  /\ UNCHANGED <<decoding, stream>>

GloveNext == Decode \/ Deliver \/ Activate

GloveSpec == GloveInit /\ [][GloveNext]_gloveVars

--------------------------------------------------------------------------------
Moving(b) == FingerOf(b) # {}
CurlIn(data, b)  == CurlOf(data.flexion, CHOOSE f \in FingerOf(b) : TRUE, b)
SplayIn(data, b) == data.splay[CHOOSE f \in FingerOf(b) : TRUE]

(* Where the keyframe k has a bone: at its node, if the animation only turns   *)
(* it.                                                                         *)
PlaceAt(b, k) ==
  IF \E n \in DOMAIN Channels[b] : Channels[b][n].type = "VEC3" THEN KeyframeTransforms[b][k].translation
  ELSE InitialTransforms[b].translation

(* A bone goes where the curl says: to the place between the two keyframes     *)
(* around it, and to the last keyframe beyond that; a curl out of range, such  *)
(* as the -1 of a finger the packet does not name, leaves it where it was; and *)
(* it is lost, not a number, at the last keyframe exactly.                     *)
Follows(b, curl, old, bone) ==
  LET last == Len(KeyframeTimes)
  IN IF curl < 0 \/ curl > Closed THEN bone = old
     ELSE /\ (bone = NotANumber) <=> (curl = KeyframeTimes[last])
          /\ curl > KeyframeTimes[last] =>
               \A n \in 1 .. 3 : bone.position[n] = bone.scale * PlaceAt(b, last)[n]
          /\ \A k \in 1 .. last - 1 : curl \in KeyframeTimes[k] .. KeyframeTimes[k + 1] - 1 =>
               \A n \in 1 .. 3 :
                 (bone.position[n] - bone.scale * PlaceAt(b, k)[n]) * (KeyframeTimes[k + 1] - KeyframeTimes[k])
                   = bone.scale * (PlaceAt(b, k + 1)[n] - PlaceAt(b, k)[n]) * (curl - KeyframeTimes[k])

(* The right hand's bones go where the packet says.                            *)
BonesFollowTheCurl ==
  [][\A b \in Bones :
       input.type = "Peripheral" /\ input'.type # "Peripheral" /\ Moving(b) =>
         Follows(b, CurlIn(input.data, b), skeleton["right"][b], skeleton'["right"][b])]_gloveVars

(* The axes of a bone's frame that a reflection of the hand turns around: all  *)
(* three of a finger's bones, x for the others.  A bone's transform is that    *)
(* from its own frame to its parent's.                                         *)
Reflected(b) == IF b \in AuxBones \cup {Root, Wrist} THEN <<-1, 1, 1>> ELSE <<-1, -1, -1>>
Parent(b)    == CASE b \in Metacarpals -> Wrist [] b \in AuxBones \cup {Wrist} -> Root [] OTHER -> b

(* The left hand is at any time the mirror image of the right one, bone by     *)
(* bone, in place and in rotation: reflecting the packets' hand and following  *)
(* the packets can be swapped.                                                 *)
HandsAreMirrored ==
  \A b \in Bones \ {Root} :
    LET left  == skeleton["left"][b]
        right == skeleton["right"][b]
    IN /\ left.is = right.is
       /\ right.is = "number" =>
            /\ left.scale = right.scale
            /\ Norm(left.orientation) = Norm(right.orientation)
            /\ \A m \in 1 .. 3 :
                 /\ left.position[m] = Reflected(Parent(b))[m] * right.position[m]
                 /\ \A n \in 1 .. 3 :
                      Rotation(left.orientation)[m][n]
                        = Reflected(Parent(b))[m] * Rotation(right.orientation)[m][n] * Reflected(b)[n]

(* The animation turns the bone and starts at rest: its node is where its      *)
(* first keyframe is.                                                          *)
StartsAtRest(b) ==
  /\ \E k \in DOMAIN Channels[b] : Channels[b][k].type = "VEC4"
  /\ \A k \in DOMAIN Channels[b] :
       Channels[b][k].keyframes[1] = IF Channels[b][k].type = "VEC4" THEN Nodes[b].rotation ELSE Nodes[b].translation
TurnedLast(b) ==
  b \in AuxBones /\ Channels[b][Len(Channels[b])].type = "VEC4"

SameRotation(p, q) ==
  \A m, n \in 1 .. 3 : Rotation(p)[m][n] * Norm(q) = Rotation(q)[m][n] * Norm(p)
Alike(bone, default) ==
  /\ \A n \in 1 .. 3 : bone.position[n] = bone.scale * default.position[n]
  /\ SameRotation(bone.orientation, default.orientation)

(* A hand reported open and not splayed looks like the default one, whether    *)
(* the packet or Activate came last: the two ways the model's data takes       *)
(* agree.  They do not for a bone without rotations in the animation, whose    *)
(* node's are taken in another order, nor for an auxiliary bone whose          *)
(* rotations the file lists after its translations, half a turn apart.  The    *)
(* file shipped has none of the former, and all its auxiliary bones are of the *)
(* latter.                                                                     *)
OpenHandIsTheDefault ==
  [][\A h \in Hands, b \in Bones :
       /\ input.type = "Peripheral" /\ input'.type # "Peripheral"
       /\ Moving(b) /\ StartsAtRest(b) /\ ~TurnedLast(b)
       /\ CurlIn(input.data, b) = 0 /\ (IsBoneSplayable(b) => SplayIn(input.data, b) = 0)
       => Alike(skeleton'[h][b], LoadDefaultSkeletonByHand(h)[b])]_gloveVars

================================================================================
