----------------------------- MODULE HandTracking -----------------------------
(* How the curls of a glove's input bend the bones of a hand: the animation    *)
(* file's nodes and keyframes, which are those of a right hand, are mapped to  *)
(* SteamVR's bones, interpolated at each bone's curl, splayed, and mirrored    *)
(* for a left hand.                                                            *)
(*                                                                             *)
(* A curl is an integer, Closed standing for 1.0f; a quaternion of any length  *)
(* stands for its direction.  Fingers and joints have the letters they have in *)
(* a packet.                                                                   *)
EXTENDS DriverMath, FiniteSets, Sequences

CONSTANTS
  Bones,           \* bound: the bones of kHandSkeletonBone_* looked at
  Nodes,           \* Nodes[b]: rotation <<x, y, z, w>> and translation of a bone's node
  Channels,        \* Channels[b]: the bone's channels of the animation, in the file's order
  KeyframeTimes,   \* accessor 0
  Closed,          \* the curl 1.0f
  MaxSplay         \* the splay 1.0f

Arrays(n)     == [1 .. n -> Int]    \* of n numbers
Accessors(n)  == [DOMAIN KeyframeTimes -> Arrays(n)]

ASSUME BonesAssumption == Bones \subseteq 0 .. 30
ASSUME TimesAssumption ==    \* of glove_anim.glb, like the next two
  /\ KeyframeTimes \in Seq(Int) /\ Len(KeyframeTimes) > 1 /\ KeyframeTimes[1] = 0
  /\ \A k \in 2 .. Len(KeyframeTimes) : KeyframeTimes[k - 1] < KeyframeTimes[k]
ASSUME ModelAssumption ==
  /\ Nodes \in [Bones -> [rotation : Arrays(4), translation : Arrays(3)]]
  /\ Channels \in [Bones -> Seq([type : {"VEC4"}, keyframes : Accessors(4)] \cup [type : {"VEC3"}, keyframes : Accessors(3)])]

Root  == 0
Wrist == 1
RootFingerBone == [A |-> 2, B |-> 6, C |-> 11, D |-> 16, E |-> 21]
AuxBone        == [A |-> 26, B |-> 27, C |-> 28, D |-> 29, E |-> 30]
Metacarpals    == {RootFingerBone[f] : f \in DOMAIN RootFingerBone}
AuxBones       == {AuxBone[f] : f \in DOMAIN AuxBone}
JointsInOrder  == <<"A", "B", "C", "D">>

IsBoneSplayable(b) == b \in {2, 7, 12, 17, 22}

(* The bones that follow a finger: the thumb has one less than the others, and *)
(* the tips follow none.                                                       *)
FingerBones(f) ==
  {b \in Bones : \/ b = AuxBone[f]
                 \/ b - RootFingerBone[f] \in 0 .. (IF f = "A" THEN 2 ELSE 3)}
FingerOf(b) == {f \in DOMAIN AuxBone : b \in FingerBones(f)}

(* A bone has a channel of each type at most, no keyframe is all zero, and     *)
(* all bones that follow a finger are animated.                                *)
ASSUME ChannelsAssumption ==
  \A b \in Bones :
    /\ \A m, n \in DOMAIN Channels[b] : Channels[b][m].type = Channels[b][n].type => m = n
    /\ \A n \in DOMAIN Channels[b] : \A k \in DOMAIN KeyframeTimes :
         \E c \in DOMAIN Channels[b][n].keyframes[k] : Channels[b][n].keyframes[k][c] # 0
    /\ FingerOf(b) # {} => Channels[b] # <<>>

--------------------------------------------------------------------------------
(* Loading the model: a rotation is an array of four, a node's or keyframe's   *)
(* <<x, y, z, w>> and a Transform's <<w, x, y, z>>.                            *)
EmptyTransform == [rotation |-> <<0, 0, 0, 0>>, translation |-> <<0, 0, 0>>]
MapRotation(r) == <<r[4], r[1], r[2], r[3]>>
Minus4(r)      == [n \in 1 .. 4 |-> -r[n]]

(* The wrist and the auxiliary bones are turned by half a turn about y.        *)
HalfTurned(t, q) ==
  [rotation    |-> <<-q[3], q[4], q[1], -q[2]>>,
   translation |-> <<-t.translation[1], t.translation[2], -t.translation[3]>>]
MapRightTransform(t, b) ==
  CASE b = RootFingerBone["B"]      -> [t EXCEPT !.rotation = Minus4(t.rotation)]
    [] b = AuxBone["A"]             -> HalfTurned(t, Minus4(t.rotation))
    [] b \in {Wrist} \cup (AuxBones \ {AuxBone["A"]}) -> HalfTurned(t, t.rotation)
    [] OTHER                        -> t

\* Mutant: a channel of translations does not map the transforms.
LoadChannelUnmapped(transforms, channel, b) ==
  [k \in DOMAIN transforms |->
     IF channel.type = "VEC4"
       THEN [transforms[k] EXCEPT !.rotation = MapRotation(channel.keyframes[k])]
       ELSE [transforms[k] EXCEPT !.translation = channel.keyframes[k]]]

(* A channel of translations maps the whole transform, with the rotation it    *)
(* has by then; a channel of rotations that comes later leaves it unmapped.    *)
LoadChannel(transforms, channel, b) ==
  [k \in DOMAIN transforms |->
     IF channel.type = "VEC4"
       THEN [transforms[k] EXCEPT !.rotation = MapRotation(channel.keyframes[k])]
       ELSE MapRightTransform([transforms[k] EXCEPT !.translation = channel.keyframes[k]], b)]

InitialTransforms ==
  [b \in Bones |-> MapRightTransform([rotation    |-> MapRotation(Nodes[b].rotation),
                                      translation |-> Nodes[b].translation], b)]
KeyframeTransforms ==
  [b \in Bones |->
     LET loaded[n \in 0 .. Len(Channels[b])] ==
           IF n = 0 THEN [k \in DOMAIN KeyframeTimes |-> EmptyTransform] ELSE LoadChannel(loaded[n - 1], Channels[b][n], b)
     IN loaded[Len(Channels[b])]]

--------------------------------------------------------------------------------
(* A bone is at position / scale, all zero until it is first written, and not  *)
(* a number when the interpolation divided zero by zero.                       *)
Bone(q, p, s) == [is |-> "number", orientation |-> q, position |-> p, scale |-> s]
Unset         == Bone(Zero, <<0, 0, 0>>, 1)
NotANumber    == [Unset EXCEPT !.is = "nan"]

\* Mutant: the metacarpals are mirrored like the other bones of a finger.
TransformLeftBoneByTwo(bone, b) ==
  LET q == bone.orientation
      p == bone.position
      s == bone.scale
  IN IF b = Root \/ bone.is # "number" THEN bone
     ELSE IF b \in AuxBones \cup {Wrist} THEN Bone(Quaternion(q.w, q.x, -q.y, -q.z), <<-p[1], p[2], p[3]>>, s)
     ELSE Bone(q, <<-p[1], -p[2], -p[3]>>, s)

TransformLeftBone(bone, b) ==
  LET q == bone.orientation
      p == bone.position
      s == bone.scale
  IN IF b = Root \/ bone.is # "number" THEN bone
     ELSE CASE b \in Metacarpals           -> Bone(Quaternion(-q.x, q.w, -q.z, q.y), <<-p[1], p[2], p[3]>>, s)
            [] b \in AuxBones \cup {Wrist} -> Bone(Quaternion(q.w, q.x, -q.y, -q.z), <<-p[1], p[2], p[3]>>, s)
            [] OTHER                       -> Bone(q, <<-p[1], -p[2], -p[3]>>, s)

OfHand(hand, bone, b) == IF hand = "left" THEN TransformLeftBone(bone, b) ELSE bone

LoadDefaultSkeletonByHand(hand) ==
  [b \in Bones |->
     LET r == InitialTransforms[b].rotation
     IN OfHand(hand, Bone(Quaternion(r[1], r[2], r[3], r[4]), InitialTransforms[b].translation, 1), b)]

(* The keyframes around a curl, and the place between them, a fraction from 0  *)
(* to 1: beyond the last keyframe it is clamped infinity, at it zero by zero.  *)
Lower(curl) == Cardinality({k \in DOMAIN KeyframeTimes : KeyframeTimes[k] <= curl})
Upper(curl) == IF Lower(curl) < Len(KeyframeTimes) THEN Lower(curl) + 1 ELSE Lower(curl)
Fraction(curl) ==
  IF Lower(curl) = Upper(curl) THEN [of |-> 1, part |-> 1]
  ELSE [of   |-> KeyframeTimes[Upper(curl)] - KeyframeTimes[Lower(curl)],
        part |-> curl - KeyframeTimes[Lower(curl)]]
IsNotANumber(curl) == curl = KeyframeTimes[Len(KeyframeTimes)]

Lerp(a, b, f) == [n \in DOMAIN a |-> (f.of - f.part) * a[n] + f.part * b[n]]

(* A turn about y, by an angle that grows with the splay.                      *)
SplayTurn(splay) == IF splay = 0 THEN Quaternion(1, 0, 0, 0) ELSE Quaternion(MaxSplay, 0, splay, 0)

(* The bone at a curl in range.  A bone without keyframes of rotation gets its *)
(* node's, whose four numbers are taken in another order.                      *)
Bent(b, curl, splay, hand) ==
  LET node  == InitialTransforms[b]
      start == KeyframeTransforms[b][Lower(curl)]
      end   == KeyframeTransforms[b][Upper(curl)]
      r     == Lerp(start.rotation, end.rotation, Fraction(curl))
      t     == Lerp(start.translation, end.translation, Fraction(curl))
      n     == node.rotation
      q     == IF start.rotation # EmptyTransform.rotation
                 THEN Quaternion(r[1], r[2], r[3], r[4]) ELSE Quaternion(n[4], n[1], n[2], n[3])
      splayed == IF splay \in -MaxSplay .. MaxSplay /\ IsBoneSplayable(b) THEN Product(q, SplayTurn(splay)) ELSE q
      bone    == IF start.translation # EmptyTransform.translation
                   THEN Bone(splayed, t, Fraction(curl).of) ELSE Bone(splayed, node.translation, 1)
  IN IF IsNotANumber(curl) /\ start # EmptyTransform THEN NotANumber ELSE OfHand(hand, bone, b)

\* Mutant: the curl is clamped to its range.
SetTransformClamped(bone, b, curl, splay, hand) ==
  Bent(b, IF curl < 0 THEN 0 ELSE IF curl > Closed THEN Closed ELSE curl, splay, hand)

(* A curl out of range leaves the bone as it is.                               *)
SetTransformForBone(bone, b, curl, splay, hand) ==
  IF curl \in 0 .. Closed THEN Bent(b, curl, splay, hand) ELSE bone

(* A joint's curl, and GetAverageFingerCurlValue, in quarters of a flexion.    *)
CurlOf(flexion, f, b) ==
  IF b = AuxBone[f] THEN flexion[f]["A"] + flexion[f]["B"] + flexion[f]["C"] + flexion[f]["D"]
  ELSE 4 * flexion[f][JointsInOrder[b - RootFingerBone[f] + 1]]

ComputeBoneTransforms(skeleton, data, hand) ==
  [b \in Bones |->
     IF FingerOf(b) = {} THEN skeleton[b]
     ELSE LET f == CHOOSE f \in FingerOf(b) : TRUE
          IN SetTransformForBone(skeleton[b], b, CurlOf(data.flexion, f, b), data.splay[f], hand)]

================================================================================
