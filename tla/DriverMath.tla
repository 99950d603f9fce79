------------------------------ MODULE DriverMath ------------------------------
(* The formulas of the driver over quaternions, vectors and matrices, in exact *)
(* arithmetic.                                                                 *)
(*                                                                             *)
(* A quaternion is a record of integers that stands for the unit quaternion    *)
(* of its direction.  The conversions to and from Euler angles and matrices    *)
(* are exact for the orientations that map axes to axes: the components of     *)
(* such a quaternion that are not zero have the same magnitude, so that Unit   *)
(* keeps their signs only, and its angles are whole quarter turns.  Zero, the  *)
(* quaternion of a vr::DriverPose_t{}, is no rotation at all.                  *)
EXTENDS Integers

Quaternions == [w : Int, x : Int, y : Int, z : Int]
Vectors     == Int \X Int \X Int
Matrices    == [1 .. 3 -> [1 .. 4 -> Int]]    \* the rows of a vr::HmdMatrix34_t

Quaternion(w, x, y, z) == [w |-> w, x |-> x, y |-> y, z |-> z]
Zero == Quaternion(0, 0, 0, 0)
Norm(q) == q.w * q.w + q.x * q.x + q.y * q.y + q.z * q.z

(* The orientations that map axes to axes, each with its two quaternions.      *)
Turns == {q \in [w : -1 .. 1, x : -1 .. 1, y : -1 .. 1, z : -1 .. 1] : Norm(q) \in {1, 2, 4}}

Sign(n) == IF n > 0 THEN 1 ELSE IF n < 0 THEN -1 ELSE 0
Unit[q \in Quaternions] == Quaternion(Sign(q.w), Sign(q.x), Sign(q.y), Sign(q.z))
Negated(q) == Quaternion(-q.w, -q.x, -q.y, -q.z)

(* Operators - and * of quaternions.                                           *)
Conjugate(q) == Quaternion(q.w, -q.x, -q.y, -q.z)
Multiplied[p \in Quaternions \X Quaternions] ==
  LET a == p[1]
      b == p[2]
  IN Quaternion(a.w * b.w - a.x * b.x - a.y * b.y - a.z * b.z,
                a.w * b.x + a.x * b.w + a.y * b.z - a.z * b.y,
                a.w * b.y - a.x * b.z + a.y * b.w + a.z * b.x,
                a.w * b.z + a.x * b.y - a.y * b.x + a.z * b.w)
Product(a, b) == Multiplied[<<a, b>>]

(* Operators + and - of vectors, and * of a vector and a quaternion.           *)
Plus(u, v)  == <<u[1] + v[1], u[2] + v[2], u[3] + v[3]>>
Minus(u, v) == <<u[1] - v[1], u[2] - v[2], u[3] - v[3]>>
Scaled[p \in Quaternions \X (Nat \ {0})] ==
  LET r == p[1]
      n == p[2]
  IN <<r.x \div n, r.y \div n, r.z \div n>>
Rotated(v, q) ==
  Scaled[<<Product(Product(q, Quaternion(0, v[1], v[2], v[3])), Conjugate(q)), IF q = Zero THEN 1 ELSE Norm(q)>>]

MatrixToPosition(m) == <<m[1][4], m[2][4], m[3][4]>>

(* Each component is the square root of a sum that may not be negative, with   *)
(* the sign of a difference that may be zero.                                  *)
MatrixToOrientation(m) ==
  LET root(n)    == IF n > 0 THEN 1 ELSE 0
      copy(r, d) == IF d < 0 THEN -r ELSE r
  IN Quaternion(root(1 + m[1][1] + m[2][2] + m[3][3]),
                copy(root(1 + m[1][1] - m[2][2] - m[3][3]), m[3][2] - m[2][3]),
                copy(root(1 - m[1][1] + m[2][2] - m[3][3]), m[1][3] - m[3][1]),
                copy(root(1 - m[1][1] - m[2][2] + m[3][3]), m[2][1] - m[1][2]))

(* The matrices of the poses modelled: those of Turns, and one of zeros.       *)
TurnMatrices == {m \in Matrices : MatrixToOrientation(m) \in Turns}

(* The matrix of a quaternion's rotation, times the quaternion's norm.         *)
Rotation(q) ==
  <<<<q.w * q.w + q.x * q.x - q.y * q.y - q.z * q.z, 2 * (q.x * q.y - q.w * q.z), 2 * (q.x * q.z + q.w * q.y)>>,
    <<2 * (q.x * q.y + q.w * q.z), q.w * q.w - q.x * q.x + q.y * q.y - q.z * q.z, 2 * (q.y * q.z - q.w * q.x)>>,
    <<2 * (q.x * q.z - q.w * q.y), 2 * (q.y * q.z + q.w * q.x), q.w * q.w - q.x * q.x - q.y * q.y + q.z * q.z>>>>

--------------------------------------------------------------------------------
(* Angles in quarter turns, from -1 to 2, and the cosine and sine of half of   *)
(* one, times the same positive number.                                        *)
HalfCos(a) == IF a = 2 THEN 0 ELSE 1
HalfSin(a) == CASE a = 0 -> 0 [] a \in {1, 2} -> 1 [] a = -1 -> -1

EulerToQuaternion(yaw, pitch, roll) ==
  LET cy == HalfCos(yaw)   sy == HalfSin(yaw)
      cp == HalfCos(pitch) sp == HalfSin(pitch)
      cr == HalfCos(roll)  sr == HalfSin(roll)
  IN Unit[Quaternion(cr * cp * cy + sr * sp * sy, sr * cp * cy - cr * sp * sy,
                     cr * sp * cy + sr * cp * sy, cr * cp * sy - sr * sp * cy)]

Atan2(y, x) == IF y # 0 THEN Sign(y) ELSE IF x < 0 THEN 2 ELSE 0

(* At a pitch of a quarter turn both arguments of each atan2 are zero.         *)
QuaternionToEuler(q) ==
  [roll  |-> Atan2(q.w * q.x + q.y * q.z, Norm(q) - 2 * (q.x * q.x + q.y * q.y)),
   pitch |-> Sign(q.w * q.y - q.z * q.x),
   yaw   |-> Atan2(q.w * q.z + q.x * q.y, Norm(q) - 2 * (q.y * q.y + q.z * q.z))]

================================================================================
