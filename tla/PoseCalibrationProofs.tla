------------------------- MODULE PoseCalibrationProofs -------------------------
(* Machine-checked proofs about PoseCalibration and the arithmetic of          *)
(* DriverMath it is built from, for any workers, poses, settings and bounds.   *)
EXTENDS PoseCalibration, TLAPS

--------------------------------------------------------------------------------
(* Quaternions: turns are closed under the product, a product and a rotation   *)
(* are undone by the conjugate, and the angles of a turn give it back.         *)

\* What the operators on quaternions return, component by component.
LEMMA QuaternionType ==
  /\ \A q \in Quaternions : /\ q.w \in Int /\ q.x \in Int /\ q.y \in Int /\ q.z \in Int
                            /\ q = Quaternion(q.w, q.x, q.y, q.z)
  /\ \A w, x, y, z \in Int : Quaternion(w, x, y, z) \in Quaternions
  /\ \A q \in Quaternions : Conjugate(q) \in Quaternions
  BY DEF Quaternions, Quaternion, Conjugate

\* The product of two quaternions is one, component by component.
LEMMA ProductIs ==
  ASSUME NEW a \in Quaternions, NEW b \in Quaternions
  PROVE  /\ Product(a, b) \in Quaternions
         /\ Product(a, b).w = a.w * b.w - a.x * b.x - a.y * b.y - a.z * b.z
         /\ Product(a, b).x = a.w * b.x + a.x * b.w + a.y * b.z - a.z * b.y
         /\ Product(a, b).y = a.w * b.y - a.x * b.z + a.y * b.w + a.z * b.x
         /\ Product(a, b).z = a.w * b.z + a.x * b.y - a.y * b.x + a.z * b.w
<1> DEFINE P == Quaternion(a.w * b.w - a.x * b.x - a.y * b.y - a.z * b.z,
                           a.w * b.x + a.x * b.w + a.y * b.z - a.z * b.y,
                           a.w * b.y - a.x * b.z + a.y * b.w + a.z * b.x,
                           a.w * b.z + a.x * b.y - a.y * b.x + a.z * b.w)
<1>1. Product(a, b) = P
  BY DEF Product, Multiplied
<1>2. P \in Quaternions
  <2>1. /\ a.w \in Int /\ a.x \in Int /\ a.y \in Int /\ a.z \in Int
        /\ b.w \in Int /\ b.x \in Int /\ b.y \in Int /\ b.z \in Int
    BY QuaternionType
  <2>2. /\ a.w * b.w - a.x * b.x - a.y * b.y - a.z * b.z \in Int
        /\ a.w * b.x + a.x * b.w + a.y * b.z - a.z * b.y \in Int
        /\ a.w * b.y - a.x * b.z + a.y * b.w + a.z * b.x \in Int
        /\ a.w * b.z + a.x * b.y - a.y * b.x + a.z * b.w \in Int
    BY <2>1
  <2> QED
    BY <2>2 DEF Quaternion, Quaternions
<1>3. /\ P.w = a.w * b.w - a.x * b.x - a.y * b.y - a.z * b.z
      /\ P.x = a.w * b.x + a.x * b.w + a.y * b.z - a.z * b.y
      /\ P.y = a.w * b.y - a.x * b.z + a.y * b.w + a.z * b.x
      /\ P.z = a.w * b.z + a.x * b.y - a.y * b.x + a.z * b.w
  BY DEF Quaternion
<1> QED
  BY <1>1, <1>2, <1>3

\* Unit keeps the signs of the components.
LEMMA UnitIs ==
  ASSUME NEW q \in Quaternions
  PROVE  /\ Unit[q] = Quaternion(Sign(q.w), Sign(q.x), Sign(q.y), Sign(q.z))
         /\ Unit[q] \in Quaternions
         /\ Unit[q].w = Sign(q.w) /\ Unit[q].x = Sign(q.x) /\ Unit[q].y = Sign(q.y) /\ Unit[q].z = Sign(q.z)
  BY DEF Unit, Quaternions, Quaternion, Sign

\* A turn has components up to one, and its conjugate is a turn of the same norm.
LEMMA TurnsType ==
  /\ Turns \subseteq Quaternions
  /\ \A q \in Turns : /\ q.w \in -1 .. 1 /\ q.x \in -1 .. 1 /\ q.y \in -1 .. 1 /\ q.z \in -1 .. 1
                      /\ Norm(q) \in {1, 2, 4}
  /\ \A q \in Turns : Conjugate(q) \in Turns /\ Norm(Conjugate(q)) = Norm(q) /\ q # Zero
<1>1. \A q \in Turns : /\ q.w \in -1 .. 1 /\ q.x \in -1 .. 1 /\ q.y \in -1 .. 1 /\ q.z \in -1 .. 1
                      /\ Norm(q) \in {1, 2, 4} /\ q \in Quaternions
  BY DEF Turns, Quaternions
<1>2. ASSUME NEW q \in Turns PROVE Conjugate(q) \in Turns /\ Norm(Conjugate(q)) = Norm(q)
  BY <1>1 DEF Conjugate, Quaternion, Turns, Norm
<1>3. ASSUME NEW q \in Turns PROVE q # Zero
  BY <1>1 DEF Zero, Norm, Quaternion
<1> QED
  BY <1>1, <1>2, <1>3

\* The Turns are closed under the product (operator* and the sign of each component).
LEMMA ProductOfTurns ==
  ASSUME NEW a \in Turns, NEW b \in Turns
  PROVE  Unit[Product(a, b)] \in Turns
<1>1. /\ a.w \in -1 .. 1 /\ a.x \in -1 .. 1 /\ a.y \in -1 .. 1 /\ a.z \in -1 .. 1
      /\ b.w \in -1 .. 1 /\ b.x \in -1 .. 1 /\ b.y \in -1 .. 1 /\ b.z \in -1 .. 1
      /\ a.w * a.w + a.x * a.x + a.y * a.y + a.z * a.z \in {1, 2, 4}
      /\ b.w * b.w + b.x * b.x + b.y * b.y + b.z * b.z \in {1, 2, 4}
  BY TurnsType DEF Norm
<1> DEFINE w == Sign(a.w * b.w - a.x * b.x - a.y * b.y - a.z * b.z)
           x == Sign(a.w * b.x + a.x * b.w + a.y * b.z - a.z * b.y)
           y == Sign(a.w * b.y - a.x * b.z + a.y * b.w + a.z * b.x)
           z == Sign(a.w * b.z + a.x * b.y - a.y * b.x + a.z * b.w)
<1>2. /\ w \in -1 .. 1 /\ x \in -1 .. 1 /\ y \in -1 .. 1 /\ z \in -1 .. 1
      /\ w * w + x * x + y * y + z * z \in {1, 2, 4}
  BY <1>1, SMTT(60) DEF Sign
<1>3. Unit[Product(a, b)] = Quaternion(w, x, y, z)
  BY TurnsType, ProductIs, UnitIs
<1> HIDE DEF w, x, y, z
<1> QED
  BY <1>2, <1>3 DEF Turns, Norm, Quaternion

\* Turning back.
LEMMA ProductUndone ==
  ASSUME NEW c \in Turns, NEW h \in Turns \cup {Zero}
  PROVE  Unit[Product(c, Unit[Product(Conjugate(c), h)])] = h
<1>1. c.w \in -1 .. 1 /\ c.x \in -1 .. 1 /\ c.y \in -1 .. 1 /\ c.z \in -1 .. 1
      /\ c.w * c.w + c.x * c.x + c.y * c.y + c.z * c.z \in {1, 2, 4}
  BY TurnsType DEF Norm
<1>2. /\ h.w \in -1 .. 1 /\ h.x \in -1 .. 1 /\ h.y \in -1 .. 1 /\ h.z \in -1 .. 1
      /\ h.w * h.w + h.x * h.x + h.y * h.y + h.z * h.z \in {0, 1, 2, 4}
  BY TurnsType DEF Norm, Zero, Quaternion
<1>3. h \in Quaternions /\ c \in Quaternions /\ Conjugate(c) \in Quaternions
  BY TurnsType, QuaternionType DEF Zero
<1> DEFINE d == Unit[Product(Conjugate(c), h)]
<1>4. d \in Quaternions /\ d.w \in Int /\ d.x \in Int /\ d.y \in Int /\ d.z \in Int
  BY <1>3, ProductIs, UnitIs, QuaternionType
<1>5. /\ d.w = Sign(c.w * h.w + c.x * h.x + c.y * h.y + c.z * h.z)
      /\ d.x = Sign(c.w * h.x - c.x * h.w - c.y * h.z + c.z * h.y)
      /\ d.y = Sign(c.w * h.y + c.x * h.z - c.y * h.w - c.z * h.x)
      /\ d.z = Sign(c.w * h.z - c.x * h.y + c.y * h.x - c.z * h.w)
  <2>0. Conjugate(c).w = c.w /\ Conjugate(c).x = -c.x /\ Conjugate(c).y = -c.y /\ Conjugate(c).z = -c.z
    BY DEF Conjugate, Quaternion
  <2> DEFINE p == Product(Conjugate(c), h)
  <2>1. p \in Quaternions /\ d.w = Sign(p.w) /\ d.x = Sign(p.x) /\ d.y = Sign(p.y) /\ d.z = Sign(p.z)
    BY <1>3, ProductIs, UnitIs
  <2>2. /\ p.w = c.w * h.w + c.x * h.x + c.y * h.y + c.z * h.z
        /\ p.x = c.w * h.x - c.x * h.w - c.y * h.z + c.z * h.y
        /\ p.y = c.w * h.y + c.x * h.z - c.y * h.w - c.z * h.x
        /\ p.z = c.w * h.z - c.x * h.y + c.y * h.x - c.z * h.w
    <3> HIDE DEF p
    <3>1. /\ p.w = Conjugate(c).w * h.w - Conjugate(c).x * h.x - Conjugate(c).y * h.y - Conjugate(c).z * h.z
          /\ p.x = Conjugate(c).w * h.x + Conjugate(c).x * h.w + Conjugate(c).y * h.z - Conjugate(c).z * h.y
          /\ p.y = Conjugate(c).w * h.y - Conjugate(c).x * h.z + Conjugate(c).y * h.w + Conjugate(c).z * h.x
          /\ p.z = Conjugate(c).w * h.z + Conjugate(c).x * h.y - Conjugate(c).y * h.x + Conjugate(c).z * h.w
      BY <1>3, ProductIs DEF p
    <3> QED
      BY <3>1, <2>0, <1>1, <1>2, SMTT(60)
  <2> QED
    BY <2>1, <2>2
<1> HIDE DEF d
<1>6. /\ Sign(c.w * d.w - c.x * d.x - c.y * d.y - c.z * d.z) = h.w
      /\ Sign(c.w * d.x + c.x * d.w + c.y * d.z - c.z * d.y) = h.x
      /\ Sign(c.w * d.y - c.x * d.z + c.y * d.w + c.z * d.x) = h.y
      /\ Sign(c.w * d.z + c.x * d.y - c.y * d.x + c.z * d.w) = h.z
  BY <1>1, <1>2, <1>4, <1>5, SMTT(60) DEF Sign
<1>7. Unit[Product(c, d)] = Quaternion(h.w, h.x, h.y, h.z)
  BY <1>3, <1>4, <1>6, ProductIs, UnitIs
<1> QED
  BY <1>3, <1>7, QuaternionType DEF d

\* Turning the vector <<i, j, k>> by the quaternion from both sides, in integers.
Turning(w, x, y, z, i, j, k) ==
  LET a == -(x * i) - y * j - z * k
      b == w * i + y * k - z * j
      c == w * j - x * k + z * i
      d == w * k + x * j - y * i
  IN /\ a * (-x) + b * w + c * (-z) - d * (-y)
          = (w * w + x * x - y * y - z * z) * i + (2 * (x * y - w * z)) * j + (2 * (x * z + w * y)) * k
     /\ a * (-y) - b * (-z) + c * w + d * (-x)
          = (2 * (x * y + w * z)) * i + (w * w - x * x + y * y - z * z) * j + (2 * (y * z - w * x)) * k
     /\ a * (-z) + b * (-y) - c * (-x) + d * w
          = (2 * (x * z - w * y)) * i + (2 * (y * z + w * x)) * j + (w * w - x * x - y * y + z * z) * k

\* It holds for every quaternion and vector.
LEMMA TurningHolds ==
  ASSUME NEW w \in Int, NEW x \in Int, NEW y \in Int, NEW z \in Int,
         NEW i \in Int, NEW j \in Int, NEW k \in Int
  PROVE  Turning(w, x, y, z, i, j, k)
  BY DEF Turning

\* What turns a vector in the formula of the code is the matrix of the quaternion.
LEMMA TurnedIs ==
  ASSUME NEW q \in Quaternions, NEW v \in Vectors
  PROVE  LET p == Product(Product(q, Quaternion(0, v[1], v[2], v[3])), Conjugate(q))
         IN /\ p \in Quaternions
            /\ p.x = Rotation(q)[1][1] * v[1] + Rotation(q)[1][2] * v[2] + Rotation(q)[1][3] * v[3]
            /\ p.y = Rotation(q)[2][1] * v[1] + Rotation(q)[2][2] * v[2] + Rotation(q)[2][3] * v[3]
            /\ p.z = Rotation(q)[3][1] * v[1] + Rotation(q)[3][2] * v[2] + Rotation(q)[3][3] * v[3]
<1>1. /\ q.w \in Int /\ q.x \in Int /\ q.y \in Int /\ q.z \in Int
      /\ v[1] \in Int /\ v[2] \in Int /\ v[3] \in Int
  BY QuaternionType DEF Vectors
<1> DEFINE u == Quaternion(0, v[1], v[2], v[3])
           c == Conjugate(q)
           s == Product(q, u)
           p == Product(s, c)
<1>2. /\ u \in Quaternions /\ u.w = 0 /\ u.x = v[1] /\ u.y = v[2] /\ u.z = v[3]
      /\ c \in Quaternions /\ c.w = q.w /\ c.x = -q.x /\ c.y = -q.y /\ c.z = -q.z
  BY <1>1 DEF Quaternion, Quaternions, Conjugate
<1> HIDE DEF u, c
<1>3. /\ s \in Quaternions
      /\ s.w = q.w * 0 - q.x * v[1] - q.y * v[2] - q.z * v[3]
      /\ s.x = q.w * v[1] + q.x * 0 + q.y * v[3] - q.z * v[2]
      /\ s.y = q.w * v[2] - q.x * v[3] + q.y * 0 + q.z * v[1]
      /\ s.z = q.w * v[3] + q.x * v[2] - q.y * v[1] + q.z * 0
  BY <1>2, ProductIs
<1>4. s.w \in Int /\ s.x \in Int /\ s.y \in Int /\ s.z \in Int
  BY <1>3, QuaternionType
<1> HIDE DEF s
<1>5. /\ p \in Quaternions
      /\ p.x = s.w * (-q.x) + s.x * q.w + s.y * (-q.z) - s.z * (-q.y)
      /\ p.y = s.w * (-q.y) - s.x * (-q.z) + s.y * q.w + s.z * (-q.x)
      /\ p.z = s.w * (-q.z) + s.x * (-q.y) - s.y * (-q.x) + s.z * q.w
  BY <1>2, <1>3, ProductIs
<1> HIDE DEF p
<1>6. /\ p.x = Rotation(q)[1][1] * v[1] + Rotation(q)[1][2] * v[2] + Rotation(q)[1][3] * v[3]
      /\ p.y = Rotation(q)[2][1] * v[1] + Rotation(q)[2][2] * v[2] + Rotation(q)[2][3] * v[3]
      /\ p.z = Rotation(q)[3][1] * v[1] + Rotation(q)[3][2] * v[2] + Rotation(q)[3][3] * v[3]
  <2>1. /\ Rotation(q)[1][1] = q.w * q.w + q.x * q.x - q.y * q.y - q.z * q.z
        /\ Rotation(q)[1][2] = 2 * (q.x * q.y - q.w * q.z)
        /\ Rotation(q)[1][3] = 2 * (q.x * q.z + q.w * q.y)
        /\ Rotation(q)[2][1] = 2 * (q.x * q.y + q.w * q.z)
        /\ Rotation(q)[2][2] = q.w * q.w - q.x * q.x + q.y * q.y - q.z * q.z
        /\ Rotation(q)[2][3] = 2 * (q.y * q.z - q.w * q.x)
        /\ Rotation(q)[3][1] = 2 * (q.x * q.z - q.w * q.y)
        /\ Rotation(q)[3][2] = 2 * (q.y * q.z + q.w * q.x)
        /\ Rotation(q)[3][3] = q.w * q.w - q.x * q.x - q.y * q.y + q.z * q.z
    BY DEF Rotation
  <2>2. /\ s.w = -(q.x * v[1]) - q.y * v[2] - q.z * v[3]
        /\ s.x = q.w * v[1] + q.y * v[3] - q.z * v[2]
        /\ s.y = q.w * v[2] - q.x * v[3] + q.z * v[1]
        /\ s.z = q.w * v[3] + q.x * v[2] - q.y * v[1]
    BY <1>1, <1>3
  <2> QED
    <3>1. /\ p.x = (q.w * q.w + q.x * q.x - q.y * q.y - q.z * q.z) * v[1]
                    + (2 * (q.x * q.y - q.w * q.z)) * v[2] + (2 * (q.x * q.z + q.w * q.y)) * v[3]
          /\ p.y = (2 * (q.x * q.y + q.w * q.z)) * v[1]
                    + (q.w * q.w - q.x * q.x + q.y * q.y - q.z * q.z) * v[2] + (2 * (q.y * q.z - q.w * q.x)) * v[3]
          /\ p.z = (2 * (q.x * q.z - q.w * q.y)) * v[1] + (2 * (q.y * q.z + q.w * q.x)) * v[2]
                    + (q.w * q.w - q.x * q.x - q.y * q.y + q.z * q.z) * v[3]
      <4>1. Turning(q.w, q.x, q.y, q.z, v[1], v[2], v[3])
        BY <1>1, TurningHolds
      <4> QED
        BY <1>5, <2>2, <4>1 DEF Turning
    <3> QED
      BY <2>1, <3>1
<1> QED
  BY <1>5, <1>6 DEF p, s, u, c

\* A turn maps axes to axes.
LEMMA RotationOfTurn ==
  ASSUME NEW q \in Turns, NEW m \in 1 .. 3, NEW n \in 1 .. 3
  PROVE  Rotation(q)[m][n] \in {-Norm(q), 0, Norm(q)}
 BY SMTT(60) DEF Rotation, Norm, Turns

\* A turn takes vectors of integers to vectors of integers: nothing is lost in the division.
LEMMA RotatedIs ==
  ASSUME NEW q \in Turns, NEW v \in Vectors
  PROVE  /\ Rotated(v, q) \in Vectors
         /\ \A m \in 1 .. 3 : Norm(q) * Rotated(v, q)[m]
              = Rotation(q)[m][1] * v[1] + Rotation(q)[m][2] * v[2] + Rotation(q)[m][3] * v[3]
<1> DEFINE N == Norm(q)
           p == Product(Product(q, Quaternion(0, v[1], v[2], v[3])), Conjugate(q))
           R(m) == Rotation(q)[m][1] * v[1] + Rotation(q)[m][2] * v[2] + Rotation(q)[m][3] * v[3]
<1>1. p \in Quaternions /\ p.x = R(1) /\ p.y = R(2) /\ p.z = R(3)
  BY TurnsType, TurnedIs
<1>2. N \in {1, 2, 4} /\ N \in Nat \ {0} /\ q # Zero
  BY TurnsType
<1>3. v[1] \in Int /\ v[2] \in Int /\ v[3] \in Int
  BY DEF Vectors
<1> HIDE DEF p
<1>4. Rotated(v, q) = <<p.x \div N, p.y \div N, p.z \div N>>
  <2>1. Rotated(v, q) = Scaled[<<p, N>>]
    BY <1>2 DEF Rotated, p
  <2> QED
    BY <1>1, <1>2, <2>1 DEF Scaled
<1>5. ASSUME NEW m \in 1 .. 3 PROVE \E s \in Int : R(m) = N * s /\ R(m) \div N = s
  <2> HIDE DEF N
  <2>1. \A n \in 1 .. 3 : \E s \in -1 .. 1 : Rotation(q)[m][n] = N * s
    BY <1>2, RotationOfTurn DEF N
  <2>2. PICK s1 \in -1 .. 1 : Rotation(q)[m][1] = N * s1
    BY <2>1
  <2>3. PICK s2 \in -1 .. 1 : Rotation(q)[m][2] = N * s2
    BY <2>1
  <2>4. PICK s3 \in -1 .. 1 : Rotation(q)[m][3] = N * s3
    BY <2>1
  <2> DEFINE s == s1 * v[1] + s2 * v[2] + s3 * v[3]
  <2>5. s \in Int
    BY <1>3
  <2>6. R(m) = N * s
    BY <1>2, <1>3, <2>2, <2>3, <2>4
  <2> HIDE DEF s
  <2>7. (N * s) \div N = s
    BY <1>2, <2>5
  <2> QED
    BY <2>5, <2>6, <2>7
<1> HIDE DEF R
<1>6. PICK s \in [1 .. 3 -> Int] : \A m \in 1 .. 3 : R(m) = N * s[m] /\ R(m) \div N = s[m]
  <2> DEFINE f == [m \in 1 .. 3 |-> CHOOSE t \in Int : R(m) = N * t /\ R(m) \div N = t]
  <2>1. \A m \in 1 .. 3 : f[m] \in Int /\ R(m) = N * f[m] /\ R(m) \div N = f[m]
    BY <1>5
  <2>2. f \in [1 .. 3 -> Int]
    BY <2>1
  <2> QED
    BY <2>1, <2>2
<1>7. Rotated(v, q) = <<s[1], s[2], s[3]>>
  BY <1>1, <1>4, <1>6
<1>8. \A m \in 1 .. 3 : N * Rotated(v, q)[m] = R(m)
  BY <1>6, <1>7
<1> QED
  BY <1>6, <1>7, <1>8 DEF Vectors, R

\* The matrix of a quaternion undoes the matrix of its conjugate, times the norm each.
TurningBack(w, x, y, z, v1, v2, v3, r1, r2, r3) ==
  LET n == w * w + x * x + y * y + z * z
  IN /\ n * r1 = (w * w + x * x - y * y - z * z) * v1 + (2 * (x * y + w * z)) * v2 + (2 * (x * z - w * y)) * v3
     /\ n * r2 = (2 * (x * y - w * z)) * v1 + (w * w - x * x + y * y - z * z) * v2 + (2 * (y * z + w * x)) * v3
     /\ n * r3 = (2 * (x * z + w * y)) * v1 + (2 * (y * z - w * x)) * v2 + (w * w - x * x - y * y + z * z) * v3
     /\ n > 0
     => /\ n * v1 = (w * w + x * x - y * y - z * z) * r1 + (2 * (x * y - w * z)) * r2 + (2 * (x * z + w * y)) * r3
        /\ n * v2 = (2 * (x * y + w * z)) * r1 + (w * w - x * x + y * y - z * z) * r2 + (2 * (y * z - w * x)) * r3
        /\ n * v3 = (2 * (x * z - w * y)) * r1 + (2 * (y * z + w * x)) * r2 + (w * w - x * x - y * y + z * z) * r3

\* It holds for the components a turn may have.
LEMMA TurningBackHolds ==
  ASSUME NEW w \in -1..1, NEW x \in -1..1, NEW y \in -1..1, NEW z \in -1..1,
         NEW v1 \in Int, NEW v2 \in Int, NEW v3 \in Int, NEW r1 \in Int, NEW r2 \in Int, NEW r3 \in Int
  PROVE  TurningBack(w, x, y, z, v1, v2, v3, r1, r2, r3)
  BY SMTT(30) DEF TurningBack

\* Turning a vector back gives it again.
LEMMA RotatedUndone ==
  ASSUME NEW c \in Turns, NEW v \in Vectors
  PROVE  Rotated(Rotated(v, Conjugate(c)), c) = v
<1> DEFINE d == Conjugate(c)
           r == Rotated(v, d)
           b == Rotated(r, c)
           n == Norm(c)
<1>1. /\ c \in Quaternions /\ d \in Turns /\ Norm(d) = n /\ n \in {1, 2, 4}
      /\ c.w \in -1 .. 1 /\ c.x \in -1 .. 1 /\ c.y \in -1 .. 1 /\ c.z \in -1 .. 1
  BY TurnsType
<1>2. d.w = c.w /\ d.x = -c.x /\ d.y = -c.y /\ d.z = -c.z
  BY DEF Conjugate, Quaternion
<1>3. r \in Vectors /\ \A m \in 1 .. 3 :
        n * r[m] = Rotation(d)[m][1] * v[1] + Rotation(d)[m][2] * v[2] + Rotation(d)[m][3] * v[3]
  BY <1>1, RotatedIs
<1> HIDE DEF r
<1>4. b \in Vectors /\ \A m \in 1 .. 3 :
        n * b[m] = Rotation(c)[m][1] * r[1] + Rotation(c)[m][2] * r[2] + Rotation(c)[m][3] * r[3]
  BY <1>3, RotatedIs
<1> HIDE DEF b
<1>5. /\ v[1] \in Int /\ v[2] \in Int /\ v[3] \in Int /\ v = <<v[1], v[2], v[3]>>
      /\ r[1] \in Int /\ r[2] \in Int /\ r[3] \in Int
      /\ b[1] \in Int /\ b[2] \in Int /\ b[3] \in Int /\ b = <<b[1], b[2], b[3]>>
  BY <1>3, <1>4 DEF Vectors
<1>6. TurningBack(c.w, c.x, c.y, c.z, v[1], v[2], v[3], r[1], r[2], r[3])
  BY <1>1, <1>5, TurningBackHolds
<1>7. n = c.w * c.w + c.x * c.x + c.y * c.y + c.z * c.z
  BY DEF Norm
<1> HIDE DEF d, n
<1>8. /\ n * r[1] = (c.w * c.w + c.x * c.x - c.y * c.y - c.z * c.z) * v[1] + (2 * (c.x * c.y + c.w * c.z)) * v[2] + (2 * (c.x * c.z - c.w * c.y)) * v[3]
      /\ n * r[2] = (2 * (c.x * c.y - c.w * c.z)) * v[1] + (c.w * c.w - c.x * c.x + c.y * c.y - c.z * c.z) * v[2] + (2 * (c.y * c.z + c.w * c.x)) * v[3]
      /\ n * r[3] = (2 * (c.x * c.z + c.w * c.y)) * v[1] + (2 * (c.y * c.z - c.w * c.x)) * v[2] + (c.w * c.w - c.x * c.x - c.y * c.y + c.z * c.z) * v[3]
  <2>1. /\ Rotation(d)[1][1] = c.w * c.w + c.x * c.x - c.y * c.y - c.z * c.z
        /\ Rotation(d)[1][2] = 2 * (c.x * c.y + c.w * c.z)
        /\ Rotation(d)[1][3] = 2 * (c.x * c.z - c.w * c.y)
        /\ Rotation(d)[2][1] = 2 * (c.x * c.y - c.w * c.z)
        /\ Rotation(d)[2][2] = c.w * c.w - c.x * c.x + c.y * c.y - c.z * c.z
        /\ Rotation(d)[2][3] = 2 * (c.y * c.z + c.w * c.x)
        /\ Rotation(d)[3][1] = 2 * (c.x * c.z + c.w * c.y)
        /\ Rotation(d)[3][2] = 2 * (c.y * c.z - c.w * c.x)
        /\ Rotation(d)[3][3] = c.w * c.w - c.x * c.x - c.y * c.y + c.z * c.z
    BY <1>1, <1>2 DEF Rotation
  <2> QED
    BY <1>3, <2>1
<1>9. \A m \in 1 .. 3 : n * b[m] = n * v[m]
  <2>1. /\ n * v[1] = Rotation(c)[1][1] * r[1] + Rotation(c)[1][2] * r[2] + Rotation(c)[1][3] * r[3]
        /\ n * v[2] = Rotation(c)[2][1] * r[1] + Rotation(c)[2][2] * r[2] + Rotation(c)[2][3] * r[3]
        /\ n * v[3] = Rotation(c)[3][1] * r[1] + Rotation(c)[3][2] * r[2] + Rotation(c)[3][3] * r[3]
    BY <1>1, <1>6, <1>7, <1>8 DEF TurningBack, Rotation
  <2> QED
    BY <1>4, <2>1
<1>10. b[1] = v[1] /\ b[2] = v[2] /\ b[3] = v[3]
  BY <1>1, <1>5, <1>9
<1> QED
  BY <1>5, <1>10 DEF b, r, d


\* The angles of a quaternion, and the quaternion of three angles.
LEMMA EulerType ==
  ASSUME NEW q \in Quaternions
  PROVE  QuaternionToEuler(q) \in Angles
  BY DEF QuaternionToEuler, Angles, Atan2, Sign, Quaternions, Norm

\* The angles of quarter turns give a turn.
LEMMA EulerToTurn ==
  ASSUME NEW yaw \in -1 .. 2, NEW pitch \in -1 .. 2, NEW roll \in -1 .. 2
  PROVE  EulerToQuaternion(yaw, pitch, roll) \in Turns
<1> DEFINE cy == HalfCos(yaw)   sy == HalfSin(yaw)
           cp == HalfCos(pitch) sp == HalfSin(pitch)
           cr == HalfCos(roll)  sr == HalfSin(roll)
<1>1. \A a \in -1 .. 2 : /\ HalfCos(a) \in 0 .. 1 /\ HalfSin(a) \in -1 .. 1
                         /\ HalfCos(a) = 0 => HalfSin(a) = 1
  BY DEF HalfCos, HalfSin
<1>2. /\ cy \in 0 .. 1 /\ sy \in -1 .. 1 /\ (cy = 0 => sy = 1)
      /\ cp \in 0 .. 1 /\ sp \in -1 .. 1 /\ (cp = 0 => sp = 1)
      /\ cr \in 0 .. 1 /\ sr \in -1 .. 1 /\ (cr = 0 => sr = 1)
  BY <1>1
<1> HIDE DEF cy, sy, cp, sp, cr, sr
<1> DEFINE w == cr * cp * cy + sr * sp * sy
           x == sr * cp * cy - cr * sp * sy
           y == cr * sp * cy + sr * cp * sy
           z == cr * cp * sy - sr * sp * cy
<1>3. /\ w \in Int /\ x \in Int /\ y \in Int /\ z \in Int
      /\ Sign(w) \in -1 .. 1 /\ Sign(x) \in -1 .. 1 /\ Sign(y) \in -1 .. 1 /\ Sign(z) \in -1 .. 1
      /\ Sign(w) * Sign(w) + Sign(x) * Sign(x) + Sign(y) * Sign(y) + Sign(z) * Sign(z) \in {1, 2, 4}
  BY <1>2, SMTT(60) DEF Sign
<1>4. EulerToQuaternion(yaw, pitch, roll) = Unit[Quaternion(w, x, y, z)]
  BY DEF EulerToQuaternion, cy, sy, cp, sp, cr, sr
<1> HIDE DEF w, x, y, z
<1>5. Unit[Quaternion(w, x, y, z)] = Quaternion(Sign(w), Sign(x), Sign(y), Sign(z))
  BY <1>3, UnitIs DEF Quaternions, Quaternion
<1> QED
  BY <1>3, <1>4, <1>5 DEF Turns, Quaternion, Norm

\* Unless the pitch is a quarter turn, the angles of a quaternion are those of its
\* rotation (driver_math.cpp, EulerToQuaternion after QuaternionToEuler).
THEOREM EulerUndone ==
  ASSUME NEW q \in Turns, QuaternionToEuler(q).pitch = 0
  PROVE  LET a == QuaternionToEuler(q)
         IN EulerToQuaternion(a.yaw, a.pitch, a.roll) \in {q, Negated(q)}
<1> DEFINE yaw   == QuaternionToEuler(q).yaw
           roll  == QuaternionToEuler(q).roll
           cy == HalfCos(yaw)   sy == HalfSin(yaw)
           cr == HalfCos(roll)  sr == HalfSin(roll)
<1>1. /\ q.w \in -1 .. 1 /\ q.x \in -1 .. 1 /\ q.y \in -1 .. 1 /\ q.z \in -1 .. 1
      /\ q.w * q.w + q.x * q.x + q.y * q.y + q.z * q.z \in {1, 2, 4}
      /\ q = Quaternion(q.w, q.x, q.y, q.z)
  BY TurnsType, QuaternionType DEF Norm
<1>2. q.w * q.y - q.z * q.x = 0
  BY <1>1 DEF QuaternionToEuler, Sign
<1>3. /\ yaw = Atan2(q.w * q.z + q.x * q.y, q.w * q.w + q.x * q.x - q.y * q.y - q.z * q.z)
      /\ roll = Atan2(q.w * q.x + q.y * q.z, q.w * q.w - q.x * q.x - q.y * q.y + q.z * q.z)
  <2>1. /\ Norm(q) - 2 * (q.y * q.y + q.z * q.z) = q.w * q.w + q.x * q.x - q.y * q.y - q.z * q.z
        /\ Norm(q) - 2 * (q.x * q.x + q.y * q.y) = q.w * q.w - q.x * q.x - q.y * q.y + q.z * q.z
    BY <1>1 DEF Norm
  <2> QED
    BY <2>1 DEF QuaternionToEuler
<1>4. yaw \in -1 .. 2 /\ roll \in -1 .. 2
  BY <1>1, <1>3 DEF Atan2, Sign
<1> HIDE DEF yaw, roll
<1>5. /\ cy = (IF yaw = 2 THEN 0 ELSE 1) /\ sy = (IF yaw = 0 THEN 0 ELSE IF yaw = -1 THEN -1 ELSE 1)
      /\ cr = (IF roll = 2 THEN 0 ELSE 1) /\ sr = (IF roll = 0 THEN 0 ELSE IF roll = -1 THEN -1 ELSE 1)
  BY <1>4 DEF HalfCos, HalfSin
<1> HIDE DEF cy, sy, cr, sr
<1>6. /\ cy \in Int /\ sy \in Int /\ cr \in Int /\ sr \in Int
      /\ \/ Sign(cr * cy) = q.w /\ Sign(sr * cy) = q.x /\ Sign(sr * sy) = q.y /\ Sign(cr * sy) = q.z
         \/ Sign(cr * cy) = -q.w /\ Sign(sr * cy) = -q.x /\ Sign(sr * sy) = -q.y /\ Sign(cr * sy) = -q.z
  BY <1>1, <1>2, <1>3, <1>5, SMTT(60) DEF Sign, Atan2
<1>7. EulerToQuaternion(yaw, 0, roll) = Unit[Quaternion(cr * cy, sr * cy, sr * sy, cr * sy)]
  <2>1. HalfCos(0) = 1 /\ HalfSin(0) = 0
    BY DEF HalfCos, HalfSin
  <2>2. /\ cr * HalfCos(0) * cy + sr * HalfSin(0) * sy = cr * cy
        /\ sr * HalfCos(0) * cy - cr * HalfSin(0) * sy = sr * cy
        /\ cr * HalfSin(0) * cy + sr * HalfCos(0) * sy = sr * sy
        /\ cr * HalfCos(0) * sy - sr * HalfSin(0) * cy = cr * sy
    BY <1>6, <2>1
  <2> QED
    BY <2>2 DEF EulerToQuaternion, cy, sy, cr, sr
<1>8. Unit[Quaternion(cr * cy, sr * cy, sr * sy, cr * sy)]
        = Quaternion(Sign(cr * cy), Sign(sr * cy), Sign(sr * sy), Sign(cr * sy))
  BY <1>6, UnitIs DEF Quaternions, Quaternion
<1> QED
  BY <1>1, <1>6, <1>7, <1>8 DEF Negated, yaw, roll

--------------------------------------------------------------------------------
(* Poses and offsets.                                                          *)

\* Poses of exact arithmetic: their orientations are Turns, or Zero where there was none.
TurnPoses == [position : Vectors, orientation : Turns \cup {Zero}]

\* The rows of the matrix of a turn, which are its rotation's.
MatrixOf(m, q) == \A r, c \in 1 .. 3 : m[r][c] * Norm(q) = Rotation(q)[r][c]

\* The axis of a half turn does not lie between two axes of opposite signs.
OneSided(q) == q.x * q.y >= 0 /\ q.x * q.z >= 0 /\ q.y * q.z >= 0

\* The roots and the differences of the matrix are the quaternion's components.
LEMMA MatrixRoots ==
  ASSUME NEW q \in Turns, NEW m \in Matrices, MatrixOf(m, q)
  PROVE  MatrixToOrientation(m) =
           Quaternion(q.w * q.w, IF q.w * q.x < 0 THEN -(q.x * q.x) ELSE q.x * q.x,
                                 IF q.w * q.y < 0 THEN -(q.y * q.y) ELSE q.y * q.y,
                                 IF q.w * q.z < 0 THEN -(q.z * q.z) ELSE q.z * q.z)
<1> DEFINE w == q.w
           x == q.x
           y == q.y
           z == q.z
           n == Norm(q)
           root(k)    == IF k > 0 THEN 1 ELSE 0
           copy(r, d) == IF d < 0 THEN -r ELSE r
<1>1. /\ w \in -1 .. 1 /\ x \in -1 .. 1 /\ y \in -1 .. 1 /\ z \in -1 .. 1
      /\ n \in {1, 2, 4}
  BY DEF Turns
<1>2. PICK ww \in 0 .. 1, xx \in 0 .. 1, yy \in 0 .. 1, zz \in 0 .. 1 :
        ww = w * w /\ xx = x * x /\ yy = y * y /\ zz = z * z
  <2>1. \A a \in -1 .. 1 : a * a \in 0 .. 1
    OBVIOUS
  <2> HIDE DEF w, x, y, z
  <2> QED
    BY <1>1, <2>1
<1>3. PICK wx \in Int, wy \in Int, wz \in Int, xy \in Int, xz \in Int, yz \in Int :
        wx = w * x /\ wy = w * y /\ wz = w * z /\ xy = x * y /\ xz = x * z /\ yz = y * z
  <2> HIDE DEF w, x, y, z
  <2> QED
    BY <1>1
<1>4. n = ww + xx + yy + zz
  BY <1>2 DEF Norm
<1>5. /\ m[1][1] * n = ww + xx - yy - zz /\ m[2][2] * n = ww - xx + yy - zz /\ m[3][3] * n = ww - xx - yy + zz
      /\ m[3][2] * n = 2 * (yz + wx) /\ m[2][3] * n = 2 * (yz - wx)
      /\ m[1][3] * n = 2 * (xz + wy) /\ m[3][1] * n = 2 * (xz - wy)
      /\ m[2][1] * n = 2 * (xy + wz) /\ m[1][2] * n = 2 * (xy - wz)
  <2>1. 1 \in 1 .. 3 /\ 2 \in 1 .. 3 /\ 3 \in 1 .. 3
    OBVIOUS
  <2>2. \A r, c \in 1 .. 3 : m[r][c] * n = Rotation(q)[r][c]
    BY DEF MatrixOf
  <2>3. LET R == Rotation(q)
        IN /\ R[1][1] = w * w + x * x - y * y - z * z /\ R[2][2] = w * w - x * x + y * y - z * z
           /\ R[3][3] = w * w - x * x - y * y + z * z
           /\ R[3][2] = 2 * (y * z + w * x) /\ R[2][3] = 2 * (y * z - w * x)
           /\ R[1][3] = 2 * (x * z + w * y) /\ R[3][1] = 2 * (x * z - w * y)
           /\ R[2][1] = 2 * (x * y + w * z) /\ R[1][2] = 2 * (x * y - w * z)
    BY DEF Rotation
  <2> HIDE DEF w, x, y, z, n
  <2> QED
    BY <1>2, <1>3, <2>1, <2>2, <2>3
<1>6. \A r, c \in 1 .. 3 : m[r][c] \in Int
  BY DEF Matrices
<1>7. /\ m[1][1] \in Int /\ m[2][2] \in Int /\ m[3][3] \in Int /\ m[3][2] \in Int /\ m[2][3] \in Int
      /\ m[1][3] \in Int /\ m[3][1] \in Int /\ m[2][1] \in Int /\ m[1][2] \in Int
  BY <1>6
<1>8. MatrixToOrientation(m) =
        Quaternion(root(1 + m[1][1] + m[2][2] + m[3][3]),
                   copy(root(1 + m[1][1] - m[2][2] - m[3][3]), m[3][2] - m[2][3]),
                   copy(root(1 - m[1][1] + m[2][2] - m[3][3]), m[1][3] - m[3][1]),
                   copy(root(1 - m[1][1] - m[2][2] + m[3][3]), m[2][1] - m[1][2]))
  BY DEF MatrixToOrientation
<1> HIDE DEF w, x, y, z, n
<1>9. /\ 1 + m[1][1] + m[2][2] + m[3][3] > 0 <=> ww = 1
      /\ 1 + m[1][1] - m[2][2] - m[3][3] > 0 <=> xx = 1
      /\ 1 - m[1][1] + m[2][2] - m[3][3] > 0 <=> yy = 1
      /\ 1 - m[1][1] - m[2][2] + m[3][3] > 0 <=> zz = 1
  <2>1. PICK a \in Int, b \in Int, c \in Int : a = m[1][1] /\ b = m[2][2] /\ c = m[3][3]
    BY <1>7
  <2>2. a * n = ww + xx - yy - zz /\ b * n = ww - xx + yy - zz /\ c * n = ww - xx - yy + zz
    BY <1>5, <2>1
  <2>3. /\ (1 + a + b + c) * n = 4 * ww /\ (1 + a - b - c) * n = 4 * xx
        /\ (1 - a + b - c) * n = 4 * yy /\ (1 - a - b + c) * n = 4 * zz
    <3>1. CASE n = 1
      BY <1>4, <2>2, <3>1
    <3>2. CASE n = 2
      BY <1>4, <2>2, <3>2
    <3>3. CASE n = 4
      BY <1>4, <2>2, <3>3
    <3> QED
      BY <1>1, <3>1, <3>2, <3>3
  <2>4. \A i \in Int, p \in 0 .. 1 : i * n = 4 * p => (i > 0 <=> p = 1)
    <3> SUFFICES ASSUME NEW i \in Int, NEW p \in 0 .. 1, i * n = 4 * p
                 PROVE  i > 0 <=> p = 1
      OBVIOUS
    <3>1. CASE n = 1
      BY <3>1
    <3>2. CASE n = 2
      BY <3>2
    <3>3. CASE n = 4
      BY <3>3
    <3> QED
      BY <1>1, <3>1, <3>2, <3>3
  <2>5. 1 + a + b + c \in Int /\ 1 + a - b - c \in Int /\ 1 - a + b - c \in Int /\ 1 - a - b + c \in Int
    OBVIOUS
  <2> QED
    BY <1>2, <2>1, <2>3, <2>4, <2>5
<1>10. /\ m[3][2] - m[2][3] < 0 <=> wx < 0
       /\ m[1][3] - m[3][1] < 0 <=> wy < 0
       /\ m[2][1] - m[1][2] < 0 <=> wz < 0
  <2>1. \A a, b, p, r \in Int : a * n = 2 * (r + p) /\ b * n = 2 * (r - p) => (a - b < 0 <=> p < 0)
    <3> SUFFICES ASSUME NEW a \in Int, NEW b \in Int, NEW p \in Int, NEW r \in Int,
                        a * n = 2 * (r + p), b * n = 2 * (r - p)
                 PROVE  a - b < 0 <=> p < 0
      OBVIOUS
    <3>1. CASE n = 1
      BY <3>1
    <3>2. CASE n = 2
      BY <3>2
    <3>3. CASE n = 4
      BY <3>3
    <3> QED
      BY <1>1, <3>1, <3>2, <3>3
  <2>2. m[3][2] - m[2][3] < 0 <=> wx < 0
    <3>1. m[3][2] \in Int /\ m[2][3] \in Int /\ m[3][2] * n = 2 * (yz + wx) /\ m[2][3] * n = 2 * (yz - wx)
      BY <1>5, <1>7
    <3> QED
      BY <2>1, <3>1
  <2>3. m[1][3] - m[3][1] < 0 <=> wy < 0
    <3>1. m[1][3] \in Int /\ m[3][1] \in Int /\ m[1][3] * n = 2 * (xz + wy) /\ m[3][1] * n = 2 * (xz - wy)
      BY <1>5, <1>7
    <3> QED
      BY <2>1, <3>1
  <2>4. m[2][1] - m[1][2] < 0 <=> wz < 0
    <3>1. m[2][1] \in Int /\ m[1][2] \in Int /\ m[2][1] * n = 2 * (xy + wz) /\ m[1][2] * n = 2 * (xy - wz)
      BY <1>5, <1>7
    <3> QED
      BY <2>1, <3>1
  <2> QED
    BY <2>2, <2>3, <2>4
<1>11. /\ root(1 + m[1][1] + m[2][2] + m[3][3]) = ww /\ root(1 + m[1][1] - m[2][2] - m[3][3]) = xx
       /\ root(1 - m[1][1] + m[2][2] - m[3][3]) = yy /\ root(1 - m[1][1] - m[2][2] + m[3][3]) = zz
  BY <1>9
<1> HIDE DEF root
<1>12. MatrixToOrientation(m) =
         Quaternion(ww, IF wx < 0 THEN -xx ELSE xx, IF wy < 0 THEN -yy ELSE yy, IF wz < 0 THEN -zz ELSE zz)
  BY <1>8, <1>10, <1>11
<1> QED
  BY <1>2, <1>3, <1>12 DEF w, x, y, z

\* The matrix of a turn gives its orientation back, unless the turn is a half turn about a
\* diagonal whose components differ in sign: copysign then has a difference of zero to take
\* the sign from (driver_math.cpp, MatrixToOrientation).
THEOREM MatrixUndone ==
  ASSUME NEW q \in Turns, NEW m \in Matrices, MatrixOf(m, q)
  PROVE  MatrixToOrientation(m) \in {q, Negated(q)} <=> q.w # 0 \/ OneSided(q)
<1> DEFINE part(a) == IF q.w * a < 0 THEN -(a * a) ELSE a * a
           o       == Quaternion(q.w * q.w, part(q.x), part(q.y), part(q.z))
<1>1. /\ q.w \in -1 .. 1 /\ q.x \in -1 .. 1 /\ q.y \in -1 .. 1 /\ q.z \in -1 .. 1
      /\ q = Quaternion(q.w, q.x, q.y, q.z)
  BY DEF Turns, Quaternion
<1>2. MatrixToOrientation(m) = o
  BY MatrixRoots
<1>3. \A b \in -1 .. 1 : /\ q.w = 1  => part(b) = b
                         /\ q.w = -1 => part(b) = -b
                         /\ q.w = 0  => part(b) = (IF b < 0 THEN -b ELSE b)
  <2> SUFFICES ASSUME NEW b \in -1 .. 1
               PROVE  /\ q.w = 1  => part(b) = b
                      /\ q.w = -1 => part(b) = -b
                      /\ q.w = 0  => part(b) = (IF b < 0 THEN -b ELSE b)
    OBVIOUS
  <2>1. b \in {-1, 0, 1}
    OBVIOUS
  <2> QED
    BY <2>1
<1>4. /\ o.w = q.w * q.w /\ o.x = part(q.x) /\ o.y = part(q.y) /\ o.z = part(q.z)
      /\ Negated(q).w = -q.w /\ Negated(q).x = -q.x /\ Negated(q).y = -q.y /\ Negated(q).z = -q.z
  BY DEF Quaternion, Negated
<1>5. /\ o = q <=> o.w = q.w /\ o.x = q.x /\ o.y = q.y /\ o.z = q.z
      /\ o = Negated(q) <=> o.w = -q.w /\ o.x = -q.x /\ o.y = -q.y /\ o.z = -q.z
  <2>1. \A a1, a2, a3, a4, b1, b2, b3, b4 :
          Quaternion(a1, a2, a3, a4) = Quaternion(b1, b2, b3, b4) <=> a1 = b1 /\ a2 = b2 /\ a3 = b3 /\ a4 = b4
    BY DEF Quaternion
  <2> HIDE DEF part
  <2> QED
    BY <1>1, <1>4, <2>1 DEF Negated
<1> HIDE DEF part, o
<1>6. CASE q.w = 1
  <2>1. o.w = q.w /\ o.x = q.x /\ o.y = q.y /\ o.z = q.z
    BY <1>1, <1>3, <1>4, <1>6
  <2> QED
    BY <1>2, <1>5, <1>6, <2>1
<1>7. CASE q.w = -1
  <2>1. o.w = -q.w /\ o.x = -q.x /\ o.y = -q.y /\ o.z = -q.z
    <3>1. \A a \in -1 .. 1 : a <= 0 => a * a = -a
      OBVIOUS
    <3>2. q.w * q.w = -q.w
      BY <1>1, <1>7, <3>1
    <3> QED
      BY <1>1, <1>3, <1>4, <1>7, <3>2
  <2> QED
    BY <1>2, <1>5, <1>7, <2>1
<1>8. CASE q.w = 0
  <2>1. MatrixToOrientation(m) \in {q, Negated(q)} <=>
          \/ q.x >= 0 /\ q.y >= 0 /\ q.z >= 0
          \/ q.x <= 0 /\ q.y <= 0 /\ q.z <= 0
    <3>0. \A a \in -1 .. 1 : (a >= 0 => a * a = a) /\ (a <= 0 => a * a = -a)
      OBVIOUS
    <3>1. q.w * q.w = q.w /\ q.w * q.w = -q.w
      BY <1>1, <1>8, <3>0
    <3>2. \A b \in -1 .. 1 : part(b) = (IF b < 0 THEN -b ELSE b)
      BY <1>3, <1>8
    <3>3. \A b \in -1 .. 1 : (part(b) = b <=> b >= 0) /\ (part(b) = -b <=> b <= 0)
      BY <3>2
    <3>4. /\ o = q <=> q.x >= 0 /\ q.y >= 0 /\ q.z >= 0
          /\ o = Negated(q) <=> q.x <= 0 /\ q.y <= 0 /\ q.z <= 0
      BY <1>1, <1>4, <1>5, <1>8, <3>1, <3>3
    <3> QED
      BY <1>2, <3>4
  <2>2. q.x \in {-1, 0, 1} /\ q.y \in {-1, 0, 1} /\ q.z \in {-1, 0, 1}
    BY <1>1
  <2>3. \A a, b \in {-1, 0, 1} : a * b >= 0 <=> (a >= 0 /\ b >= 0) \/ (a <= 0 /\ b <= 0)
    OBVIOUS
  <2>4. OneSided(q) <=> \/ q.x >= 0 /\ q.y >= 0 /\ q.z >= 0
                        \/ q.x <= 0 /\ q.y <= 0 /\ q.z <= 0
    BY <2>2, <2>3 DEF OneSided
  <2> QED
    BY <1>8, <2>1, <2>4
<1> QED
  BY <1>1, <1>6, <1>7, <1>8

\* A turn times a turn or the zero quaternion is a turn or the zero quaternion.
LEMMA ProductInTurns ==
  ASSUME NEW c \in Turns, NEW h \in Turns \cup {Zero}
  PROVE  Unit[Product(c, h)] \in Turns \cup {Zero}
<1>1. CASE h \in Turns
  BY <1>1, ProductOfTurns
<1>2. CASE h = Zero
  <2>1. c \in Quaternions /\ Zero \in Quaternions /\ Zero.w = 0 /\ Zero.x = 0 /\ Zero.y = 0 /\ Zero.z = 0
    BY TurnsType DEF Zero, Quaternion, Quaternions
  <2>2. c.w \in Int /\ c.x \in Int /\ c.y \in Int /\ c.z \in Int
    BY <2>1, QuaternionType
  <2>3. /\ Product(c, Zero).w = 0 /\ Product(c, Zero).x = 0 /\ Product(c, Zero).y = 0 /\ Product(c, Zero).z = 0
        /\ Product(c, Zero) \in Quaternions
    BY <2>1, <2>2, ProductIs
  <2>4. Unit[Product(c, Zero)] = Quaternion(Sign(0), Sign(0), Sign(0), Sign(0))
    BY <2>3, UnitIs
  <2> QED
    BY <1>2, <2>4 DEF Zero, Sign
<1> QED
  BY <1>1, <1>2

\* Sums and differences of vectors are vectors, and undo each other.
LEMMA VectorsClosed ==
  ASSUME NEW u \in Vectors, NEW v \in Vectors
  PROVE  Plus(u, v) \in Vectors /\ Minus(u, v) \in Vectors /\ Plus(u, Minus(v, u)) = v
  BY DEF Vectors, Plus, Minus

\* Poses and offsets whose orientations are Turns give such poses and offsets.
LEMMA PosesClosed ==
  ASSUME NEW c \in TurnPoses, c.orientation \in Turns, NEW o \in TurnPoses
  PROVE  Place(c, o) \in TurnPoses /\ OffsetTo(o, c) \in TurnPoses
<1>1. /\ c.position \in Vectors /\ o.position \in Vectors /\ o.orientation \in Turns \cup {Zero}
      /\ Conjugate(c.orientation) \in Turns /\ Minus(o.position, c.position) \in Vectors
  BY TurnsType, VectorsClosed DEF TurnPoses
<1>2. /\ Rotated(o.position, c.orientation) \in Vectors
      /\ Rotated(Minus(o.position, c.position), Conjugate(c.orientation)) \in Vectors
  BY <1>1, RotatedIs
<1>3. /\ Unit[Product(c.orientation, o.orientation)] \in Turns \cup {Zero}
      /\ Unit[Product(Conjugate(c.orientation), o.orientation)] \in Turns \cup {Zero}
  BY <1>1, ProductInTurns
<1>4. Plus(c.position, Rotated(o.position, c.orientation)) \in Vectors
  BY <1>1, <1>2, VectorsClosed
<1> QED
  BY <1>2, <1>3, <1>4 DEF Place, OffsetTo, TurnPoses

\* The offset that a completion computes puts the hand where it was frozen
\* (pose_calibration.cpp, CompleteCalibration; device_pose.cpp, UpdatePose).
THEOREM PlaceUndone ==
  ASSUME NEW c \in TurnPoses, c.orientation \in Turns, NEW h \in TurnPoses
  PROVE  Place(c, OffsetTo(h, c)) = h
<1> DEFINE o == OffsetTo(h, c)
           v == Minus(h.position, c.position)
<1>1. /\ c.position \in Vectors /\ h.position \in Vectors /\ h.orientation \in Turns \cup {Zero}
      /\ v \in Vectors /\ Plus(c.position, v) = h.position
      /\ h = [position |-> h.position, orientation |-> h.orientation]
  BY VectorsClosed DEF TurnPoses
<1>2. Rotated(Rotated(v, Conjugate(c.orientation)), c.orientation) = v
  BY <1>1, RotatedUndone
<1>3. Unit[Product(c.orientation, Unit[Product(Conjugate(c.orientation), h.orientation)])] = h.orientation
  BY <1>1, ProductUndone
<1>4. /\ o.position = Rotated(v, Conjugate(c.orientation))
      /\ o.orientation = Unit[Product(Conjugate(c.orientation), h.orientation)]
  BY DEF OffsetTo
<1> HIDE DEF o, v
<1>5. Place(c, o) = [position |-> h.position, orientation |-> h.orientation]
  BY <1>1, <1>2, <1>3, <1>4 DEF Place
<1> QED
  BY <1>1, <1>5 DEF o

\* What is loaded from the settings is an offset of exact arithmetic.
LEMMA LoadedType ==
  ASSUME NEW s \in Offsets
  PROVE  Loaded(s) \in TurnPoses
<1>1. s.position \in Vectors /\ s.degrees.yaw \in -1 .. 2 /\ s.degrees.pitch \in -1 .. 2 /\ s.degrees.roll \in -1 .. 2
  BY DEF Offsets, Angles
<1> QED
  BY <1>1, EulerToTurn DEF Loaded, TurnPoses

\* What is loaded again after an offset has been saved is the same.
LEMMA SavedIsTheSame ==
  ASSUME NEW s, NEW o \in TurnPoses, s.position = o.position, s.degrees = QuaternionToEuler(o.orientation)
  PROVE  Same(Loaded(s), o)
<1>1. CASE Locked(o.orientation)
  BY <1>1 DEF Same, Loaded
<1>2. CASE ~Locked(o.orientation)
  <2>1. o.orientation \in Turns /\ QuaternionToEuler(o.orientation).pitch = 0
    BY <1>2 DEF Locked, TurnPoses
  <2>2. Loaded(s).orientation \in {o.orientation, Negated(o.orientation)}
    BY <2>1, EulerUndone DEF Loaded
  <2> QED
    BY <2>2 DEF Same, Loaded
<1> QED
  BY <1>1, <1>2

\* An offset puts the hand where it puts it itself.
LEMMA SameReflexive == \A o : Same(o, o)
  BY DEF Same

\* Negating a quaternion changes neither its rotation nor whether its pitch is a quarter turn.
LEMMA SameTransitive ==
  ASSUME NEW a \in TurnPoses, NEW b \in TurnPoses, NEW c \in TurnPoses, Same(a, b), Same(b, c)
  PROVE  Same(a, c)
<1>1. ASSUME NEW q \in Turns \cup {Zero}
      PROVE  /\ Negated(Negated(q)) = q
             /\ Locked(Negated(q)) => Locked(q)
  <2>1. q \in Quaternions
    BY TurnsType, QuaternionType DEF Zero
  <2>2. /\ q.w \in Int /\ q.x \in Int /\ q.y \in Int /\ q.z \in Int
        /\ q = Quaternion(q.w, q.x, q.y, q.z)
    BY <2>1, QuaternionType
  <2> DEFINE n == Negated(q)
  <2>3. n.w = -q.w /\ n.x = -q.x /\ n.y = -q.y /\ n.z = -q.z
    BY DEF Negated, Quaternion
  <2>4. Negated(n) = q
    BY <2>2, <2>3 DEF Negated
  <2>5. n.w * n.y - n.z * n.x = q.w * q.y - q.z * q.x
    BY <2>2, <2>3
  <2>6. QuaternionToEuler(n).pitch = QuaternionToEuler(q).pitch
    BY <2>5 DEF QuaternionToEuler
  <2>7. n = Zero => q = Zero
    BY <2>2, <2>3 DEF Zero, Quaternion
  <2> QED
    BY <2>4, <2>6, <2>7 DEF Locked
<1>2. a.orientation \in Turns \cup {Zero} /\ b.orientation \in Turns \cup {Zero} /\ c.orientation \in Turns \cup {Zero}
  BY DEF TurnPoses
<1>3. CASE Locked(c.orientation)
  BY <1>3 DEF Same
<1>4. CASE ~Locked(c.orientation)
  <2>1. b.orientation \in {c.orientation, Negated(c.orientation)}
    BY <1>4 DEF Same
  <2>2. ~Locked(b.orientation)
    BY <1>1, <1>2, <1>4, <2>1
  <2>3. a.orientation \in {b.orientation, Negated(b.orientation)}
    BY <2>2 DEF Same
  <2>4. a.orientation \in {c.orientation, Negated(c.orientation)}
    BY <1>1, <1>2, <2>1, <2>3
  <2> QED
    BY <2>4 DEF Same
<1> QED
  BY <1>3, <1>4

\* The pose of a matrix that maps axes to axes is a turn.
LEMMA PoseOfType ==
  ASSUME NEW m \in TurnMatrices
  PROVE  PoseOf(m) \in TurnPoses /\ PoseOf(m).orientation \in Turns
  BY DEF TurnMatrices, Matrices, PoseOf, MatrixToPosition, TurnPoses, Vectors

\* So is the pose of the controller, or of the headset in its place.
LEMMA ControllerType ==
  ASSUME moves \in 0 .. Len(ControllerPath) - 1
  PROVE  ControllerPose \in TurnPoses /\ ControllerPose.orientation \in Turns
<1>1. ControllerPath \in Seq(TurnMatrices) /\ moves + 1 \in 1 .. Len(ControllerPath)
  BY PathAssumption
<1>2. Controller \in TurnMatrices
  BY <1>1 DEF Controller
<1> QED
  BY <1>2, HeadsetAssumption, PoseOfType DEF ControllerPose

\* A pose that is not known is the zero quaternion.
LEMMA NoPoseType == NoPose \in TurnPoses
  BY DEF NoPose, TurnPoses, Vectors

\* UpdatePose reports poses of exact arithmetic.
LEMMA UpdatePoseType ==
  ASSUME moves \in 0 .. Len(ControllerPath) - 1, configuration \in TurnPoses, maintain_pose \in TurnPoses
  PROVE  UpdatePose \in TurnPoses
  BY ControllerType, PosesClosed, NoPoseType DEF UpdatePose, LivePose

--------------------------------------------------------------------------------
(* The inductive invariant.                                                    *)

Places == {"idle"} \cup Starting \cup Completing \cup Saving

\* The part of TypeOK that is not about poses.
ControlOK ==
  /\ is_calibrating \in BOOLEAN /\ raced \in BOOLEAN
  /\ pc \in [Threads -> Places]
  /\ late \in Nat /\ restarts \in Nat

\* The pose thread's test came before the calibration began.
Reports == late <= 1 /\ (is_calibrating /\ reporter = "live" => late = 0)

\* While no two threads have been at it at once, the thread inside a start or a
\* completion finds the method that it has set or has compared, and no calibration
\* has begun since the button was found pressed.
Sessions ==
  ~raced =>
    /\ \A t, u \in Threads : {pc[t], pc[u]} \subseteq Critical => t = u
    /\ \A t \in Threads : pc[t] \in {"maintain", "begin", "end"} => calibration_method = Method(t)
    /\ pc[Listener] \in Starting => ~is_calibrating

\* The part of TypeOK that is about poses and inputs; where a completion has taken a
\* controller's pose, its orientation is a turn.
HasController == {"match", "end", "compute", "store"}
DataOK ==
  /\ calibration_method \in Methods /\ reporter \in {"test", "live"}
  /\ controller_id \in {0, 1} /\ moves \in 0 .. Len(ControllerPath) - 1 /\ pressed \in BOOLEAN
  /\ outdated \in BOOLEAN /\ posted \in BOOLEAN /\ overlapped \in BOOLEAN
  /\ presses \in Nat /\ requests \in Nat /\ posts \in Nat
  /\ maintain_pose \in TurnPoses /\ configuration \in TurnPoses /\ result \in TurnPoses
  /\ saved \in Offsets
  /\ pose \in [Threads -> TurnPoses] /\ offset \in [Threads -> TurnPoses]
  /\ \A t \in Threads : pc[t] \in HasController => pose[t].orientation \in Turns

\* While no two threads have been at it at once, the offset about to be stored is the one
\* from the controller's pose to the frozen one.
Frozen ==
  ~raced => \A t \in Threads : pc[t] = "store" => offset[t] = OffsetTo(maintain_pose, pose[t])

\* The copies that are about to be put back are of the offset in force.
Sticks ==
  ~outdated =>
    /\ Same(configuration, result)
    /\ \A t \in Threads : pc[t] = "putback" => Same(offset[t], result)

\* While no saves overlap, the one thread that saves holds the parts it has read of the
\* configuration, and what it has written stays there unless an offset is posted.
Saves ==
  ~overlapped =>
    /\ \A t, u \in Threads : {pc[t], pc[u]} \subseteq Saving => t = u
    /\ \A t \in Threads :
         /\ pc[t] = "position" => offset[t].position = configuration.position
         /\ pc[t] = "degrees"  => /\ offset[t].orientation = configuration.orientation
                                  /\ posted \/ saved.position = configuration.position
    /\ (\A t \in Threads : pc[t] \notin Saving) /\ ~posted => Same(Loaded(saved), configuration)

IInv == ControlOK /\ DataOK /\ Reports /\ Sessions /\ Frozen /\ Sticks /\ Saves

--------------------------------------------------------------------------------
(* It holds at first, and every step keeps it.                                 *)

\* The driver starts idle, with the settings' offset in force.
LEMMA InitInvariant == Init => IInv
<1> SUFFICES ASSUME Init PROVE IInv
  OBVIOUS
<1>1. is_calibrating = FALSE /\ raced = FALSE /\ late = 0 /\ restarts = 0
  BY DEF Init
<1>2. pc = [t \in Threads |-> "idle"]
  BY DEF Init
<1>3. /\ saved \in Offsets /\ configuration = Loaded(saved) /\ result = configuration
      /\ configuration \in TurnPoses
  BY SettingsAssumption, LoadedType DEF Init
<1>4. ControlOK
  <2>1. is_calibrating \in BOOLEAN /\ raced \in BOOLEAN
    BY <1>1
  <2>2. pc \in [Threads -> Places]
    BY <1>2 DEF Places
  <2> QED
    BY <1>1, <2>1, <2>2 DEF ControlOK
<1>5. DataOK
  <2>1. 0 \in 0 .. Len(ControllerPath) - 1
    <3>1. Len(ControllerPath) \in Nat /\ Len(ControllerPath) # 0
      BY PathAssumption
    <3> QED
      BY <3>1
  <2>2. pose \in [Threads -> TurnPoses] /\ offset \in [Threads -> TurnPoses] /\ maintain_pose \in TurnPoses
    BY NoPoseType DEF Init
  <2>3. \A t \in Threads : pc[t] \notin HasController
    BY <1>2 DEF HasController
  <2>4. /\ calibration_method \in Methods /\ reporter \in {"test", "live"}
        /\ controller_id \in {0, 1} /\ moves = 0 /\ pressed = FALSE
        /\ outdated = FALSE /\ posted = FALSE /\ overlapped = FALSE
        /\ presses = 0 /\ requests = 0 /\ posts = 0
    BY DEF Init, Methods
  <2> QED
    BY <1>3, <2>1, <2>2, <2>3, <2>4 DEF DataOK
<1>6. Reports
  BY <1>1 DEF Reports
<1>7. Sessions
  BY <1>1, <1>2 DEF Sessions, Critical, Starting, Completing, Threads
<1>8. Frozen
  BY <1>2 DEF Frozen
<1>9. Sticks
  BY <1>2, <1>3, SameReflexive DEF Sticks
<1>10. Saves
  BY <1>2, <1>3, SameReflexive DEF Saves, Saving
<1> QED
  BY <1>4, <1>5, <1>6, <1>7, <1>8, <1>9, <1>10 DEF IInv

\* A thread goes from place to place of the code.
LEMMA NextControl == IInv /\ [Next]_vars => ControlOK'
<1> SUFFICES ASSUME IInv, [Next]_vars PROVE ControlOK'
  OBVIOUS
<1>i. is_calibrating \in BOOLEAN /\ raced \in BOOLEAN
  BY DEF IInv, ControlOK
<1>pc. pc \in [Threads -> Places]
  BY DEF IInv, ControlOK
<1>l. late \in Nat /\ restarts \in Nat
  BY DEF IInv, ControlOK
<1>w. Workers \subseteq Threads /\ Listener \in Threads /\ Listener \notin Workers
  BY WorkersAssumption DEF Threads
<1>p. \A p \in {"idle"} \cup Starting \cup Completing \cup Saving : p \in Places
  BY DEF Places
<1>1. ASSUME PacketPressed PROVE ControlOK'
  BY <1>1, <1>i, <1>pc, <1>l, <1>w, <1>p DEF PacketPressed, Enter, ControlOK, Starting, Completing, Saving, fields, locals, ghosts, inputs
<1>2. ASSUME PacketReleased PROVE ControlOK'
  BY <1>2, <1>i, <1>pc, <1>l, <1>w, <1>p DEF PacketReleased, Step, ControlOK, Starting, Completing, Saving, fields, locals, ghosts, inputs
<1>3. ASSUME NEW t \in Workers, RequestStart(t) PROVE ControlOK'
  BY <1>3, <1>i, <1>pc, <1>l, <1>w, <1>p DEF RequestStart, Enter, ControlOK, Starting, Completing, Saving, fields, locals, ghosts, inputs
<1>4. ASSUME NEW t \in Workers, RequestComplete(t) PROVE ControlOK'
  BY <1>4, <1>i, <1>pc, <1>l, <1>w, <1>p DEF RequestComplete, Step, ControlOK, Starting, Completing, Saving, fields, locals, ghosts, inputs
<1>5. ASSUME NEW t \in Threads, TakePose(t) PROVE ControlOK'
  BY <1>5, <1>i, <1>pc, <1>l, <1>w, <1>p DEF TakePose, Step, ControlOK, Starting, Completing, Saving, fields, locals, ghosts, inputs
<1>6. ASSUME NEW t \in Threads, SetMethod(t) PROVE ControlOK'
  BY <1>6, <1>i, <1>pc, <1>l, <1>w, <1>p DEF SetMethod, Step, ControlOK, Starting, Completing, Saving, fields, locals, ghosts, inputs
<1>7. ASSUME NEW t \in Threads, SetMaintainPose(t) PROVE ControlOK'
  BY <1>7, <1>i, <1>pc, <1>l, <1>w, <1>p DEF SetMaintainPose, Step, ControlOK, Starting, Completing, Saving, fields, locals, ghosts, inputs
<1>8. ASSUME NEW t \in Threads, Begin(t) PROVE ControlOK'
  BY <1>8, <1>i, <1>pc, <1>l, <1>w, <1>p DEF Begin, Step, ControlOK, Starting, Completing, Saving, fields, locals, ghosts, inputs
<1>9. ASSUME NEW t \in Threads, TakeController(t) PROVE ControlOK'
  BY <1>9, <1>i, <1>pc, <1>l, <1>w, <1>p DEF TakeController, Step, ControlOK, Starting, Completing, Saving, fields, locals, ghosts, inputs
<1>10. ASSUME NEW t \in Threads, Mismatch(t) PROVE ControlOK'
  BY <1>10, <1>i, <1>pc, <1>l, <1>w, <1>p DEF Mismatch, Step, ControlOK, Starting, Completing, Saving, fields, locals, ghosts, inputs
<1>11. ASSUME NEW t \in Threads, Match(t) PROVE ControlOK'
  BY <1>11, <1>i, <1>pc, <1>l, <1>w, <1>p DEF Match, Enter, ControlOK, Starting, Completing, Saving, fields, locals, ghosts, inputs
<1>12. ASSUME NEW t \in Threads, End(t) PROVE ControlOK'
  BY <1>12, <1>i, <1>pc, <1>l, <1>w, <1>p DEF End, Step, ControlOK, Starting, Completing, Saving, fields, locals, ghosts, inputs
<1>13. ASSUME NEW t \in Threads, Compute(t) PROVE ControlOK'
  BY <1>13, <1>i, <1>pc, <1>l, <1>w, <1>p DEF Compute, Step, ControlOK, Starting, Completing, Saving, fields, locals, ghosts, inputs
<1>14. ASSUME NEW t \in Threads, Store(t) \/ PutBack(t) PROVE ControlOK'
  BY <1>14, <1>i, <1>pc, <1>l, <1>w, <1>p DEF Store, PutBack, Step, ControlOK, Starting, Completing, Saving, fields, locals, ghosts, inputs
<1>15. ASSUME NEW t \in Threads, ReadPosition(t) \/ SavePosition(t) \/ SaveDegrees(t) PROVE ControlOK'
  BY <1>15, <1>i, <1>pc, <1>l, <1>w, <1>p DEF ReadPosition, SavePosition, SaveDegrees, Step, ControlOK, Starting, Completing, Saving, fields, locals, ghosts, inputs
<1>16. ASSUME TestCalibrating \/ ReportPose PROVE ControlOK'
  BY <1>16, <1>i, <1>pc, <1>l, <1>w, <1>p DEF TestCalibrating, ReportPose, ControlOK, Starting, Completing, Saving, fields, locals, ghosts, inputs
<1>17. ASSUME ControllerFound \/ ControllerMoves \/ Press \/ Release \/ PostOffset PROVE ControlOK'
  BY <1>17, <1>i, <1>pc, <1>l, <1>w, <1>p DEF ControllerFound, ControllerMoves, Press, Release, PostOffset, ControlOK, Starting, Completing, Saving, fields, locals, ghosts, inputs
<1>18. ASSUME Restart PROVE ControlOK'
  <2>1. "idle" \in Places
    BY DEF Places
  <2>2. is_calibrating' = FALSE /\ raced' = FALSE
    BY <1>18 DEF Restart, Fresh
  <2>3. pc' = [t \in Threads |-> "idle"] /\ late' = 0 /\ restarts' = restarts + 1
    BY <1>18 DEF Restart, Fresh
  <2>4. is_calibrating' \in BOOLEAN /\ raced' \in BOOLEAN
    BY <2>2
  <2>5. pc' \in [Threads -> Places] /\ late' \in Nat /\ restarts' \in Nat
    BY <2>1, <2>3, <1>l
  <2> QED
    BY <2>4, <2>5 DEF ControlOK
<1>19. CASE UNCHANGED vars
  BY <1>19, <1>i, <1>pc, <1>l, <1>w, <1>p DEF vars, ControlOK, Starting, Completing, Saving, fields, locals, ghosts, inputs
<1> QED
  BY <1>1, <1>2, <1>3, <1>4, <1>5, <1>6, <1>7, <1>8, <1>9, <1>10, <1>11, <1>12, <1>13, <1>14, <1>15, <1>16, <1>17, <1>18, <1>19 DEF Next, Packet, Calibrate

\* UpdatePose tests and reports in two steps; only a calibration that begins in between
\* makes the report late.
LEMMA NextReports == IInv /\ [Next]_vars => Reports'
<1> SUFFICES ASSUME IInv, [Next]_vars PROVE Reports'
  OBVIOUS
<1>i. is_calibrating \in BOOLEAN /\ raced \in BOOLEAN
  BY DEF IInv, ControlOK
<1>pc. pc \in [Threads -> Places]
  BY DEF IInv, ControlOK
<1>l. late \in Nat /\ restarts \in Nat
  BY DEF IInv, ControlOK
<1>w. Workers \subseteq Threads /\ Listener \in Threads /\ Listener \notin Workers
  BY WorkersAssumption DEF Threads
<1>n. Reports
  BY DEF IInv
<1>1. ASSUME PacketPressed PROVE Reports'
  BY <1>1, <1>i, <1>l, <1>n DEF PacketPressed, Reports, fields, locals, ghosts, inputs
<1>2. ASSUME PacketReleased PROVE Reports'
  BY <1>2, <1>i, <1>l, <1>n DEF PacketReleased, Reports, fields, locals, ghosts, inputs
<1>3. ASSUME NEW t \in Workers, RequestStart(t) PROVE Reports'
  BY <1>3, <1>i, <1>l, <1>n DEF RequestStart, Reports, fields, locals, ghosts, inputs
<1>4. ASSUME NEW t \in Workers, RequestComplete(t) PROVE Reports'
  BY <1>4, <1>i, <1>l, <1>n DEF RequestComplete, Reports, fields, locals, ghosts, inputs
<1>5. ASSUME NEW t \in Threads, TakePose(t) PROVE Reports'
  BY <1>5, <1>i, <1>l, <1>n DEF TakePose, Reports, fields, locals, ghosts, inputs
<1>6. ASSUME NEW t \in Threads, SetMethod(t) PROVE Reports'
  BY <1>6, <1>i, <1>l, <1>n DEF SetMethod, Reports, fields, locals, ghosts, inputs
<1>7. ASSUME NEW t \in Threads, SetMaintainPose(t) PROVE Reports'
  BY <1>7, <1>i, <1>l, <1>n DEF SetMaintainPose, Reports, fields, locals, ghosts, inputs
<1>8. ASSUME NEW t \in Threads, Begin(t) PROVE Reports'
  BY <1>8, <1>i, <1>l, <1>n DEF Begin, Reports, fields, locals, ghosts, inputs
<1>9. ASSUME NEW t \in Threads, TakeController(t) PROVE Reports'
  BY <1>9, <1>i, <1>l, <1>n DEF TakeController, Reports, fields, locals, ghosts, inputs
<1>10. ASSUME NEW t \in Threads, Mismatch(t) PROVE Reports'
  BY <1>10, <1>i, <1>l, <1>n DEF Mismatch, Reports, fields, locals, ghosts, inputs
<1>11. ASSUME NEW t \in Threads, Match(t) PROVE Reports'
  BY <1>11, <1>i, <1>l, <1>n DEF Match, Reports, fields, locals, ghosts, inputs
<1>12. ASSUME NEW t \in Threads, End(t) PROVE Reports'
  BY <1>12, <1>i, <1>l, <1>n DEF End, Reports, fields, locals, ghosts, inputs
<1>13. ASSUME NEW t \in Threads, Compute(t) PROVE Reports'
  BY <1>13, <1>i, <1>l, <1>n DEF Compute, Reports, fields, locals, ghosts, inputs
<1>14. ASSUME NEW t \in Threads, Store(t) \/ PutBack(t) PROVE Reports'
  BY <1>14, <1>i, <1>l, <1>n DEF Store, PutBack, Reports, fields, locals, ghosts, inputs
<1>15. ASSUME NEW t \in Threads, ReadPosition(t) \/ SavePosition(t) \/ SaveDegrees(t) PROVE Reports'
  BY <1>15, <1>i, <1>l, <1>n DEF ReadPosition, SavePosition, SaveDegrees, Reports, fields, locals, ghosts, inputs
<1>16. ASSUME TestCalibrating \/ ReportPose PROVE Reports'
  BY <1>16, <1>i, <1>l, <1>n DEF TestCalibrating, ReportPose, Reports, fields, locals, ghosts, inputs
<1>17. ASSUME ControllerFound \/ ControllerMoves \/ Press \/ Release \/ PostOffset PROVE Reports'
  BY <1>17, <1>i, <1>l, <1>n DEF ControllerFound, ControllerMoves, Press, Release, PostOffset, Reports, fields, locals, ghosts, inputs
<1>18. ASSUME Restart PROVE Reports'
  BY <1>18, <1>i, <1>l, <1>n DEF Restart, Fresh, Reports, fields, locals, ghosts, inputs
<1>19. CASE UNCHANGED vars
  BY <1>19, <1>i, <1>l, <1>n DEF vars, Reports, fields, locals, ghosts, inputs
<1> QED
  BY <1>1, <1>2, <1>3, <1>4, <1>5, <1>6, <1>7, <1>8, <1>9, <1>10, <1>11, <1>12, <1>13, <1>14, <1>15, <1>16, <1>17, <1>18, <1>19 DEF Next, Packet, Calibrate

\* Poses are taken from the controller and turned into offsets by turns.
LEMMA NextData == IInv /\ [Next]_vars => DataOK'
<1> SUFFICES ASSUME IInv, [Next]_vars PROVE DataOK'
  OBVIOUS
<1>i. is_calibrating \in BOOLEAN /\ raced \in BOOLEAN
  BY DEF IInv, ControlOK
<1>pc. pc \in [Threads -> Places]
  BY DEF IInv, ControlOK
<1>l. late \in Nat /\ restarts \in Nat
  BY DEF IInv, ControlOK
<1>w. Workers \subseteq Threads /\ Listener \in Threads /\ Listener \notin Workers
  BY WorkersAssumption DEF Threads
<1>a. /\ calibration_method \in Methods /\ reporter \in {"test", "live"}
      /\ controller_id \in {0, 1} /\ moves \in 0 .. Len(ControllerPath) - 1 /\ pressed \in BOOLEAN
      /\ outdated \in BOOLEAN /\ posted \in BOOLEAN /\ overlapped \in BOOLEAN
      /\ presses \in Nat /\ requests \in Nat /\ posts \in Nat
  BY DEF IInv, DataOK
<1>b. /\ maintain_pose \in TurnPoses /\ configuration \in TurnPoses /\ result \in TurnPoses
      /\ saved \in Offsets
  BY DEF IInv, DataOK
<1>c. pose \in [Threads -> TurnPoses] /\ offset \in [Threads -> TurnPoses]
  BY DEF IInv, DataOK
<1>d. \A t \in Threads : pc[t] \in HasController => pose[t].orientation \in Turns
  BY DEF IInv, DataOK
<1>u. /\ UpdatePose \in TurnPoses /\ NoPose \in TurnPoses
      /\ ControllerPose \in TurnPoses /\ ControllerPose.orientation \in Turns
  BY <1>a, <1>b, UpdatePoseType, NoPoseType, ControllerType
<1>1. ASSUME PacketPressed PROVE DataOK'
  BY <1>1, <1>pc, <1>w, <1>a, <1>b, <1>c, <1>d, <1>u DEF PacketPressed, Enter, DataOK, HasController, fields, locals, ghosts, inputs
<1>2. ASSUME PacketReleased PROVE DataOK'
  BY <1>2, <1>pc, <1>w, <1>a, <1>b, <1>c, <1>d, <1>u DEF PacketReleased, Step, DataOK, HasController, fields, locals, ghosts, inputs
<1>3. ASSUME NEW t \in Workers, RequestStart(t) PROVE DataOK'
  BY <1>3, <1>pc, <1>w, <1>a, <1>b, <1>c, <1>d, <1>u DEF RequestStart, Enter, DataOK, HasController, fields, locals, ghosts, inputs
<1>4. ASSUME NEW t \in Workers, RequestComplete(t) PROVE DataOK'
  BY <1>4, <1>pc, <1>w, <1>a, <1>b, <1>c, <1>d, <1>u DEF RequestComplete, Step, DataOK, HasController, fields, locals, ghosts, inputs
<1>5. ASSUME NEW t \in Threads, TakePose(t) PROVE DataOK'
  BY <1>5, <1>pc, <1>w, <1>a, <1>b, <1>c, <1>d, <1>u DEF TakePose, Step, DataOK, HasController, fields, locals, ghosts, inputs
<1>6. ASSUME NEW t \in Threads, SetMethod(t) PROVE DataOK'
  <2>1. Method(t) \in Methods
    BY DEF Method, Methods
  <2> QED
    BY <1>6, <2>1, <1>pc, <1>w, <1>a, <1>b, <1>c, <1>d, <1>u DEF SetMethod, Step, DataOK, HasController, fields, locals, ghosts, inputs
<1>7. ASSUME NEW t \in Threads, SetMaintainPose(t) PROVE DataOK'
  BY <1>7, <1>pc, <1>w, <1>a, <1>b, <1>c, <1>d, <1>u DEF SetMaintainPose, Step, DataOK, HasController, fields, locals, ghosts, inputs
<1>8. ASSUME NEW t \in Threads, Begin(t) PROVE DataOK'
  BY <1>8, <1>pc, <1>w, <1>a, <1>b, <1>c, <1>d, <1>u DEF Begin, Step, DataOK, HasController, fields, locals, ghosts, inputs
<1>9. ASSUME NEW t \in Threads, TakeController(t) PROVE DataOK'
  BY <1>9, <1>pc, <1>w, <1>a, <1>b, <1>c, <1>d, <1>u DEF TakeController, Step, DataOK, HasController, fields, locals, ghosts, inputs
<1>10. ASSUME NEW t \in Threads, Mismatch(t) PROVE DataOK'
  BY <1>10, <1>pc, <1>w, <1>a, <1>b, <1>c, <1>d, <1>u DEF Mismatch, Step, DataOK, HasController, fields, locals, ghosts, inputs
<1>11. ASSUME NEW t \in Threads, Match(t) PROVE DataOK'
  BY <1>11, <1>pc, <1>w, <1>a, <1>b, <1>c, <1>d, <1>u DEF Match, Enter, DataOK, HasController, fields, locals, ghosts, inputs
<1>12. ASSUME NEW t \in Threads, End(t) PROVE DataOK'
  BY <1>12, <1>pc, <1>w, <1>a, <1>b, <1>c, <1>d, <1>u DEF End, Step, DataOK, HasController, fields, locals, ghosts, inputs
<1>13. ASSUME NEW t \in Threads, Compute(t) PROVE DataOK'
  <2>1. OffsetTo(maintain_pose, pose[t]) \in TurnPoses
    BY <1>13, <1>b, <1>c, <1>d, PosesClosed DEF Compute, Step, HasController
  <2> HIDE DEF OffsetTo
  <2> QED
    BY <1>13, <2>1, <1>pc, <1>w, <1>a, <1>b, <1>c, <1>d, <1>u DEF Compute, Step, DataOK, HasController, fields, locals, ghosts, inputs
<1>14. ASSUME NEW t \in Threads, Store(t) \/ PutBack(t) PROVE DataOK'
  <2>1. offset[t] \in TurnPoses /\ AnotherSaves(t) \in BOOLEAN
    BY <1>c DEF AnotherSaves
  <2>2. CASE Store(t)
    <3>1. outdated' \in BOOLEAN
      BY <2>2, <1>a DEF Store
    <3> QED
      BY <2>1, <2>2, <3>1, <1>pc, <1>w, <1>a, <1>b, <1>c, <1>d, <1>u DEF Store, Step, DataOK, HasController, fields, locals, ghosts, inputs
  <2>3. CASE PutBack(t)
    BY <2>1, <2>3, <1>pc, <1>w, <1>a, <1>b, <1>c, <1>d, <1>u DEF PutBack, Step, DataOK, HasController, fields, locals, ghosts, inputs
  <2> QED
    BY <1>14, <2>2, <2>3
<1>15. ASSUME NEW t \in Threads, ReadPosition(t) \/ SavePosition(t) \/ SaveDegrees(t) PROVE DataOK'
  <2>1. /\ configuration.position \in Vectors /\ configuration.orientation \in Turns \cup {Zero}
        /\ [NoPose EXCEPT !.position = configuration.position] \in TurnPoses
        /\ [NoPose EXCEPT !.orientation = configuration.orientation] \in TurnPoses
    BY <1>b, <1>u DEF TurnPoses
  <2>2. CASE ReadPosition(t)
    BY <2>1, <2>2, <1>pc, <1>w, <1>a, <1>b, <1>c, <1>d, <1>u DEF ReadPosition, Step, DataOK, HasController, fields, locals, ghosts, inputs
  <2>3. CASE SavePosition(t)
    <3>1. offset[t].position \in Vectors
      BY <1>c DEF TurnPoses
    <3>2. saved' \in Offsets
      BY <2>3, <3>1, <1>b DEF SavePosition, Offsets
    <3> QED
      BY <2>1, <2>3, <3>2, <1>pc, <1>w, <1>a, <1>b, <1>c, <1>d, <1>u DEF SavePosition, Step, DataOK, HasController, fields, locals, ghosts, inputs
  <2>4. CASE SaveDegrees(t)
    <3>1. offset[t].orientation \in Quaternions
      BY <1>c, TurnsType, QuaternionType DEF TurnPoses, Zero
    <3>2. saved' \in Offsets
      BY <2>4, <3>1, <1>b, EulerType DEF SaveDegrees, Offsets
    <3> QED
      BY <2>4, <3>2, <1>pc, <1>w, <1>a, <1>b, <1>c, <1>d, <1>u DEF SaveDegrees, Step, DataOK, HasController, fields, locals, ghosts, inputs
  <2> QED
    BY <1>15, <2>2, <2>3, <2>4
<1>16. ASSUME TestCalibrating \/ ReportPose PROVE DataOK'
  BY <1>16, <1>pc, <1>w, <1>a, <1>b, <1>c, <1>d, <1>u DEF TestCalibrating, ReportPose, DataOK, HasController, fields, locals, ghosts, inputs
<1>17. ASSUME ControllerFound \/ ControllerMoves \/ Press \/ Release \/ PostOffset PROVE DataOK'
  <2>1. CASE ControllerFound
    BY <2>1, <1>pc, <1>w, <1>a, <1>b, <1>c, <1>d, <1>u DEF ControllerFound, Step, DataOK, HasController, fields, locals, ghosts, inputs
  <2>2. CASE ControllerMoves
    <3>1. moves' \in 0 .. Len(ControllerPath) - 1
      <4>1. Len(ControllerPath) \in Nat
        BY PathAssumption
      <4> QED
        BY <2>2, <1>a, <4>1 DEF ControllerMoves
    <3> QED
      BY <2>2, <3>1, <1>pc, <1>w, <1>a, <1>b, <1>c, <1>d, <1>u DEF ControllerMoves, Step, DataOK, HasController, fields, locals, ghosts, inputs
  <2>3. CASE Press
    BY <2>3, <1>pc, <1>w, <1>a, <1>b, <1>c, <1>d, <1>u DEF Press, Step, DataOK, HasController, fields, locals, ghosts, inputs
  <2>4. CASE Release
    BY <2>4, <1>pc, <1>w, <1>a, <1>b, <1>c, <1>d, <1>u DEF Release, Step, DataOK, HasController, fields, locals, ghosts, inputs
  <2>5. CASE PostOffset
    BY <2>5, SettingsAssumption, <1>pc, <1>w, <1>a, <1>b, <1>c, <1>d, <1>u DEF PostOffset, Step, DataOK, HasController, fields, locals, ghosts, inputs
  <2> QED
    BY <1>17, <2>1, <2>2, <2>3, <2>4, <2>5
<1>18. ASSUME Restart PROVE DataOK'
  <2>1. Loaded(saved) \in TurnPoses
    BY <1>b, LoadedType
  <2>2. /\ calibration_method' = "Hardware" /\ maintain_pose' = NoPose /\ configuration' = Loaded(saved)
        /\ controller_id' = 0 /\ pc' = [t \in Threads |-> "idle"] /\ reporter' = "test"
        /\ pose' = [t \in Threads |-> NoPose] /\ offset' = [t \in Threads |-> NoPose]
    BY <1>18 DEF Restart, Fresh
  <2>3. /\ overlapped' = FALSE /\ outdated' \in BOOLEAN /\ result' \in TurnPoses
        /\ saved' = saved /\ moves' = moves /\ pressed' = pressed /\ posted' = posted
        /\ presses' = presses /\ requests' = requests /\ posts' = posts
    BY <1>18, <1>a, <1>b, <2>1 DEF Restart
  <2>4. pose' \in [Threads -> TurnPoses] /\ offset' \in [Threads -> TurnPoses] /\ configuration' \in TurnPoses
    BY <2>1, <2>2, <1>u
  <2>5. \A t \in Threads : pc'[t] \notin HasController
    BY <2>2 DEF HasController
  <2>6. calibration_method' \in Methods /\ reporter' \in {"test", "live"} /\ controller_id' \in {0, 1}
    BY <2>2 DEF Methods
  <2> QED
    BY <2>2, <2>3, <2>4, <2>5, <2>6, <1>a, <1>b, <1>u DEF DataOK
<1>19. CASE UNCHANGED vars
  BY <1>19, <1>pc, <1>w, <1>a, <1>b, <1>c, <1>d, <1>u DEF vars, DataOK, HasController, fields, locals, ghosts, inputs
<1> QED
  BY <1>1, <1>2, <1>3, <1>4, <1>5, <1>6, <1>7, <1>8, <1>9, <1>10, <1>11, <1>12, <1>13, <1>14, <1>15, <1>16, <1>17, <1>18, <1>19 DEF Next, Packet, Calibrate

\* A thread that enters finds no other inside, or makes raced true.
LEMMA NextSessions == IInv /\ [Next]_vars => Sessions'
<1> SUFFICES ASSUME IInv, [Next]_vars PROVE Sessions'
  OBVIOUS
<1>i. is_calibrating \in BOOLEAN /\ raced \in BOOLEAN
  BY DEF IInv, ControlOK
<1>pc. pc \in [Threads -> Places]
  BY DEF IInv, ControlOK
<1>l. late \in Nat /\ restarts \in Nat
  BY DEF IInv, ControlOK
<1>w. Workers \subseteq Threads /\ Listener \in Threads /\ Listener \notin Workers
  BY WorkersAssumption DEF Threads
<1>n. Sessions
  BY DEF IInv
<1>1. ASSUME PacketPressed PROVE Sessions'
  BY <1>1, <1>i, <1>pc, <1>w, <1>n DEF PacketPressed, Enter, Sessions, Critical, Starting, Completing, Saving, fields, locals, ghosts, inputs
<1>2. ASSUME PacketReleased PROVE Sessions'
  BY <1>2, <1>i, <1>pc, <1>w, <1>n DEF PacketReleased, Step, Sessions, Critical, Starting, Completing, Saving, fields, locals, ghosts, inputs
<1>3. ASSUME NEW t \in Workers, RequestStart(t) PROVE Sessions'
  BY <1>3, <1>i, <1>pc, <1>w, <1>n DEF RequestStart, Enter, Sessions, Critical, Starting, Completing, Saving, fields, locals, ghosts, inputs
<1>4. ASSUME NEW t \in Workers, RequestComplete(t) PROVE Sessions'
  BY <1>4, <1>i, <1>pc, <1>w, <1>n DEF RequestComplete, Step, Sessions, Critical, Starting, Completing, Saving, fields, locals, ghosts, inputs
<1>5. ASSUME NEW t \in Threads, TakePose(t) PROVE Sessions'
  BY <1>5, <1>i, <1>pc, <1>w, <1>n DEF TakePose, Step, Sessions, Critical, Starting, Completing, Saving, fields, locals, ghosts, inputs
<1>6. ASSUME NEW t \in Threads, SetMethod(t) PROVE Sessions'
  BY <1>6, <1>i, <1>pc, <1>w, <1>n DEF SetMethod, Step, Sessions, Critical, Starting, Completing, Saving, fields, locals, ghosts, inputs
<1>7. ASSUME NEW t \in Threads, SetMaintainPose(t) PROVE Sessions'
  BY <1>7, <1>i, <1>pc, <1>w, <1>n DEF SetMaintainPose, Step, Sessions, Critical, Starting, Completing, Saving, fields, locals, ghosts, inputs
<1>8. ASSUME NEW t \in Threads, Begin(t) PROVE Sessions'
  BY <1>8, <1>i, <1>pc, <1>w, <1>n DEF Begin, Step, Sessions, Critical, Starting, Completing, Saving, fields, locals, ghosts, inputs
<1>9. ASSUME NEW t \in Threads, TakeController(t) PROVE Sessions'
  BY <1>9, <1>i, <1>pc, <1>w, <1>n DEF TakeController, Step, Sessions, Critical, Starting, Completing, Saving, fields, locals, ghosts, inputs
<1>10. ASSUME NEW t \in Threads, Mismatch(t) PROVE Sessions'
  BY <1>10, <1>i, <1>pc, <1>w, <1>n DEF Mismatch, Step, Sessions, Critical, Starting, Completing, Saving, fields, locals, ghosts, inputs
<1>11. ASSUME NEW t \in Threads, Match(t) PROVE Sessions'
  BY <1>11, <1>i, <1>pc, <1>w, <1>n DEF Match, Enter, Sessions, Critical, Starting, Completing, Saving, fields, locals, ghosts, inputs
<1>12. ASSUME NEW t \in Threads, End(t) PROVE Sessions'
  BY <1>12, <1>i, <1>pc, <1>w, <1>n DEF End, Step, Sessions, Critical, Starting, Completing, Saving, fields, locals, ghosts, inputs
<1>13. ASSUME NEW t \in Threads, Compute(t) PROVE Sessions'
  BY <1>13, <1>i, <1>pc, <1>w, <1>n DEF Compute, Step, Sessions, Critical, Starting, Completing, Saving, fields, locals, ghosts, inputs
<1>14. ASSUME NEW t \in Threads, Store(t) \/ PutBack(t) PROVE Sessions'
  BY <1>14, <1>i, <1>pc, <1>w, <1>n DEF Store, PutBack, Step, Sessions, Critical, Starting, Completing, Saving, fields, locals, ghosts, inputs
<1>15. ASSUME NEW t \in Threads, ReadPosition(t) \/ SavePosition(t) \/ SaveDegrees(t) PROVE Sessions'
  BY <1>15, <1>i, <1>pc, <1>w, <1>n DEF ReadPosition, SavePosition, SaveDegrees, Step, Sessions, Critical, Starting, Completing, Saving, fields, locals, ghosts, inputs
<1>16. ASSUME TestCalibrating \/ ReportPose PROVE Sessions'
  BY <1>16, <1>i, <1>pc, <1>w, <1>n DEF TestCalibrating, ReportPose, Sessions, Critical, Starting, Completing, Saving, fields, locals, ghosts, inputs
<1>17. ASSUME ControllerFound \/ ControllerMoves \/ Press \/ Release \/ PostOffset PROVE Sessions'
  BY <1>17, <1>i, <1>pc, <1>w, <1>n DEF ControllerFound, ControllerMoves, Press, Release, PostOffset, Sessions, Critical, Starting, Completing, Saving, fields, locals, ghosts, inputs
<1>18. ASSUME Restart PROVE Sessions'
  BY <1>18, <1>i, <1>pc, <1>w, <1>n DEF Restart, Fresh, Sessions, Critical, Starting, Completing, Saving, fields, locals, ghosts, inputs
<1>19. CASE UNCHANGED vars
  BY <1>19, <1>i, <1>pc, <1>w, <1>n DEF vars, Sessions, Critical, Starting, Completing, Saving, fields, locals, ghosts, inputs
<1> QED
  BY <1>1, <1>2, <1>3, <1>4, <1>5, <1>6, <1>7, <1>8, <1>9, <1>10, <1>11, <1>12, <1>13, <1>14, <1>15, <1>16, <1>17, <1>18, <1>19 DEF Next, Packet, Calibrate

\* The method's owner is the only one to write the frozen pose, and stores what it
\* computed.
LEMMA NextFrozen == IInv /\ [Next]_vars => Frozen'
<1> SUFFICES ASSUME IInv, [Next]_vars PROVE Frozen'
  OBVIOUS
<1>i. is_calibrating \in BOOLEAN /\ raced \in BOOLEAN
  BY DEF IInv, ControlOK
<1>pc. pc \in [Threads -> Places]
  BY DEF IInv, ControlOK
<1>l. late \in Nat /\ restarts \in Nat
  BY DEF IInv, ControlOK
<1>w. Workers \subseteq Threads /\ Listener \in Threads /\ Listener \notin Workers
  BY WorkersAssumption DEF Threads
<1>b. /\ maintain_pose \in TurnPoses /\ configuration \in TurnPoses /\ result \in TurnPoses
      /\ saved \in Offsets
  BY DEF IInv, DataOK
<1>c. pose \in [Threads -> TurnPoses] /\ offset \in [Threads -> TurnPoses]
  BY DEF IInv, DataOK
<1>o. outdated \in BOOLEAN /\ posted \in BOOLEAN /\ overlapped \in BOOLEAN
  BY DEF IInv, DataOK
<1>n. Frozen /\ Sessions
  BY DEF IInv
<1>1. ASSUME PacketPressed PROVE Frozen'
  BY <1>1, <1>i, <1>pc, <1>w, <1>c, <1>n DEF PacketPressed, Enter, Frozen, fields, locals, ghosts, inputs
<1>2. ASSUME PacketReleased PROVE Frozen'
  BY <1>2, <1>i, <1>pc, <1>w, <1>c, <1>n DEF PacketReleased, Step, Frozen, fields, locals, ghosts, inputs
<1>3. ASSUME NEW t \in Workers, RequestStart(t) PROVE Frozen'
  BY <1>3, <1>i, <1>pc, <1>w, <1>c, <1>n DEF RequestStart, Enter, Frozen, fields, locals, ghosts, inputs
<1>4. ASSUME NEW t \in Workers, RequestComplete(t) PROVE Frozen'
  BY <1>4, <1>i, <1>pc, <1>w, <1>c, <1>n DEF RequestComplete, Step, Frozen, fields, locals, ghosts, inputs
<1>5. ASSUME NEW t \in Threads, TakePose(t) PROVE Frozen'
  BY <1>5, <1>i, <1>pc, <1>w, <1>c, <1>n DEF TakePose, Step, Frozen, fields, locals, ghosts, inputs
<1>6. ASSUME NEW t \in Threads, SetMethod(t) PROVE Frozen'
  BY <1>6, <1>i, <1>pc, <1>w, <1>c, <1>n DEF SetMethod, Step, Frozen, fields, locals, ghosts, inputs
<1>7. ASSUME NEW t \in Threads, SetMaintainPose(t) PROVE Frozen'
  <2>1. ASSUME ~raced, NEW u \in Threads, pc'[u] = "store" PROVE FALSE
    <3>1. u # t /\ pc[u] = "store" /\ pc[t] = "maintain"
      BY <1>7, <1>pc, <2>1 DEF SetMaintainPose, Step
    <3>2. {pc[t], pc[u]} \subseteq Critical
      BY <3>1 DEF Critical, Starting, Completing
    <3> QED
      BY <2>1, <3>1, <3>2, <1>n DEF Sessions
  <2> QED
    BY <1>7, <1>i, <2>1 DEF SetMaintainPose, Frozen, ghosts
<1>8. ASSUME NEW t \in Threads, Begin(t) PROVE Frozen'
  BY <1>8, <1>i, <1>pc, <1>w, <1>c, <1>n DEF Begin, Step, Frozen, fields, locals, ghosts, inputs
<1>9. ASSUME NEW t \in Threads, TakeController(t) PROVE Frozen'
  BY <1>9, <1>i, <1>pc, <1>w, <1>c, <1>n DEF TakeController, Step, Frozen, fields, locals, ghosts, inputs
<1>10. ASSUME NEW t \in Threads, Mismatch(t) PROVE Frozen'
  BY <1>10, <1>i, <1>pc, <1>w, <1>c, <1>n DEF Mismatch, Step, Frozen, fields, locals, ghosts, inputs
<1>11. ASSUME NEW t \in Threads, Match(t) PROVE Frozen'
  BY <1>11, <1>i, <1>pc, <1>w, <1>c, <1>n DEF Match, Enter, Frozen, fields, locals, ghosts, inputs
<1>12. ASSUME NEW t \in Threads, End(t) PROVE Frozen'
  BY <1>12, <1>i, <1>pc, <1>w, <1>c, <1>n DEF End, Step, Frozen, fields, locals, ghosts, inputs
<1>13. ASSUME NEW t \in Threads, Compute(t) PROVE Frozen'
  BY <1>13, <1>i, <1>pc, <1>w, <1>c, <1>n DEF Compute, Step, Frozen, fields, locals, ghosts, inputs
<1>14. ASSUME NEW t \in Threads, Store(t) \/ PutBack(t) PROVE Frozen'
  BY <1>14, <1>i, <1>pc, <1>w, <1>c, <1>n DEF Store, PutBack, Step, Frozen, fields, locals, ghosts, inputs
<1>15. ASSUME NEW t \in Threads, ReadPosition(t) \/ SavePosition(t) \/ SaveDegrees(t) PROVE Frozen'
  BY <1>15, <1>i, <1>pc, <1>w, <1>c, <1>n DEF ReadPosition, SavePosition, SaveDegrees, Step, Frozen, fields, locals, ghosts, inputs
<1>16. ASSUME TestCalibrating \/ ReportPose PROVE Frozen'
  BY <1>16, <1>i, <1>pc, <1>w, <1>c, <1>n DEF TestCalibrating, ReportPose, Frozen, fields, locals, ghosts, inputs
<1>17. ASSUME ControllerFound \/ ControllerMoves \/ Press \/ Release \/ PostOffset PROVE Frozen'
  BY <1>17, <1>i, <1>pc, <1>w, <1>c, <1>n DEF ControllerFound, ControllerMoves, Press, Release, PostOffset, Frozen, fields, locals, ghosts, inputs
<1>18. ASSUME Restart PROVE Frozen'
  BY <1>18, <1>i, <1>pc, <1>w, <1>c, <1>n DEF Restart, Fresh, Frozen, fields, locals, ghosts, inputs
<1>19. CASE UNCHANGED vars
  BY <1>19, <1>i, <1>pc, <1>w, <1>c, <1>n DEF vars, Frozen, fields, locals, ghosts, inputs
<1> QED
  BY <1>1, <1>2, <1>3, <1>4, <1>5, <1>6, <1>7, <1>8, <1>9, <1>10, <1>11, <1>12, <1>13, <1>14, <1>15, <1>16, <1>17, <1>18, <1>19 DEF Next, Packet, Calibrate

\* A copy is put back while it is of the offset in force, or it is outdated.
LEMMA NextSticks == IInv /\ [Next]_vars => Sticks'
<1> SUFFICES ASSUME IInv, [Next]_vars PROVE Sticks'
  OBVIOUS
<1>i. is_calibrating \in BOOLEAN /\ raced \in BOOLEAN
  BY DEF IInv, ControlOK
<1>pc. pc \in [Threads -> Places]
  BY DEF IInv, ControlOK
<1>l. late \in Nat /\ restarts \in Nat
  BY DEF IInv, ControlOK
<1>w. Workers \subseteq Threads /\ Listener \in Threads /\ Listener \notin Workers
  BY WorkersAssumption DEF Threads
<1>b. /\ maintain_pose \in TurnPoses /\ configuration \in TurnPoses /\ result \in TurnPoses
      /\ saved \in Offsets
  BY DEF IInv, DataOK
<1>c. pose \in [Threads -> TurnPoses] /\ offset \in [Threads -> TurnPoses]
  BY DEF IInv, DataOK
<1>o. outdated \in BOOLEAN /\ posted \in BOOLEAN /\ overlapped \in BOOLEAN
  BY DEF IInv, DataOK
<1>n. Sticks /\ Saves
  BY DEF IInv
<1>1. ASSUME PacketPressed PROVE Sticks'
  BY <1>1, <1>pc, <1>w, <1>c, <1>o, <1>n DEF PacketPressed, Enter, Sticks, fields, locals, ghosts, inputs
<1>2. ASSUME PacketReleased PROVE Sticks'
  BY <1>2, <1>pc, <1>w, <1>c, <1>o, <1>n DEF PacketReleased, Step, Sticks, fields, locals, ghosts, inputs
<1>3. ASSUME NEW t \in Workers, RequestStart(t) PROVE Sticks'
  BY <1>3, <1>pc, <1>w, <1>c, <1>o, <1>n DEF RequestStart, Enter, Sticks, fields, locals, ghosts, inputs
<1>4. ASSUME NEW t \in Workers, RequestComplete(t) PROVE Sticks'
  BY <1>4, <1>pc, <1>w, <1>c, <1>o, <1>n DEF RequestComplete, Step, Sticks, fields, locals, ghosts, inputs
<1>5. ASSUME NEW t \in Threads, TakePose(t) PROVE Sticks'
  BY <1>5, <1>pc, <1>w, <1>c, <1>o, <1>n DEF TakePose, Step, Sticks, fields, locals, ghosts, inputs
<1>6. ASSUME NEW t \in Threads, SetMethod(t) PROVE Sticks'
  BY <1>6, <1>pc, <1>w, <1>c, <1>o, <1>n DEF SetMethod, Step, Sticks, fields, locals, ghosts, inputs
<1>7. ASSUME NEW t \in Threads, SetMaintainPose(t) PROVE Sticks'
  BY <1>7, <1>pc, <1>w, <1>c, <1>o, <1>n DEF SetMaintainPose, Step, Sticks, fields, locals, ghosts, inputs
<1>8. ASSUME NEW t \in Threads, Begin(t) PROVE Sticks'
  BY <1>8, <1>pc, <1>w, <1>c, <1>o, <1>n DEF Begin, Step, Sticks, fields, locals, ghosts, inputs
<1>9. ASSUME NEW t \in Threads, TakeController(t) PROVE Sticks'
  BY <1>9, <1>pc, <1>w, <1>c, <1>o, <1>n DEF TakeController, Step, Sticks, fields, locals, ghosts, inputs
<1>10. ASSUME NEW t \in Threads, Mismatch(t) PROVE Sticks'
  <2>1. ASSUME ~outdated' PROVE Same(configuration', result')
    BY <1>10, <2>1, <1>n DEF Mismatch, Sticks, ghosts
  <2>2. ASSUME ~outdated', NEW u \in Threads, pc'[u] = "putback" PROVE Same(offset'[u], result')
    BY <1>10, <2>2, <1>pc, <1>c, <1>n DEF Mismatch, Step, Sticks, ghosts
  <2> QED
    BY <2>1, <2>2 DEF Sticks
<1>11. ASSUME NEW t \in Threads, Match(t) PROVE Sticks'
  BY <1>11, <1>pc, <1>w, <1>c, <1>o, <1>n DEF Match, Enter, Sticks, fields, locals, ghosts, inputs
<1>12. ASSUME NEW t \in Threads, End(t) PROVE Sticks'
  BY <1>12, <1>pc, <1>w, <1>c, <1>o, <1>n DEF End, Step, Sticks, fields, locals, ghosts, inputs
<1>13. ASSUME NEW t \in Threads, Compute(t) PROVE Sticks'
  BY <1>13, <1>pc, <1>w, <1>c, <1>o, <1>n DEF Compute, Step, Sticks, fields, locals, ghosts, inputs
<1>14. ASSUME NEW t \in Threads, Store(t) \/ PutBack(t) PROVE Sticks'
  <2>1. CASE Store(t)
    <3>1. configuration' = offset[t] /\ result' = offset[t]
      BY <2>1 DEF Store
    <3>2. ~outdated' => \A u \in Threads : pc'[u] # "putback"
      BY <2>1, <1>pc DEF Store, Step
    <3> QED
      BY <3>1, <3>2, SameReflexive DEF Sticks
  <2>2. CASE PutBack(t)
    <3>1. /\ configuration' = offset[t] /\ result' = result /\ outdated' = outdated /\ pc[t] = "putback"
          /\ \A u \in Threads : pc'[u] = "putback" => u # t /\ pc[u] = "putback" /\ offset'[u] = offset[u]
      BY <2>2, <1>pc, <1>c DEF PutBack, Step
    <3> QED
      BY <3>1, <1>n DEF Sticks
  <2> QED
    BY <1>14, <2>1, <2>2
<1>15. ASSUME NEW t \in Threads, ReadPosition(t) \/ SavePosition(t) \/ SaveDegrees(t) PROVE Sticks'
  BY <1>15, <1>pc, <1>w, <1>c, <1>o, <1>n DEF ReadPosition, SavePosition, SaveDegrees, Step, Sticks, fields, locals, ghosts, inputs
<1>16. ASSUME TestCalibrating \/ ReportPose PROVE Sticks'
  BY <1>16, <1>pc, <1>w, <1>c, <1>o, <1>n DEF TestCalibrating, ReportPose, Sticks, fields, locals, ghosts, inputs
<1>17. ASSUME ControllerFound \/ ControllerMoves \/ Press \/ Release \/ PostOffset PROVE Sticks'
  BY <1>17, <1>pc, <1>w, <1>c, <1>o, <1>n DEF ControllerFound, ControllerMoves, Press, Release, PostOffset, Sticks, fields, locals, ghosts, inputs
<1>18. ASSUME Restart PROVE Sticks'
  <2> SUFFICES ASSUME ~outdated' PROVE Same(configuration', result') /\ \A t \in Threads : pc'[t] # "putback"
    BY DEF Sticks
  <2>1. configuration' = Loaded(saved) /\ pc' = [t \in Threads |-> "idle"]
    BY <1>18 DEF Restart, Fresh
  <2>2. CASE posted
    <3>1. result' = Loaded(saved)
      BY <1>18, <2>2 DEF Restart
    <3> QED
      BY <2>1, <3>1, SameReflexive
  <2>3. CASE ~posted
    <3>1. result' = result /\ ~outdated /\ ~overlapped /\ \A t \in Threads : pc[t] \notin Saving
      BY <1>18, <2>3, <1>o DEF Restart
    <3>2. Same(Loaded(saved), configuration) /\ Same(configuration, result)
      BY <2>3, <3>1, <1>n DEF Sticks, Saves
    <3>3. Loaded(saved) \in TurnPoses
      BY <1>b, LoadedType
    <3>4. Same(Loaded(saved), result)
      BY <3>2, <3>3, <1>b, SameTransitive
    <3> QED
      BY <2>1, <3>1, <3>4
  <2> QED
    BY <2>2, <2>3
<1>19. CASE UNCHANGED vars
  BY <1>19, <1>pc, <1>w, <1>c, <1>o, <1>n DEF vars, Sticks, fields, locals, ghosts, inputs
<1> QED
  BY <1>1, <1>2, <1>3, <1>4, <1>5, <1>6, <1>7, <1>8, <1>9, <1>10, <1>11, <1>12, <1>13, <1>14, <1>15, <1>16, <1>17, <1>18, <1>19 DEF Next, Packet, Calibrate

\* The one thread that saves writes the parts it has read.
LEMMA NextSaves == IInv /\ [Next]_vars => Saves'
<1> SUFFICES ASSUME IInv, [Next]_vars PROVE Saves'
  OBVIOUS
<1>i. is_calibrating \in BOOLEAN /\ raced \in BOOLEAN
  BY DEF IInv, ControlOK
<1>pc. pc \in [Threads -> Places]
  BY DEF IInv, ControlOK
<1>l. late \in Nat /\ restarts \in Nat
  BY DEF IInv, ControlOK
<1>w. Workers \subseteq Threads /\ Listener \in Threads /\ Listener \notin Workers
  BY WorkersAssumption DEF Threads
<1>b. /\ maintain_pose \in TurnPoses /\ configuration \in TurnPoses /\ result \in TurnPoses
      /\ saved \in Offsets
  BY DEF IInv, DataOK
<1>c. pose \in [Threads -> TurnPoses] /\ offset \in [Threads -> TurnPoses]
  BY DEF IInv, DataOK
<1>o. outdated \in BOOLEAN /\ posted \in BOOLEAN /\ overlapped \in BOOLEAN
  BY DEF IInv, DataOK
<1>n. Saves
  BY DEF IInv
<1>1. ASSUME PacketPressed PROVE Saves'
  BY <1>1, <1>pc, <1>w, <1>c, <1>o, <1>n DEF PacketPressed, Enter, Saves, Starting, Completing, Saving, fields, locals, ghosts, inputs
<1>2. ASSUME PacketReleased PROVE Saves'
  BY <1>2, <1>pc, <1>w, <1>c, <1>o, <1>n DEF PacketReleased, Step, Saves, Starting, Completing, Saving, fields, locals, ghosts, inputs
<1>3. ASSUME NEW t \in Workers, RequestStart(t) PROVE Saves'
  BY <1>3, <1>pc, <1>w, <1>c, <1>o, <1>n DEF RequestStart, Enter, Saves, Starting, Completing, Saving, fields, locals, ghosts, inputs
<1>4. ASSUME NEW t \in Workers, RequestComplete(t) PROVE Saves'
  BY <1>4, <1>pc, <1>w, <1>c, <1>o, <1>n DEF RequestComplete, Step, Saves, Starting, Completing, Saving, fields, locals, ghosts, inputs
<1>5. ASSUME NEW t \in Threads, TakePose(t) PROVE Saves'
  BY <1>5, <1>pc, <1>w, <1>c, <1>o, <1>n DEF TakePose, Step, Saves, Starting, Completing, Saving, fields, locals, ghosts, inputs
<1>6. ASSUME NEW t \in Threads, SetMethod(t) PROVE Saves'
  BY <1>6, <1>pc, <1>w, <1>c, <1>o, <1>n DEF SetMethod, Step, Saves, Starting, Completing, Saving, fields, locals, ghosts, inputs
<1>7. ASSUME NEW t \in Threads, SetMaintainPose(t) PROVE Saves'
  BY <1>7, <1>pc, <1>w, <1>c, <1>o, <1>n DEF SetMaintainPose, Step, Saves, Starting, Completing, Saving, fields, locals, ghosts, inputs
<1>8. ASSUME NEW t \in Threads, Begin(t) PROVE Saves'
  BY <1>8, <1>pc, <1>w, <1>c, <1>o, <1>n DEF Begin, Step, Saves, Starting, Completing, Saving, fields, locals, ghosts, inputs
<1>9. ASSUME NEW t \in Threads, TakeController(t) PROVE Saves'
  BY <1>9, <1>pc, <1>w, <1>c, <1>o, <1>n DEF TakeController, Step, Saves, Starting, Completing, Saving, fields, locals, ghosts, inputs
<1>10. ASSUME NEW t \in Threads, Mismatch(t) PROVE Saves'
  BY <1>10, <1>pc, <1>w, <1>c, <1>o, <1>n DEF Mismatch, Step, Saves, Starting, Completing, Saving, fields, locals, ghosts, inputs
<1>11. ASSUME NEW t \in Threads, Match(t) PROVE Saves'
  BY <1>11, <1>pc, <1>w, <1>c, <1>o, <1>n DEF Match, Enter, Saves, Starting, Completing, Saving, fields, locals, ghosts, inputs
<1>12. ASSUME NEW t \in Threads, End(t) PROVE Saves'
  BY <1>12, <1>pc, <1>w, <1>c, <1>o, <1>n DEF End, Step, Saves, Starting, Completing, Saving, fields, locals, ghosts, inputs
<1>13. ASSUME NEW t \in Threads, Compute(t) PROVE Saves'
  BY <1>13, <1>pc, <1>w, <1>c, <1>o, <1>n DEF Compute, Step, Saves, Starting, Completing, Saving, fields, locals, ghosts, inputs
<1>14. ASSUME NEW t \in Threads, Store(t) \/ PutBack(t) PROVE Saves'
  <2>1. /\ configuration' = offset[t] /\ overlapped' = AnotherSaves(t)
        /\ pc' = [pc EXCEPT ![t] = "save"]
    BY <1>14 DEF Store, PutBack, Step
  <2>2. pc'[t] = "save" /\ "save" \in Saving
    BY <2>1, <1>pc DEF Saving
  <2>3. ASSUME ~overlapped', NEW u \in Threads, u # t PROVE pc'[u] \notin Saving
    BY <2>1, <2>3, <1>pc DEF AnotherSaves
  <2>4. ~overlapped' => \A u, v \in Threads : {pc'[u], pc'[v]} \subseteq Saving => u = v
    BY <2>3
  <2>5. ~overlapped' => \A u \in Threads : pc'[u] # "position" /\ pc'[u] # "degrees"
    BY <2>2, <2>3 DEF Saving
  <2> QED
    BY <2>2, <2>4, <2>5 DEF Saves
<1>15. ASSUME NEW t \in Threads, ReadPosition(t) \/ SavePosition(t) \/ SaveDegrees(t) PROVE Saves'
  <2>1. CASE ReadPosition(t)
    <3>1. NoPose.position = <<0, 0, 0>> /\ [NoPose EXCEPT !.position = configuration.position].position = configuration.position
      BY DEF NoPose
    <3> QED
      BY <2>1, <3>1, <1>pc, <1>c, <1>o, <1>n DEF ReadPosition, Step, Saves, Saving, fields, ghosts, inputs
  <2>2. CASE SavePosition(t)
    <3>1. [NoPose EXCEPT !.orientation = configuration.orientation].orientation = configuration.orientation
      BY DEF NoPose
    <3>2. saved'.position = offset[t].position
      BY <2>2, <1>b DEF SavePosition, Offsets
    <3> QED
      BY <2>2, <3>1, <3>2, <1>pc, <1>c, <1>o, <1>n DEF SavePosition, Step, Saves, Saving, fields, ghosts, inputs
  <2>3. CASE SaveDegrees(t)
    <3>1. saved'.position = saved.position /\ saved'.degrees = QuaternionToEuler(offset[t].orientation)
      BY <2>3, <1>b DEF SaveDegrees, Offsets
    <3>2. ASSUME ~overlapped, ~posted PROVE Same(Loaded(saved'), configuration)
      <4>1. offset[t].orientation = configuration.orientation /\ saved.position = configuration.position
        BY <2>3, <3>2, <1>n DEF SaveDegrees, Step, Saves
      <4> QED
        BY <3>1, <4>1, <1>b, SavedIsTheSame
    <3>3. configuration' = configuration /\ overlapped' = overlapped /\ posted' = posted
      BY <2>3 DEF SaveDegrees, ghosts
    <3>4. Same(Loaded(saved), configuration)' <=> Same(Loaded(saved'), configuration)
      BY <3>3
    <3>5. ~overlapped' /\ ~posted' => Same(Loaded(saved), configuration)'
      BY <3>2, <3>3, <3>4
    <3>6. pc[t] = "degrees" /\ pc' = [pc EXCEPT ![t] = "idle"] /\ offset' = [offset EXCEPT ![t] = NoPose]
      BY <2>3 DEF SaveDegrees, Step
    <3>7. \A u \in Threads : u # t => pc'[u] = pc[u]
      BY <3>6, <1>pc
    <3>8. pc'[t] = "idle" /\ "idle" \notin Saving /\ "degrees" \in Saving
      BY <3>6, <1>pc DEF Saving
    <3>9. ~overlapped' => \A u, v \in Threads : {pc'[u], pc'[v]} \subseteq Saving => u = v
      BY <3>3, <3>7, <3>8, <1>n DEF Saves
    <3>10. ~overlapped' => \A u \in Threads : pc'[u] # "position" /\ pc'[u] # "degrees"
      <4>1. ASSUME ~overlapped, NEW u \in Threads, u # t, pc[u] \in Saving PROVE FALSE
        BY <4>1, <3>6, <3>8, <1>n DEF Saves
      <4> QED
        BY <4>1, <3>3, <3>7, <3>8 DEF Saving
    <3> QED
      BY <3>5, <3>9, <3>10 DEF Saves
  <2> QED
    BY <1>15, <2>1, <2>2, <2>3
<1>16. ASSUME TestCalibrating \/ ReportPose PROVE Saves'
  BY <1>16, <1>pc, <1>w, <1>c, <1>o, <1>n DEF TestCalibrating, ReportPose, Saves, Starting, Completing, Saving, fields, locals, ghosts, inputs
<1>17. ASSUME ControllerFound \/ ControllerMoves \/ Press \/ Release \/ PostOffset PROVE Saves'
  BY <1>17, <1>pc, <1>w, <1>c, <1>o, <1>n DEF ControllerFound, ControllerMoves, Press, Release, PostOffset, Saves, Starting, Completing, Saving, fields, locals, ghosts, inputs
<1>18. ASSUME Restart PROVE Saves'
  <2>1. configuration' = Loaded(saved) /\ saved' = saved /\ pc' = [t \in Threads |-> "idle"]
    BY <1>18 DEF Restart, Fresh
  <2>2. Same(Loaded(saved'), configuration')
    BY <2>1, SameReflexive
  <2>3. \A t \in Threads : pc'[t] = "idle"
    BY <2>1
  <2> QED
    BY <2>2, <2>3 DEF Saves, Saving
<1>19. CASE UNCHANGED vars
  BY <1>19, <1>pc, <1>w, <1>c, <1>o, <1>n DEF vars, Saves, Starting, Completing, Saving, fields, locals, ghosts, inputs
<1> QED
  BY <1>1, <1>2, <1>3, <1>4, <1>5, <1>6, <1>7, <1>8, <1>9, <1>10, <1>11, <1>12, <1>13, <1>14, <1>15, <1>16, <1>17, <1>18, <1>19 DEF Next, Packet, Calibrate

\* What a step may do to the session.
OwnerStep ==
  ~raced' /\ Session' # Session /\ restarts' = restarts =>
    \E t \in Threads :
      /\ pc'[t] # pc[t]
      /\ \/ Session' = Method(t) /\ (t = Listener => Session = "None")
         \/ Session' = "None" /\ Session = Method(t)

\* A session begins and ends by its method's thread.
LEMMA NextOwner == IInv /\ [Next]_vars => OwnerStep
<1> SUFFICES ASSUME IInv, [Next]_vars PROVE OwnerStep
  OBVIOUS
<1>i. is_calibrating \in BOOLEAN /\ raced \in BOOLEAN
  BY DEF IInv, ControlOK
<1>pc. pc \in [Threads -> Places]
  BY DEF IInv, ControlOK
<1>l. late \in Nat /\ restarts \in Nat
  BY DEF IInv, ControlOK
<1>w. Workers \subseteq Threads /\ Listener \in Threads /\ Listener \notin Workers
  BY WorkersAssumption DEF Threads
<1>n. Sessions
  BY DEF IInv
<1>1. ASSUME PacketPressed PROVE OwnerStep
  BY <1>1, <1>i, <1>pc, <1>w, <1>n DEF PacketPressed, Enter, OwnerStep, Session, fields, locals, ghosts, inputs
<1>2. ASSUME PacketReleased PROVE OwnerStep
  BY <1>2, <1>i, <1>pc, <1>w, <1>n DEF PacketReleased, Step, OwnerStep, Session, fields, locals, ghosts, inputs
<1>3. ASSUME NEW t \in Workers, RequestStart(t) PROVE OwnerStep
  BY <1>3, <1>i, <1>pc, <1>w, <1>n DEF RequestStart, Enter, OwnerStep, Session, fields, locals, ghosts, inputs
<1>4. ASSUME NEW t \in Workers, RequestComplete(t) PROVE OwnerStep
  BY <1>4, <1>i, <1>pc, <1>w, <1>n DEF RequestComplete, Step, OwnerStep, Session, fields, locals, ghosts, inputs
<1>5. ASSUME NEW t \in Threads, TakePose(t) PROVE OwnerStep
  BY <1>5, <1>i, <1>pc, <1>w, <1>n DEF TakePose, Step, OwnerStep, Session, fields, locals, ghosts, inputs
<1>6. ASSUME NEW t \in Threads, SetMethod(t) PROVE OwnerStep
  <2> SUFFICES ASSUME ~raced', Session' # Session
               PROVE  /\ pc'[t] # pc[t]
                      /\ \/ Session' = Method(t) /\ (t = Listener => Session = "None")
                         \/ Session' = "None" /\ Session = Method(t)
    BY DEF OwnerStep
  <2>1. ~raced /\ pc[t] = "method" /\ pc'[t] = "maintain"
    BY <1>6, <1>pc DEF SetMethod, Step, ghosts
  <2>2. calibration_method' = Method(t) /\ is_calibrating' = is_calibrating
    BY <1>6 DEF SetMethod, fields
  <2> QED
    BY <2>1, <2>2, <1>i, <1>n DEF Sessions, Session, Starting
<1>7. ASSUME NEW t \in Threads, SetMaintainPose(t) PROVE OwnerStep
  BY <1>7, <1>i, <1>pc, <1>w, <1>n DEF SetMaintainPose, Step, OwnerStep, Session, fields, locals, ghosts, inputs
<1>8. ASSUME NEW t \in Threads, Begin(t) PROVE OwnerStep
  <2> SUFFICES ASSUME ~raced', Session' # Session
               PROVE  /\ pc'[t] # pc[t]
                      /\ \/ Session' = Method(t) /\ (t = Listener => Session = "None")
                         \/ Session' = "None" /\ Session = Method(t)
    BY DEF OwnerStep
  <2>1. ~raced /\ pc[t] = "begin" /\ pc'[t] = "idle"
    BY <1>8, <1>pc DEF Begin, Step, ghosts
  <2>2. calibration_method' = calibration_method /\ is_calibrating' = TRUE
    BY <1>8 DEF Begin, fields
  <2> QED
    BY <2>1, <2>2, <1>i, <1>n DEF Sessions, Session, Starting
<1>9. ASSUME NEW t \in Threads, TakeController(t) PROVE OwnerStep
  BY <1>9, <1>i, <1>pc, <1>w, <1>n DEF TakeController, Step, OwnerStep, Session, fields, locals, ghosts, inputs
<1>10. ASSUME NEW t \in Threads, Mismatch(t) PROVE OwnerStep
  BY <1>10, <1>i, <1>pc, <1>w, <1>n DEF Mismatch, Step, OwnerStep, Session, fields, locals, ghosts, inputs
<1>11. ASSUME NEW t \in Threads, Match(t) PROVE OwnerStep
  BY <1>11, <1>i, <1>pc, <1>w, <1>n DEF Match, Enter, OwnerStep, Session, fields, locals, ghosts, inputs
<1>12. ASSUME NEW t \in Threads, End(t) PROVE OwnerStep
  <2> SUFFICES ASSUME ~raced', Session' # Session
               PROVE  /\ pc'[t] # pc[t]
                      /\ \/ Session' = Method(t) /\ (t = Listener => Session = "None")
                         \/ Session' = "None" /\ Session = Method(t)
    BY DEF OwnerStep
  <2>1. ~raced /\ pc[t] = "end" /\ pc'[t] = "compute"
    BY <1>12, <1>pc DEF End, Step, ghosts
  <2>2. calibration_method' = calibration_method /\ is_calibrating' = FALSE
    BY <1>12 DEF End, fields
  <2> QED
    BY <2>1, <2>2, <1>i, <1>n DEF Sessions, Session
<1>13. ASSUME NEW t \in Threads, Compute(t) PROVE OwnerStep
  BY <1>13, <1>i, <1>pc, <1>w, <1>n DEF Compute, Step, OwnerStep, Session, fields, locals, ghosts, inputs
<1>14. ASSUME NEW t \in Threads, Store(t) \/ PutBack(t) PROVE OwnerStep
  BY <1>14, <1>i, <1>pc, <1>w, <1>n DEF Store, PutBack, Step, OwnerStep, Session, fields, locals, ghosts, inputs
<1>15. ASSUME NEW t \in Threads, ReadPosition(t) \/ SavePosition(t) \/ SaveDegrees(t) PROVE OwnerStep
  BY <1>15, <1>i, <1>pc, <1>w, <1>n DEF ReadPosition, SavePosition, SaveDegrees, Step, OwnerStep, Session, fields, locals, ghosts, inputs
<1>16. ASSUME TestCalibrating \/ ReportPose PROVE OwnerStep
  BY <1>16, <1>i, <1>pc, <1>w, <1>n DEF TestCalibrating, ReportPose, OwnerStep, Session, fields, locals, ghosts, inputs
<1>17. ASSUME ControllerFound \/ ControllerMoves \/ Press \/ Release \/ PostOffset PROVE OwnerStep
  BY <1>17, <1>i, <1>pc, <1>w, <1>n DEF ControllerFound, ControllerMoves, Press, Release, PostOffset, OwnerStep, Session, fields, locals, ghosts, inputs
<1>18. ASSUME Restart PROVE OwnerStep
  BY <1>18, <1>i, <1>pc, <1>w, <1>n DEF Restart, Fresh, OwnerStep, Session, fields, locals, ghosts, inputs
<1>19. CASE UNCHANGED vars
  BY <1>19, <1>i, <1>pc, <1>w, <1>n DEF vars, OwnerStep, Session, fields, locals, ghosts, inputs
<1> QED
  BY <1>1, <1>2, <1>3, <1>4, <1>5, <1>6, <1>7, <1>8, <1>9, <1>10, <1>11, <1>12, <1>13, <1>14, <1>15, <1>16, <1>17, <1>18, <1>19 DEF Next, Packet, Calibrate

--------------------------------------------------------------------------------
(* The theorems.                                                              *)

\* Together they are inductive.
LEMMA Invariance == Spec => []IInv
<1>1. IInv /\ [Next]_vars => IInv'
  BY NextControl, NextData, NextReports, NextSessions, NextFrozen, NextSticks, NextSaves DEF IInv
<1> QED
  BY InitInvariant, <1>1, PTL DEF Spec

\* Every variable keeps its type: no thread is at a place the code does not have, and no
\* pose or offset leaves the orientations of exact arithmetic.
THEOREM CalibrationTypes == Spec => []TypeOK
<1> SUFFICES ASSUME IInv PROVE TypeOK
  BY Invariance, PTL
<1>1. TurnPoses \subseteq Poses
  <2>1. Turns \cup {Zero} \subseteq Quaternions
    BY TurnsType, QuaternionType DEF Zero
  <2> QED
    BY <2>1 DEF TurnPoses, Poses
<1>2. /\ maintain_pose \in Poses /\ configuration \in Poses /\ result \in Poses
      /\ pose \in [Threads -> Poses] /\ offset \in [Threads -> Poses]
  BY <1>1 DEF IInv, DataOK
<1>3. /\ calibration_method \in Methods /\ reporter \in {"test", "live"} /\ saved \in Offsets
      /\ controller_id \in {0, 1} /\ moves \in 0 .. Len(ControllerPath) - 1 /\ pressed \in BOOLEAN
      /\ outdated \in BOOLEAN /\ posted \in BOOLEAN /\ overlapped \in BOOLEAN
      /\ presses \in Nat /\ requests \in Nat /\ posts \in Nat
  BY DEF IInv, DataOK
<1>4. /\ is_calibrating \in BOOLEAN /\ raced \in BOOLEAN /\ late \in Nat /\ restarts \in Nat
      /\ pc \in [Threads -> {"idle"} \cup Starting \cup Completing \cup Saving]
  BY DEF IInv, ControlOK, Places
<1> QED
  BY <1>2, <1>3, <1>4 DEF TypeOK

\* While no two threads have been inside a start or a completion at once, the offset about
\* to be stored puts the hand, at the pose its controller had, where it was frozen
\* (pose_calibration.cpp, CompleteCalibration; device_pose.cpp, UpdatePose).
THEOREM HandStays == Spec => []HandStaysWhereFrozen
<1> SUFFICES ASSUME IInv PROVE HandStaysWhereFrozen
  BY Invariance, PTL
<1> SUFFICES ASSUME NEW t \in Threads, pc[t] = "store", ~raced
             PROVE  Place(pose[t], offset[t]) = maintain_pose
  BY DEF HandStaysWhereFrozen
<1>1. offset[t] = OffsetTo(maintain_pose, pose[t])
  BY DEF IInv, Frozen
<1>2. pose[t] \in TurnPoses /\ pose[t].orientation \in Turns /\ maintain_pose \in TurnPoses
  BY DEF IInv, DataOK, HasController
<1> QED
  BY <1>1, <1>2, PlaceUndone

\* A completed calibration stays in force, also over a restart, unless a thread held a copy
\* of the old offset or a save was lost (device_pose.cpp; device_configuration.cpp).
THEOREM OffsetSticks == Spec => []CalibrationSticks
<1>1. IInv => CalibrationSticks
  BY DEF IInv, Sticks, CalibrationSticks
<1> QED
  BY <1>1, Invariance, PTL

\* When nobody is about to save, what SteamVR's settings hold is the offset in force, unless
\* an offset was posted or saves overlapped (device_configuration.cpp, SetPoseConfiguration).
THEOREM SavedOffset == Spec => []SavedIsInForce
<1>1. IInv => SavedIsInForce
  BY DEF IInv, Saves, SavedIsInForce
<1> QED
  BY <1>1, Invariance, PTL

\* Once a calibration has begun the hand stays frozen, but for one pose that was taken
\* before (device_pose.cpp, UpdatePose; knuckle_device_driver.cpp, the pose thread).
THEOREM OneLateReport == Spec => []AtMostOneLateReport
<1>1. IInv => AtMostOneLateReport
  BY DEF IInv, Reports, AtMostOneLateReport
<1> QED
  BY <1>1, Invariance, PTL

\* Unless two threads were inside a start or a completion at once, a calibration is
\* ended by its own method only, and the button takes none over (pose_calibration.cpp).
THEOREM SessionsAreOwned == Spec => SessionsKeepTheirOwner
<1>1. IInv /\ [Next]_vars => OwnerStep
  BY NextOwner
<1> QED
  BY <1>1, Invariance, PTL DEF Spec, SessionsKeepTheirOwner, OwnerStep

================================================================================
