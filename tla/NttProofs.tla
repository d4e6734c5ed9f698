----------------------------- MODULE NttProofs -----------------------------
(***************************************************************************)
(* What the reductions of reduce.go return, for every modulus, word size   *)
(* and inverse with the assumptions of module Reduction, and for reduce32  *)
(* with the literals of the code.  From these: the vector multiplication   *)
(* is the scalar one, the loops take the zeta of their block, no sum of    *)
(* the transforms leaves an int32, and modulo Q the transforms are those   *)
(* of module NttField, step by step; so each value of a column at a root   *)
(* arrives where the product needs it, and what the caller gets is the     *)
(* product of the columns with the rows.  All of it for every size,        *)
(* modulus, table and job with the assumptions of modules Ntt and          *)
(* NttImplements.                                                          *)
(***************************************************************************)
EXTENDS NttImplements, TLAPS, WellFoundedInduction

(* Factors keep an inequality.                                             *)
LEMMA Monotone ==
  ASSUME NEW p \in Int, NEW q \in Int, NEW g \in Int, g >= 0, p <= q
  PROVE  p * g \in Int /\ q * g \in Int /\ p * g <= q * g
<1>1. (q - p) * g >= 0
  BY SMT
<1>2. (q - p) * g = q * g - p * g
  BY SMT
<1> QED BY <1>1, <1>2, SMT

(* Two multiples of g that differ by less than g are one.                  *)
LEMMA Unique ==
  ASSUME NEW p \in Int, NEW q \in Int, NEW g \in Int, NEW e \in Int, NEW f \in Int,
         g > 0, p * g + e = q * g + f, e - f < g, f - e < g
  PROVE  p = q
<1>1. CASE p >= q + 1
  <2>1. (q + 1) * g <= p * g
    BY <1>1, Monotone, SMT
  <2>2. (q + 1) * g = q * g + g
    BY SMT
  <2> QED BY <2>1, <2>2, SMT
<1>2. CASE q >= p + 1
  <2>1. (p + 1) * g <= q * g
    BY <1>2, Monotone, SMT
  <2>2. (p + 1) * g = p * g + g
    BY SMT
  <2> QED BY <2>1, <2>2, SMT
<1> QED BY <1>1, <1>2, SMT

(* Quotient and remainder.                                                 *)
LEMMA DivMod ==
  ASSUME NEW x \in Int, NEW n \in Nat, n > 0
  PROVE  /\ (x % n) \in Int /\ 0 <= (x % n) /\ (x % n) < n
         /\ (x \div n) \in Int /\ x = (x \div n) * n + (x % n)
  BY SMT

(* The one quotient that leaves a remainder below n.                       *)
LEMMA DivUnique ==
  ASSUME NEW n \in Nat, n > 0, NEW q \in Int, NEW r \in Int, 0 <= r, r < n
  PROVE  (q * n + r) \div n = q /\ (q * n + r) % n = r
<1> DEFINE x == q * n + r
<1>1. x \in Int
  BY SMT
<1>2. /\ (x % n) \in Int /\ 0 <= (x % n) /\ (x % n) < n
      /\ (x \div n) \in Int /\ x = (x \div n) * n + (x % n)
  BY <1>1, DivMod
<1>3. x \div n = q
  BY <1>2, Unique, SMT
<1>4. x % n = r
  BY <1>2, <1>3, SMT
<1> QED BY <1>3, <1>4

-----------------------------------------------------------------------------
(* Constants as inequalities.                                              *)
LEMMA Constants ==
  /\ Q \in Int /\ Q > 0 /\ Q \in Nat /\ R \in Int /\ R \in Nat /\ R > 0
  /\ Half \in Int /\ R = 2 * Half /\ Half > 0
  /\ QInv \in Int /\ QInv >= 0 /\ QInv < Half /\ Q < Half
  /\ RedUnit \in Nat /\ RedUnit > 0
  /\ RedUnit \div 2 \in Int /\ RedUnit = 2 * (RedUnit \div 2)
<1>1. /\ Q \in Nat \ {0} /\ R \in Nat \ {0} /\ QInv \in Nat /\ RedUnit \in Nat \ {0}
      /\ R = 2 * Half /\ RedUnit = 2 * (RedUnit \div 2) /\ Q < Half /\ QInv < Half
  BY ReductionAssumption
<1>2. Half \in Int /\ RedUnit \div 2 \in Int
  BY <1>1, SMT DEF Half
<1> QED BY <1>1, <1>2, SMT

(* int32 keeps the residue modulo R ...                                    *)
LEMMA Int32Residue ==
  ASSUME NEW x \in Int
  PROVE  /\ int32(x) \in Int /\ -Half <= int32(x) /\ int32(x) < Half
         /\ \E m \in Int : int32(x) = x + m * R
<1> DEFINE q == (x + Half) \div R
           r == (x + Half) % R
<1>1. /\ r \in Int /\ 0 <= r /\ r < R /\ q \in Int /\ x + Half = q * R + r
  BY Constants, DivMod, SMT
<1>2. int32(x) = r - Half
  BY DEF int32
<1> HIDE DEF q, r
<1>3. int32(x) = x + (-q) * R
  <2>1. (-q) * R = -(q * R) /\ q * R \in Int
    BY <1>1, Constants, SMT
  <2> QED BY <1>1, <1>2, <2>1, Constants, SMT
<1>4. \E m \in Int : int32(x) = x + m * R
  <2>1. -q \in Int
    BY <1>1, SMT
  <2> WITNESS -q \in Int
  <2> QED BY <1>3
<1>5. int32(x) \in Int /\ -Half <= int32(x) /\ int32(x) < Half
  BY <1>1, <1>2, Constants, SMT
<1> QED BY <1>4, <1>5

(* ... and is the one int32 with that residue.                             *)
LEMMA Int32Unique ==
  ASSUME NEW x \in Int, NEW y \in Int, NEW m \in Int,
         x = y + m * R, -Half <= y, y < Half
  PROVE  int32(x) = y
<1>1. PICK n \in Int : int32(x) = x + n * R
  BY Int32Residue
<1>2. int32(x) \in Int /\ -Half <= int32(x) /\ int32(x) < Half
  BY Int32Residue
<1>3. m * R + n * R = (m + n) * R /\ m * R \in Int /\ n * R \in Int /\ 0 * R = 0
  BY Constants, SMT
<1>4. (m + n) * R + y = 0 * R + int32(x)
  BY <1>1, <1>2, <1>3, SMT
<1>5. m + n = 0
  BY <1>2, <1>4, Constants, Unique, SMT
<1> QED BY <1>2, <1>3, <1>4, <1>5, SMT

(* An int32 is left as it is.                                              *)
LEMMA Int32Same ==
  ASSUME NEW x \in Int, -Half <= x, x < Half
  PROVE  int32(x) = x
<1>1. 0 * R = 0 /\ x = x + 0 * R
  BY Constants, SMT
<1> QED BY <1>1, Int32Unique, SMT

(* Numbers with one residue have one int32.                                *)
LEMMA Int32Equal ==
  ASSUME NEW x \in Int, NEW y \in Int, NEW m \in Int, x = y + m * R
  PROVE  int32(x) = int32(y)
<1>1. PICK n \in Int : int32(y) = y + n * R
  BY Int32Residue
<1>2. int32(y) \in Int /\ -Half <= int32(y) /\ int32(y) < Half
  BY Int32Residue
<1>3. x = int32(y) + (m - n) * R /\ m - n \in Int
  <2>1. (m - n) * R = m * R - n * R /\ m * R \in Int /\ n * R \in Int
    BY Constants, SMT
  <2> QED BY <1>1, <1>2, <2>1, SMT
<1> QED BY <1>2, <1>3, Int32Unique

-----------------------------------------------------------------------------
(* montgomeryReduce (reduce.go:3-9): for |a| <= 2^31 * Q the result r has  *)
(* The reduction subtracts t * Q for an int32 t, and divides by R.         *)
LEMMA MontgomerySteps ==
  ASSUME NEW arg \in Int, -(Half * Q) <= arg, arg <= Half * Q
  PROVE  /\ montgomeryReduce(arg) \in Int
         /\ -Q <= montgomeryReduce(arg) /\ montgomeryReduce(arg) <= Q
         /\ \E t \in Int : montgomeryReduce(arg) * R = arg - t * Q /\ -Half <= t /\ t < Half
         /\ (-(Half * Q) < arg /\ arg < Half * Q) =>
              (-Q < montgomeryReduce(arg) /\ montgomeryReduce(arg) < Q)
<1> DEFINE t1 == int32(arg)
           t == int32(t1 * QInv)
<1>0. /\ Q \in Int /\ R \in Int /\ R \in Nat /\ R > 0 /\ QInv \in Int /\ Half \in Int
      /\ Q > 0 /\ R = 2 * Half /\ Q < Half /\ Half > 0
  BY Constants
<1>1. PICK c \in Int : Q * QInv = 1 + c * R
  BY ReductionAssumption, Constants, SMT
<1>2. t1 \in Int
  BY Int32Residue
<1>3. PICK m1 \in Int : t1 = arg + m1 * R
  BY Int32Residue
<1>4. t1 * QInv \in Int
  BY <1>0, <1>2, SMT
<1>5. t \in Int /\ -Half <= t /\ t < Half
  BY <1>4, Int32Residue
<1>6. PICK m2 \in Int : t = t1 * QInv + m2 * R
  BY <1>4, Int32Residue
<1>7. montgomeryReduce(arg) = int32((arg - t * Q) \div R)
  BY DEF montgomeryReduce
<1> HIDE DEF t1, t
<1>8. PICK d \in Int : arg - t * Q = d * R /\ t * Q \in Int
  <2> DEFINE e == -(m1 + t1 * c + m2 * Q)
  <2>1. t * Q = t1 * QInv * Q + m2 * R * Q
    BY <1>0, <1>2, <1>5, <1>6, SMT
  <2>2. t1 * QInv * Q = t1 * (Q * QInv)
    BY <1>0, <1>2, SMT
  <2>3. t1 * (1 + c * R) = t1 + t1 * c * R
    BY <1>0, <1>2, SMT
  <2>4. t * Q = arg + m1 * R + t1 * c * R + m2 * R * Q
    BY <1>0, <1>1, <1>2, <1>3, <2>1, <2>2, <2>3, SMT
  <2>5. e * R = -(m1 * R + t1 * c * R + m2 * Q * R) /\ m2 * R * Q = m2 * Q * R
    BY <1>0, <1>2, SMT
  <2>6. arg - t * Q = e * R
    BY <1>0, <1>2, <1>5, <2>4, <2>5, SMT
  <2>7. e \in Int /\ t * Q \in Int
    BY <1>0, <1>2, <1>5, SMT
  <2> HIDE DEF e
  <2> QED BY <2>6, <2>7
<1>9. (arg - t * Q) \div R = d
  <2>1. d * R = d * R + 0 /\ d * R \in Int
    BY <1>0, SMT
  <2>2. (d * R + 0) \div R = d
    BY <1>0, DivUnique, SMT
  <2> QED BY <1>8, <2>1, <2>2
<1>10. -(Half * Q) <= t * Q /\ t * Q <= Half * Q - Q /\ Half * Q \in Int
  <2>1. (-Half) * Q <= t * Q
    BY <1>0, <1>5, Monotone, SMT
  <2>2. t * Q <= (Half - 1) * Q
    BY <1>0, <1>5, Monotone, SMT
  <2>3. (-Half) * Q = -(Half * Q) /\ (Half - 1) * Q = Half * Q - Q /\ Half * Q \in Int
    BY <1>0, SMT
  <2> QED BY <2>1, <2>2, <2>3, SMT
<1>11. Q * R = 2 * (Half * Q) /\ (-Q) * R = -(2 * (Half * Q))
  BY <1>0, SMT
<1>12. -Q <= d /\ d <= Q
  <2>1. CASE d >= Q + 1
    <3>1. (Q + 1) * R <= d * R
      BY <1>0, <2>1, Monotone, SMT
    <3>2. (Q + 1) * R = Q * R + R
      BY <1>0, SMT
    <3> QED BY <1>0, <1>8, <1>10, <1>11, <3>1, <3>2, SMT
  <2>2. CASE d <= -Q - 1
    <3>1. d * R <= (-Q - 1) * R
      BY <1>0, <2>2, Monotone, SMT
    <3>2. (-Q - 1) * R = (-Q) * R - R
      BY <1>0, SMT
    <3> QED BY <1>0, <1>8, <1>10, <1>11, <3>1, <3>2, SMT
  <2> QED BY <1>0, <2>1, <2>2, SMT
<1>13. montgomeryReduce(arg) = d
  BY <1>0, <1>7, <1>9, <1>12, Int32Same, SMT
<1>14. (-(Half * Q) < arg /\ arg < Half * Q) => (-Q < d /\ d < Q)
  <2>1. (d = Q) => (d * R = Q * R)
    OBVIOUS
  <2>2. (d = -Q) => (d * R = (-Q) * R)
    OBVIOUS
  <2> QED BY <1>0, <1>8, <1>10, <1>11, <1>12, <2>1, <2>2, SMT
<1>15. montgomeryReduce(arg) * R = arg - t * Q
  BY <1>8, <1>13
<1> QED BY <1>5, <1>12, <1>13, <1>14, <1>15


(* r * 2^32 = a (mod Q) and |r| <= Q, no conversion loses a bit, and r is  *)
(* strictly below Q in size if a is not at an end of its range.  (The      *)
(* comment claims the strict bound at the ends also.)                      *)
THEOREM MontgomeryCorrect ==
  ASSUME NEW arg \in Int, -(Half * Q) <= arg, arg <= Half * Q
  PROVE  /\ montgomeryReduce(arg) \in Int
         /\ -Q <= montgomeryReduce(arg) /\ montgomeryReduce(arg) <= Q
         /\ \E t \in Int : montgomeryReduce(arg) * R = arg - t * Q
         /\ (-(Half * Q) < arg /\ arg < Half * Q) =>
              (-Q < montgomeryReduce(arg) /\ montgomeryReduce(arg) < Q)
BY MontgomerySteps

(* What is left is at most half of Q and arg / R.                          *)
LEMMA MontgomerySettles ==
  ASSUME NEW arg \in Int, -(Half * Q) <= arg, arg <= Half * Q,
         NEW b \in Int, -b <= arg, arg <= b
  PROVE  LET r == R * montgomeryReduce(arg)
         IN  -(Half * Q + b) <= r /\ r <= Half * Q + b
<1> DEFINE r == montgomeryReduce(arg)
<1>1. r \in Int
  BY MontgomerySteps
<1>2. PICK t \in Int : r * R = arg - t * Q /\ -Half <= t /\ t < Half
  BY MontgomerySteps
<1> HIDE DEF r
<1>3. Q \in Int /\ R \in Int /\ Half \in Int /\ Q > 0
  BY Constants
<1>4. (-Half) * Q <= t * Q /\ t * Q <= Half * Q
  BY <1>2, <1>3, Monotone, SMT
<1>5. (-Half) * Q = -(Half * Q) /\ Half * Q \in Int /\ t * Q \in Int /\ R * r = r * R
  BY <1>1, <1>2, <1>3, SMT
<1>6. -(Half * Q + b) <= R * r /\ R * r <= Half * Q + b
  BY <1>2, <1>4, <1>5, SMT
<1> QED BY <1>6 DEF r

-----------------------------------------------------------------------------
(* reduce32 (reduce.go:11-17): as long as its first addition does not      *)
(* wrap, the result r has r = a (mod Q), whatever the product t * Q wraps  *)
(* to, if only the integer result fits.                                    *)
LEMMA ReduceExact ==
  ASSUME NEW arg \in Int, -Half <= arg, arg + RedUnit \div 2 < Half,
         NEW t \in Int, t = (arg + RedUnit \div 2) \div RedUnit,
         -Half <= arg - t * Q, arg - t * Q < Half
  PROVE  reduce32(arg) = arg - t * Q
<1>0. /\ Q \in Int /\ R \in Int /\ Half \in Int /\ RedUnit \div 2 \in Int /\ RedUnit > 0
      /\ RedUnit = 2 * (RedUnit \div 2)
  BY Constants
<1>1. int32(arg + RedUnit \div 2) = arg + RedUnit \div 2
  BY <1>0, Int32Same, SMT
<1>2. reduce32(arg) = int32(arg - int32(t * Q))
  BY <1>1 DEF reduce32
<1>3. t * Q \in Int
  BY <1>0, SMT
<1>4. PICK m \in Int : int32(t * Q) = t * Q + m * R
  BY <1>3, Int32Residue
<1>5. (-m) * R = -(m * R) /\ m * R \in Int
  BY <1>0, SMT
<1>6. arg - int32(t * Q) = (arg - t * Q) + (-m) * R
  BY <1>3, <1>4, <1>5, SMT
<1>7. arg - int32(t * Q) \in Int /\ arg - t * Q \in Int /\ -m \in Int
  BY <1>3, <1>4, <1>5, SMT
<1>8. int32(arg - int32(t * Q)) = arg - t * Q
  BY <1>6, <1>7, Int32Unique
<1> QED BY <1>2, <1>8

(* How far RedUnit is from Q bounds the result.                            *)
Reach(e) == RedUnit \div 2 + (Half \div RedUnit + 1) * e

(* In general: the result is within the reach of the distance of RedUnit   *)
(* from Q, which is what the callers of InvNTT and ChkNorm rely on.        *)
THEOREM ReduceCorrect ==
  ASSUME NEW arg \in Int, -Half <= arg, arg + RedUnit \div 2 < Half,
         NEW e \in Nat, Q - RedUnit <= e, RedUnit - Q <= e, Reach(e) <= Q
  PROVE  /\ reduce32(arg) \in Int
         /\ -Reach(e) <= reduce32(arg) /\ reduce32(arg) <= Reach(e)
         /\ \E t \in Int : reduce32(arg) = arg - t * Q
<1> DEFINE h == RedUnit \div 2
           t == (arg + h) \div RedUnit
           r == (arg + h) % RedUnit
           u == Half \div RedUnit
           d == RedUnit - Q
<1>0. /\ Q \in Int /\ Q < Half /\ Half \in Int /\ Half > 0 /\ h \in Int
      /\ RedUnit \in Nat /\ RedUnit > 0 /\ RedUnit = 2 * h /\ RedUnit \in Int
  BY Constants
<1>1. /\ r \in Int /\ 0 <= r /\ r < RedUnit /\ t \in Int
      /\ arg + h = t * RedUnit + r
  BY <1>0, DivMod, SMT
<1>2. /\ u \in Int /\ Half < u * RedUnit + RedUnit
  <2>1. /\ Half % RedUnit < RedUnit /\ Half \div RedUnit \in Int
        /\ Half = (Half \div RedUnit) * RedUnit + (Half % RedUnit)
        /\ Half % RedUnit \in Int
    BY <1>0, DivMod
  <2>2. (Half \div RedUnit) * RedUnit \in Int
    BY <1>0, <2>1, SMT
  <2> QED BY <1>0, <2>1, <2>2, SMT
<1>3. Reach(e) = h + (u + 1) * e
  BY DEF Reach
<1> HIDE DEF t, r, u, h
<1>4. -(u + 1) <= t /\ t <= u + 1
  <2>1. (u + 1) * RedUnit = u * RedUnit + RedUnit /\ u * RedUnit \in Int /\ t * RedUnit \in Int
    BY <1>0, <1>1, <1>2, SMT
  <2>2. CASE t >= u + 2
    <3>1. (u + 2) * RedUnit <= t * RedUnit
      BY <1>0, <1>1, <1>2, <2>2, Monotone, SMT
    <3>2. (u + 2) * RedUnit = u * RedUnit + 2 * RedUnit
      BY <1>0, <1>2, SMT
    <3>3. arg + h < Half
      BY DEF h
    <3> QED BY <1>0, <1>1, <1>2, <2>1, <3>1, <3>2, <3>3, SMT
  <2>3. CASE t <= -(u + 2)
    <3>1. t * RedUnit <= (-(u + 2)) * RedUnit
      BY <1>0, <1>1, <1>2, <2>3, Monotone, SMT
    <3>2. (-(u + 2)) * RedUnit = -(u * RedUnit) - 2 * RedUnit
      BY <1>0, <1>2, SMT
    <3> QED BY <1>0, <1>1, <1>2, <2>1, <3>1, <3>2, SMT
  <2> QED BY <1>1, <1>2, <2>2, <2>3, SMT
<1>5. arg - t * Q = t * d + (r - h) /\ t * d \in Int /\ d \in Int /\ arg - t * Q \in Int
  <2>1. d \in Int /\ t * d = t * RedUnit - t * Q /\ t * RedUnit \in Int /\ t * Q \in Int
    BY <1>0, <1>1, SMT
  <2> QED BY <1>0, <1>1, <2>1, SMT
<1>6. -((u + 1) * e) <= t * d /\ t * d <= (u + 1) * e /\ (u + 1) * e \in Int
  <2>0. (u + 1) * e \in Int /\ u + 1 \in Int /\ -(u + 1) \in Int /\ u + 1 >= 0
    BY <1>1, <1>2, <1>4, SMT
  <2>1. (-(u + 1)) * e = -((u + 1) * e)
    BY <1>2, SMT
  <2>2. CASE d >= 0
    <3>1. d * (u + 1) <= e * (u + 1)
      BY <1>5, <2>0, <2>2, Monotone, SMT
    <3>2. t * d <= (u + 1) * d /\ (-(u + 1)) * d <= t * d
      BY <1>1, <1>4, <1>5, <2>0, <2>2, Monotone, SMT
    <3>3. (-(u + 1)) * d = -(d * (u + 1)) /\ (u + 1) * d = d * (u + 1)
          /\ e * (u + 1) = (u + 1) * e
      BY <1>2, <1>5, SMT
    <3> QED BY <1>2, <1>5, <2>0, <3>1, <3>2, <3>3, SMT
  <2>3. CASE d < 0
    <3>0. -d \in Int /\ -d >= 0 /\ -d <= e
      BY <1>0, <1>5, <2>3, SMT
    <3>1. (-d) * (u + 1) <= e * (u + 1)
      BY <2>0, <3>0, Monotone, SMT
    <3>2. t * (-d) <= (u + 1) * (-d) /\ (-(u + 1)) * (-d) <= t * (-d)
      BY <1>1, <1>4, <2>0, <3>0, Monotone, SMT
    <3>3. (-(u + 1)) * (-d) = -((-d) * (u + 1)) /\ (u + 1) * (-d) = (-d) * (u + 1)
          /\ e * (u + 1) = (u + 1) * e /\ t * (-d) = -(t * d)
      BY <1>1, <1>2, <1>5, SMT
    <3> QED BY <1>2, <1>5, <2>0, <3>0, <3>1, <3>2, <3>3, SMT
  <2> QED BY <1>5, <2>0, <2>2, <2>3, SMT
<1>7. -Reach(e) <= arg - t * Q /\ arg - t * Q <= Reach(e) /\ Reach(e) \in Int
  BY <1>0, <1>1, <1>3, <1>5, <1>6, SMT
<1>8. reduce32(arg) = arg - t * Q
  <2>1. t = (arg + RedUnit \div 2) \div RedUnit /\ arg + RedUnit \div 2 < Half
    BY DEF t, h
  <2>2. -Half <= arg - t * Q /\ arg - t * Q < Half
    BY <1>0, <1>5, <1>7, SMT
  <2> QED BY <1>1, <2>1, <2>2, ReduceExact, Zenon
<1>9. reduce32(arg) = arg - t * Q /\ t \in Int
  BY <1>1, <1>8
<1> QED BY <1>5, <1>7, <1>9

(* With the literals of the code the result is in -6283009 .. 6283008 for  *)
(* every int32 up to the 2^31 - 2^22 - 1 of the comment (reduce.go:13),    *)
(* and the lower end is reached: one below the comment's -6283008.         *)
THEOREM ReduceLiterals ==
  ASSUME Q = 8380417, Half = 2147483648, RedUnit = 8388608
  PROVE  /\ \A arg \in Int : (-2147483648 <= arg /\ arg <= 2143289343) =>
              /\ -6283009 <= reduce32(arg) /\ reduce32(arg) <= 6283008
              /\ \E t \in Int : reduce32(arg) = arg - t * Q
         /\ reduce32(-2143289344) = -6283009
<1>1. RedUnit \div 2 = 4194304
  BY SMT
<1>2. ASSUME NEW arg \in Int, NEW t \in Int, -2147483648 <= arg, arg <= 2143289343,
             8388608 * t <= arg + 4194304, arg + 4194304 < 8388608 * t + 8388608
      PROVE  -6283009 <= arg - t * 8380417 /\ arg - t * 8380417 <= 6283008
  <2>1. t >= -256 /\ t <= 255
    BY <1>2, SMT
  <2>2. arg - t * 8380417 <= 6283008
    BY <1>2, <2>1, SMT
  <2>3. arg - t * 8380417 >= -6283009
    BY <1>2, <2>1, SMT
  <2> QED BY <2>2, <2>3, SMT
<1>3. ASSUME NEW arg \in Int, -2147483648 <= arg, arg <= 2143289343
      PROVE  /\ -6283009 <= reduce32(arg) /\ reduce32(arg) <= 6283008
             /\ \E t \in Int : reduce32(arg) = arg - t * Q
             /\ reduce32(arg) = arg - ((arg + 4194304) \div 8388608) * 8380417
  <2> DEFINE t == (arg + 4194304) \div 8388608
  <2>1. t \in Int /\ 8388608 * t <= arg + 4194304 /\ arg + 4194304 < 8388608 * t + 8388608
    BY SMT
  <2>2. t = (arg + RedUnit \div 2) \div RedUnit
    BY <1>1
  <2> HIDE DEF t
  <2>3. -6283009 <= arg - t * 8380417 /\ arg - t * 8380417 <= 6283008
    BY <1>2, <1>3, <2>1
  <2>4. /\ -Half <= arg /\ arg + RedUnit \div 2 < Half
        /\ -Half <= arg - t * Q /\ arg - t * Q < Half
    BY <1>1, <1>3, <2>1, <2>3, SMT
  <2>5. reduce32(arg) = arg - t * Q
    BY <2>1, <2>2, <2>4, ReduceExact
  <2>6. reduce32(arg) = arg - t * 8380417
    BY <2>5
  <2>7. \E s \in Int : reduce32(arg) = arg - s * Q
    BY <2>1, <2>5
  <2> QED BY <2>3, <2>6, <2>7 DEF t
<1>4. reduce32(-2143289344) = -6283009
  <2>1. (-2143289344 + 4194304) \div 8388608 = -255
    BY SMT
  <2>2. -2143289344 - (-255) * 8380417 = -6283009
    BY SMT
  <2>3. -2143289344 \in Int /\ -2147483648 <= -2143289344 /\ -2143289344 <= 2143289343
    BY SMT
  <2> QED BY <1>3, <2>1, <2>2, <2>3
<1> QED BY <1>3, <1>4

-----------------------------------------------------------------------------
(* The vector code.                                                        *)

(* A broadcast int32 is what VPMULDQ reads of every lane.                  *)
LEMMA LowOfPair ==
  ASSUME NEW h \in Int, NEW c \in Int, -Half <= c, c < Half
  PROVE  int32(h * R + (c % R)) = c
<1>0. R \in Int /\ R \in Nat /\ R > 0
  BY Constants
<1>1. (c % R) \in Int /\ (c \div R) \in Int /\ c = (c \div R) * R + (c % R)
  BY <1>0, DivMod
<1>2. h * R + (c % R) = c + (h - c \div R) * R
  <2>1. (h - c \div R) * R = h * R - (c \div R) * R /\ h * R \in Int /\ (c \div R) * R \in Int
    BY <1>0, <1>1, SMT
  <2> QED BY <1>1, <2>1, SMT
<1>3. h - c \div R \in Int /\ h * R + (c % R) \in Int
  BY <1>0, <1>1, SMT
<1> QED BY <1>2, <1>3, Int32Unique

(* The 64-bit shift leaves the high half, up to multiples of R.            *)
LEMMA HighOfWord ==
  ASSUME NEW x \in Int
  PROVE  LET s == (x % (R * R)) \div R
         IN  /\ s \in Int /\ 0 <= s /\ s < R
             /\ \E m \in Int : s = x \div R + m * R
<1> DEFINE p == x \div (R * R)
           s == x % (R * R)
           s1 == s \div R
           s0 == s % R
<1>0. R \in Int /\ R \in Nat /\ R > 0
  BY Constants
<1>1. R * R \in Nat /\ R * R > 0 /\ R * R \in Int
  <2>1. 1 * R <= R * R
    BY <1>0, Monotone, SMT
  <2> QED BY <1>0, <2>1, SMT
<1>2. p \in Int /\ s \in Int /\ 0 <= s /\ s < R * R /\ x = p * (R * R) + s
  BY <1>1, DivMod
<1> HIDE DEF p, s
<1>3. s1 \in Int /\ s0 \in Int /\ 0 <= s0 /\ s0 < R /\ s = s1 * R + s0
  BY <1>0, <1>2, DivMod
<1> HIDE DEF s1, s0
<1>4. x = (p * R + s1) * R + s0 /\ p * R + s1 \in Int
  <2>1. (p * R + s1) * R = p * (R * R) + s1 * R /\ p * R + s1 \in Int
        /\ p * (R * R) \in Int /\ s1 * R \in Int
    BY <1>0, <1>2, <1>3, SMT
  <2> QED BY <1>2, <1>3, <2>1, SMT
<1>5. x \div R = p * R + s1
  BY <1>0, <1>3, <1>4, DivUnique
<1>6. 0 <= s1
  <2>1. CASE s1 <= -1
    <3>1. s1 * R <= (-1) * R
      BY <1>0, <1>3, <2>1, Monotone, SMT
    <3> QED BY <1>0, <1>2, <1>3, <3>1, SMT
  <2> QED BY <1>3, <2>1, SMT
<1>7. s1 < R
  <2>1. CASE R <= s1
    <3>1. R * R <= s1 * R
      BY <1>0, <1>3, <2>1, Monotone, SMT
    <3> QED BY <1>0, <1>1, <1>2, <1>3, <3>1, SMT
  <2> QED BY <1>0, <1>3, <2>1, SMT
<1>8. s1 = x \div R + (-p) * R /\ -p \in Int
  <2>1. (-p) * R = -(p * R) /\ p * R \in Int
    BY <1>0, <1>2, SMT
  <2> QED BY <1>2, <1>3, <1>5, <2>1, SMT
<1>9. \E m \in Int : s1 = x \div R + m * R
  BY <1>8
<1> QED BY <1>3, <1>6, <1>7, <1>9 DEF s1, s

(* One 64-bit lane: what is left to divide by R.                           *)
LEMMA UnreducedLane ==
  ASSUME NEW u, NEW v, NEW m \in Qwords,
         NEW x \in Int, x = int32(u[m]) * int32(v[m])
  PROVE  Unreduced(u, v)[m] = x - int32(int32(x) * QInv) * Q
<1>0. Q \in Int /\ QInv \in Int /\ -Half <= Q /\ Q < Half /\ -Half <= QInv /\ QInv < Half
  BY Constants, SMT
<1>1. int32(Broadcast(QInv)[m]) = QInv /\ int32(Broadcast(Q)[m]) = Q
  BY <1>0, LowOfPair DEF Broadcast
<1>2. VPMULDQ(u, v)[m] = x
  BY DEF VPMULDQ
<1>3. VPMULDQ(VPMULDQ(u, v), Broadcast(QInv))[m] = int32(x) * QInv
  BY <1>1, <1>2 DEF VPMULDQ
<1>4. VPMULDQ(VPMULDQ(VPMULDQ(u, v), Broadcast(QInv)), Broadcast(Q))[m]
        = int32(int32(x) * QInv) * Q
  BY <1>1, <1>3 DEF VPMULDQ
<1> QED BY <1>2, <1>4 DEF Unreduced, VPSUBQ

(* montgomeryMulAVX2 is montgomeryReduce of the product, in every lane:    *)
(* neither the odd nor the even lanes leak into their neighbours.          *)
THEOREM VectorIsScalar ==
  ASSUME NEW z \in Int, -Half <= z, z < Half,
         NEW y \in [0 .. Lanes - 1 -> Int32], NEW i \in 0 .. Lanes - 1
  PROVE  Lane(montgomeryMulAVX2(Broadcast(z), Register(y)), i)
           = montgomeryReduce(z * y[i])
<1> DEFINE m == i \div 2
           y0 == y[2 * m]
           y1 == y[2 * m + 1]
           even == Unreduced(Broadcast(z), Register(y))[m]
           odd == Unreduced(VPSRLQ(Broadcast(z)), VPSRLQ(Register(y)))[m]
           t == montgomeryMulAVX2(Broadcast(z), Register(y))[m]
<1>0. /\ R \in Int /\ R \in Nat /\ R > 0 /\ Half \in Int /\ Q \in Int /\ QInv \in Int
      /\ Lanes \in Nat /\ Lanes = 2 * (Lanes \div 2)
  BY Constants, VectorAssumption, SMT
<1>1. /\ m \in Qwords /\ m \in Int /\ i \in Int /\ 2 * m \in 0 .. Lanes - 1
      /\ 2 * m + 1 \in 0 .. Lanes - 1
      /\ i % 2 = 0 => i = 2 * m
      /\ i % 2 # 0 => i = 2 * m + 1
  BY <1>0, SMT DEF Qwords
<1>2. /\ y0 \in Int /\ -Half <= y0 /\ y0 < Half
      /\ y1 \in Int /\ -Half <= y1 /\ y1 < Half
  <2>1. \A c \in Int32 : c \in Int /\ -Half <= c /\ c < Half
    BY <1>0, SMT DEF Int32
  <2>2. y0 \in Int32 /\ y1 \in Int32
    BY <1>1
  <2> QED BY <2>1, <2>2
<1> HIDE DEF m, y0, y1
<1>3. Register(y)[m] = y1 * R + (y0 % R) /\ Broadcast(z)[m] = z * R + (z % R)
  BY <1>1 DEF Register, Broadcast, y0, y1
<1>4. even = z * y0 - int32(int32(z * y0) * QInv) * Q
  <2>1. int32(Broadcast(z)[m]) = z /\ int32(Register(y)[m]) = y0
    BY <1>2, <1>3, LowOfPair
  <2>2. z * y0 \in Int
    BY <1>2, SMT
  <2> QED BY <1>1, <2>1, <2>2, UnreducedLane
<1>5. \A c \in Int, h \in Int :
        (-Half <= h /\ h < Half) =>
          int32(((h * R + (c % R)) % (R * R)) \div R) = h
  <2> SUFFICES ASSUME NEW c \in Int, NEW h \in Int, -Half <= h, h < Half
               PROVE  int32(((h * R + (c % R)) % (R * R)) \div R) = h
    OBVIOUS
  <2> DEFINE x == h * R + (c % R)
             s == (x % (R * R)) \div R
  <2>1. (c % R) \in Int /\ 0 <= (c % R) /\ (c % R) < R
    BY <1>0, DivMod
  <2>2. x \in Int
    BY <1>0, <2>1, SMT
  <2>3. x \div R = h
    BY <1>0, <2>1, DivUnique
  <2> HIDE DEF x
  <2>4. s \in Int
    BY <2>2, HighOfWord
  <2>5. PICK k1 \in Int : s = x \div R + k1 * R
    BY <2>2, HighOfWord
  <2> HIDE DEF s
  <2>6. s = h + k1 * R
    BY <2>3, <2>5
  <2>7. int32(s) = h
    BY <2>4, <2>6, Int32Unique
  <2> QED BY <2>7 DEF s, x
<1>6. odd = z * y1 - int32(int32(z * y1) * QInv) * Q
  <2>1. /\ VPSRLQ(Broadcast(z))[m] = ((z * R + (z % R)) % (R * R)) \div R
        /\ VPSRLQ(Register(y))[m] = ((y1 * R + (y0 % R)) % (R * R)) \div R
    BY <1>1, <1>3 DEF VPSRLQ
  <2>2. int32(VPSRLQ(Broadcast(z))[m]) = z /\ int32(VPSRLQ(Register(y))[m]) = y1
    BY <1>2, <1>5, <2>1
  <2>3. z * y1 \in Int
    BY <1>2, SMT
  <2> QED BY <1>1, <2>2, <2>3, UnreducedLane
<1>7. /\ montgomeryReduce(z * y0) = int32(even \div R)
      /\ montgomeryReduce(z * y1) = int32(odd \div R)
  BY <1>4, <1>6 DEF montgomeryReduce
<1>8. even \in Int /\ odd \in Int
  <2>1. z * y0 \in Int /\ z * y1 \in Int
    BY <1>2, SMT
  <2>a. int32(z * y0) \in Int /\ int32(z * y1) \in Int
    BY <2>1, Int32Residue
  <2>2. int32(z * y0) * QInv \in Int /\ int32(z * y1) * QInv \in Int
    BY <1>0, <2>a, SMT
  <2>3. int32(int32(z * y0) * QInv) \in Int /\ int32(int32(z * y1) * QInv) \in Int
    BY <2>2, Int32Residue
  <2> QED BY <1>0, <1>4, <1>6, <2>1, <2>3, SMT
<1>9. t = (odd - (odd % R)) + ((even % (R * R)) \div R)
  BY <1>1 DEF montgomeryMulAVX2, VPOR, HighHalf, VPSRLQ
<1> HIDE DEF even, odd, t
<1> DEFINE s == (even % (R * R)) \div R
           q == odd \div R
<1>10. s \in Int /\ 0 <= s /\ s < R
  BY <1>8, HighOfWord
<1>11. PICK k2 \in Int : s = even \div R + k2 * R
  BY <1>8, HighOfWord
<1>12. t = q * R + s /\ q \in Int /\ even \div R \in Int
  <2>1. q \in Int /\ (odd % R) \in Int /\ odd = q * R + (odd % R) /\ even \div R \in Int
    BY <1>0, <1>8, DivMod
  <2>2. q * R \in Int
    BY <1>0, <2>1, SMT
  <2> HIDE DEF q, s
  <2>3. t = (odd - (odd % R)) + s
    BY <1>9 DEF s
  <2> QED BY <1>10, <2>1, <2>2, <2>3, SMT
<1> HIDE DEF s, q
<1>13. t \div R = q
  BY <1>0, <1>10, <1>12, DivUnique
<1>14. int32(t) = int32(even \div R)
  <2>1. t = even \div R + (q + k2) * R /\ q + k2 \in Int /\ t \in Int
    <3>1. (q + k2) * R = q * R + k2 * R /\ q * R \in Int /\ k2 * R \in Int
      BY <1>0, <1>12, SMT
    <3> QED BY <1>10, <1>11, <1>12, <3>1, SMT
  <2> QED BY <1>12, <2>1, Int32Equal
<1>15. CASE i % 2 = 0
  <2>1. Lane(montgomeryMulAVX2(Broadcast(z), Register(y)), i) = int32(t)
    BY <1>15 DEF Lane, t, m
  <2>2. y[i] = y0
    BY <1>1, <1>15 DEF y0
  <2> QED BY <1>7, <1>14, <2>1, <2>2
<1>16. CASE i % 2 # 0
  <2>1. Lane(montgomeryMulAVX2(Broadcast(z), Register(y)), i) = int32(t \div R)
    BY <1>16 DEF Lane, t, m
  <2>2. y[i] = y1
    BY <1>1, <1>16 DEF y1
  <2> QED BY <1>7, <1>13, <2>1, <2>2 DEF q
<1> QED BY <1>15, <1>16

-----------------------------------------------------------------------------
(* The loops.                                                              *)

(* The constants as inequalities.                                          *)
LEMMA Sizes ==
  /\ N \in Nat /\ N \in Int /\ N >= 2 /\ Q \in Int /\ Q > 0 /\ Half \in Int
  /\ N * Q \in Int /\ N * Q < Half /\ Q < Half
  /\ Grown(Depth[0]) \in Int /\ Grown(Depth[0]) < Half /\ F \in Int
  /\ 0 <= F /\ F <= Q /\ Depth[0] \in Nat
<1>1. N \in Nat /\ N >= 2 /\ F \in Int /\ 0 <= F /\ F <= Q /\ Depth[0] \in Nat
  BY NttAssumption, Constants, SMT
<1>2. N * Q < Half /\ Grown(Depth[0]) < Half
  BY WidthAssumption
<1>3. N * Q \in Int /\ Grown(Depth[0]) \in Int
  BY <1>1, Constants, SMT DEF Grown
<1> QED BY <1>1, <1>2, <1>3, Constants, SMT

(* A length, the bounds before and after its layer, forward and back.      *)
LEMMA LengthFacts ==
  ASSUME NEW l \in Lengths
  PROVE  /\ l \in Int /\ l >= 1 /\ 2 * l <= N
         /\ Grown(Depth[l]) \in Int /\ Grown(Depth[l]) >= 0
         /\ Grown(Depth[l] + 1) = Grown(Depth[l]) + Q
         /\ Grown(Depth[l] + 1) <= Grown(Depth[0])
         /\ Grown(Depth[l \div 2]) = Grown(Depth[l] + 1)
         /\ l * Q \in Int /\ 2 * l * Q = l * Q + l * Q /\ 2 * l * Q <= N * Q
         /\ Q <= 2 * l * Q /\ 0 <= l * Q
<1>1. l \in Int /\ l >= 1 /\ 2 * l <= N /\ 2 * l \in Int
  BY NttAssumption, SMT
<1>2. Depth[l] \in Nat /\ Depth[l] < Depth[0] /\ Depth[l \div 2] = Depth[l] + 1
  BY NttAssumption
<1>3. /\ Grown(Depth[l]) \in Int /\ Grown(Depth[l]) >= 0
      /\ Grown(Depth[l] + 1) = Grown(Depth[l]) + Q
  <2> DEFINE d == Depth[l] + 1
  <2>1. d \in Int /\ d >= 0 /\ Depth[l] + 1 + 1 = d + 1
    BY <1>2, SMT
  <2> HIDE DEF d
  <2>2. d * Q \in Int /\ 0 * Q <= d * Q /\ 0 * Q = 0 /\ (d + 1) * Q = d * Q + Q
    BY <2>1, Sizes, Monotone, SMT
  <2>3. Grown(Depth[l]) = d * Q /\ Grown(Depth[l] + 1) = (d + 1) * Q
    BY <2>1 DEF Grown, d
  <2> QED BY <2>2, <2>3, SMT
<1>4. Grown(Depth[l] + 1) <= Grown(Depth[0])
  BY <1>2, Sizes, Monotone, SMT DEF Grown
<1>5. /\ l * Q \in Int /\ 2 * l * Q = l * Q + l * Q /\ 2 * l * Q <= N * Q
      /\ Q <= 2 * l * Q /\ 0 <= l * Q
  <2>1. (2 * l) * Q <= N * Q /\ 1 * Q <= l * Q
    BY <1>1, Sizes, Monotone, SMT
  <2>2. l * Q \in Int /\ 2 * l * Q = (2 * l) * Q /\ (2 * l) * Q = l * Q + l * Q /\ 1 * Q = Q
    BY <1>1, Sizes, SMT
  <2> QED BY <2>1, <2>2, Sizes, SMT
<1> QED BY <1>1, <1>2, <1>3, <1>4, <1>5

(* A block that begins below N ends at N or below.                         *)
LEMMA BlockFits ==
  ASSUME NEW l \in Lengths, NEW b \in Int, NEW s \in Int, s = b * (2 * l), s < N
  PROVE  s + 2 * l <= N
<1> DEFINE c == N \div (2 * l)
<1>1. l \in Int /\ l >= 1 /\ N \in Int /\ 2 * l \in Int /\ c \in Int /\ N = c * (2 * l)
  BY LengthFacts, Sizes, NttAssumption, SMT
<1> HIDE DEF c
<1>2. b < c
  <2>1. CASE c <= b
    <3>1. c * (2 * l) <= b * (2 * l)
      BY <1>1, <2>1, Monotone, SMT
    <3> QED BY <1>1, <3>1, SMT
  <2> QED BY <1>1, <2>1, SMT
<1>3. (b + 1) * (2 * l) <= c * (2 * l)
  BY <1>1, <1>2, Monotone, SMT
<1>4. (b + 1) * (2 * l) = b * (2 * l) + 2 * l /\ b * (2 * l) \in Int
  BY <1>1, SMT
<1> QED BY <1>1, <1>3, <1>4, SMT

(* The inductive invariant.                                                *)
Shape ==
  /\ job \in Inputs /\ JobOK(job) /\ hasAVX2 \in BOOLEAN
  /\ pc \in {"load", "vector", "scalar", "pointwise", "reduce", "inverse",
            "scale", "done"}
  /\ col \in 1 .. Len(job.cols)
  /\ a \in [Index -> Int32] /\ w \in [Index -> Int32]

LoopShape ==
  /\ Looping => /\ len \in Lengths /\ start \in Int /\ 0 <= start
                /\ j \in Int /\ start <= j /\ j < start + len
                /\ start + 2 * len <= N /\ k \in Int
  /\ (pc = "vector") =>
       /\ len >= Lanes
       /\ \E q \in Int : j = start + q * Lanes
  /\ (pc = "scale") => (j \in Index /\ j \in Int)

(* The sum over the columns so far.                                        *)
Accumulated ==
  /\ (pc \in {"load", "vector", "scalar", "pointwise"} /\ col > 1) =>
       \A i \in Index : Within(w[i], (col - 1) * Q)
  /\ (pc = "reduce") => \A i \in Index : Within(w[i], Len(job.cols) * Q)

IInv == Shape /\ LoopShape /\ ZetaOfBlock /\ Growth /\ Accumulated

-----------------------------------------------------------------------------
(* One step of the loops that does the butterflies p .. p + n - 1 of the   *)
(* block that starts at s, in a layer of length l.                         *)

DoneAt(i, s, p, l) == i < p \/ (s + l <= i /\ i < p + l)

NowAt(i, p, l, n) == (p <= i /\ i < p + n) \/ (p + l <= i /\ i < p + l + n)

Bounded(v, hi) == \A i \in Index : Within(v[i], hi)

(* hi holds where the layer is done, lo elsewhere.                         *)
Halfway(v, lo, hi, s, p, l) ==
  \A i \in Index : Within(v[i], IF DoneAt(i, s, p, l) THEN hi ELSE lo)

(* The step takes v to u: hi holds where it worked, the rest is kept.      *)
Moved(v, u, hi, p, l, n) ==
  \A i \in Index : IF NowAt(i, p, l, n) THEN Within(u[i], hi) ELSE u[i] = v[i]

(* Within a layer the bounds move along with the counters ...              *)
LEMMA BoundsMove ==
  ASSUME NEW s \in Int, NEW p \in Int, NEW l \in Int, NEW n \in Int,
         l >= 1, n >= 1, s <= p, p + n <= s + l,
         NEW s2 \in Int, NEW p2 \in Int,
         \/ s2 = s /\ p2 = p + n /\ p + n < s + l
         \/ s2 = s + 2 * l /\ p2 = s + 2 * l /\ p + n = s + l,
         NEW lo, NEW hi, NEW v, NEW u,
         Halfway(v, lo, hi, s, p, l), Moved(v, u, hi, p, l, n)
  PROVE  Halfway(u, lo, hi, s2, p2, l)
<1> SUFFICES ASSUME NEW i \in Index
             PROVE  Within(u[i], IF DoneAt(i, s2, p2, l) THEN hi ELSE lo)
  BY DEF Halfway
<1>1. i \in Int
  BY Sizes, SMT DEF Index
<1>2. DoneAt(i, s2, p2, l) <=> (DoneAt(i, s, p, l) \/ NowAt(i, p, l, n))
  BY <1>1, SMT DEF DoneAt, NowAt
<1>3. ~(DoneAt(i, s, p, l) /\ NowAt(i, p, l, n))
  BY <1>1, SMT DEF DoneAt, NowAt
<1>4. Within(v[i], IF DoneAt(i, s, p, l) THEN hi ELSE lo)
  BY DEF Halfway
<1>5. IF NowAt(i, p, l, n) THEN Within(u[i], hi) ELSE u[i] = v[i]
  BY DEF Moved
<1>6. CASE NowAt(i, p, l, n)
  BY <1>2, <1>5, <1>6
<1>7. CASE ~NowAt(i, p, l, n)
  <2>1. u[i] = v[i]
    BY <1>5, <1>7
  <2>2. DoneAt(i, s2, p2, l) <=> DoneAt(i, s, p, l)
    BY <1>2, <1>7
  <2>3. CASE DoneAt(i, s, p, l)
    BY <1>4, <2>1, <2>2, <2>3
  <2>4. CASE ~DoneAt(i, s, p, l)
    BY <1>4, <2>1, <2>2, <2>4
  <2> QED BY <2>3, <2>4
<1> QED BY <1>6, <1>7

(* ... and its last step leaves the new bound everywhere.                  *)
LEMMA BoundsComplete ==
  ASSUME NEW s \in Int, NEW p \in Int, NEW l \in Int, NEW n \in Int,
         l >= 1, s <= p, p + n = s + l, s + 2 * l = N,
         NEW lo, NEW hi, NEW v, NEW u,
         Halfway(v, lo, hi, s, p, l), Moved(v, u, hi, p, l, n)
  PROVE  Bounded(u, hi)
<1> SUFFICES ASSUME NEW i \in Index PROVE Within(u[i], hi)
  BY DEF Bounded
<1>1. i \in Int /\ i < N
  BY Sizes, SMT DEF Index
<1>2. DoneAt(i, s, p, l) \/ NowAt(i, p, l, n)
  BY <1>1, SMT DEF DoneAt, NowAt
<1>3. ~(DoneAt(i, s, p, l) /\ NowAt(i, p, l, n))
  BY <1>1, SMT DEF DoneAt, NowAt
<1>4. Within(v[i], IF DoneAt(i, s, p, l) THEN hi ELSE lo)
  BY DEF Halfway
<1>5. IF NowAt(i, p, l, n) THEN Within(u[i], hi) ELSE u[i] = v[i]
  BY DEF Moved
<1>6. CASE NowAt(i, p, l, n)
  BY <1>5, <1>6
<1>7. CASE ~NowAt(i, p, l, n)
  BY <1>2, <1>4, <1>5, <1>7
<1> QED BY <1>6, <1>7

(* A new layer starts with nothing done.                                   *)
LEMMA BoundsStart ==
  ASSUME NEW l \in Int, NEW lo, NEW hi, NEW u, Bounded(u, lo)
  PROVE  Halfway(u, lo, hi, 0, 0, l)
<1> SUFFICES ASSUME NEW i \in Index
             PROVE  Within(u[i], IF DoneAt(i, 0, 0, l) THEN hi ELSE lo)
  BY DEF Halfway
<1>1. ~DoneAt(i, 0, 0, l)
  BY Sizes, SMT DEF DoneAt, Index
<1> QED BY <1>1 DEF Bounded

(* Bounds below Half keep the type.                                        *)
LEMMA Width ==
  /\ \A x \in Int32 : x \in Int /\ -Half <= x /\ x < Half
  /\ \A x \in Int : (-Half <= x /\ x < Half) => x \in Int32
  /\ \A x, hi \in Int : (hi < Half /\ Within(x, hi)) => x \in Int32
BY Constants, SMT DEF Int32, Within

(* The counters of the loops, in the form the three transforms share.      *)
LEMMA Counters ==
  ASSUME LoopShape, Looping
  PROVE  /\ len \in Lengths /\ len \in Int /\ len >= 1 /\ start \in Int /\ 0 <= start
         /\ j \in Int /\ start <= j /\ j < start + len /\ start + 2 * len <= N
         /\ k \in Int /\ j \in Index /\ j + len \in Index /\ j # j + len
<1>1. /\ len \in Lengths /\ start \in Int /\ 0 <= start /\ j \in Int /\ start <= j
      /\ j < start + len /\ start + 2 * len <= N /\ k \in Int
  BY DEF LoopShape
<1>2. len \in Int /\ len >= 1
  BY <1>1, LengthFacts
<1>3. j \in Index /\ j + len \in Index /\ j # j + len
  BY <1>1, <1>2, Sizes, SMT DEF Index
<1> QED BY <1>1, <1>2, <1>3

(* The zeta in use is one of the table.                                    *)
LEMMA ZetaInTable ==
  ASSUME LoopShape, ZetaOfBlock, Looping
  PROVE  k \in 1 .. N - 1 /\ zetas[k] \in Int /\ -Q <= zetas[k] /\ zetas[k] <= Q
<1>1. /\ len \in Int /\ len >= 1 /\ start \in Int /\ 0 <= start /\ k \in Int
      /\ start + 2 * len <= N /\ N \in Int /\ N >= 2
  BY Counters, Sizes
<1>2. k \in Int /\ 1 <= k /\ k <= N - 1
  <2>1. k * (2 * len) \in Int /\ (k + 1) * (2 * len) = k * (2 * len) + 2 * len
        /\ 2 * len \in Int
    BY <1>1, SMT
  <2>2. N <= k * (2 * len) /\ k * (2 * len) < 2 * N
    BY <1>1, <2>1, SMT DEF ZetaOfBlock, Looping
  <2>3. CASE k <= 0
    <3>1. k * (2 * len) <= 0 * (2 * len) /\ 0 * (2 * len) = 0
      BY <1>1, <2>1, <2>3, Monotone, SMT
    <3> QED BY <1>1, <2>1, <2>2, <3>1, SMT
  <2>4. CASE N <= k
    <3>1. N * (2 * len) <= k * (2 * len)
      BY <1>1, <2>1, <2>4, Monotone, SMT
    <3>2. 2 * N <= (2 * len) * N /\ (2 * len) * N = N * (2 * len)
      BY <1>1, <2>1, Monotone, SMT
    <3> QED BY <1>1, <2>1, <2>2, <3>1, <3>2, SMT
  <2> QED BY <1>1, <2>3, <2>4, SMT
<1>3. k \in 1 .. N - 1 /\ k \in 0 .. N - 1
  BY <1>1, <1>2, SMT
<1>4. zetas[k] \in -(Q \div 2) .. Q \div 2
  BY <1>3, NttAssumption
<1>5. zetas[k] \in Int /\ -Q <= zetas[k] /\ zetas[k] <= Q
  BY <1>4, Constants, SMT
<1> QED BY <1>3, <1>5

(* A product with a zeta, or with F, is in the range of montgomeryReduce.  *)
LEMMA ProductRange ==
  ASSUME NEW z \in Int, -Q <= z, z <= Q, NEW x \in Int, -Half <= x, x <= Half
  PROVE  -(Half * Q) <= z * x /\ z * x <= Half * Q /\ z * x \in Int
<1>0. Q \in Int /\ Q > 0 /\ Half \in Int /\ Half > 0
  BY Constants
<1>1. CASE x >= 0
  <2>1. z * x <= Q * x /\ (-Q) * x <= z * x
    BY <1>0, <1>1, Monotone, SMT
  <2>2. x * Q <= Half * Q
    BY <1>0, Monotone, SMT
  <2>3. Q * x = x * Q /\ (-Q) * x = -(x * Q) /\ x * Q \in Int /\ Half * Q \in Int /\ z * x \in Int
    BY <1>0, SMT
  <2> QED BY <2>1, <2>2, <2>3, SMT
<1>2. CASE x < 0
  <2>0. -x \in Int /\ -x >= 0 /\ -x <= Half
    BY <1>0, <1>2, SMT
  <2>1. z * (-x) <= Q * (-x) /\ (-Q) * (-x) <= z * (-x)
    BY <1>0, <2>0, Monotone, SMT
  <2>2. (-x) * Q <= Half * Q
    BY <1>0, <2>0, Monotone, SMT
  <2>3. /\ Q * (-x) = (-x) * Q /\ (-Q) * (-x) = -((-x) * Q) /\ (-x) * Q \in Int
        /\ Half * Q \in Int /\ z * (-x) = -(z * x) /\ z * x \in Int
    BY <1>0, SMT
  <2> QED BY <2>1, <2>2, <2>3, SMT
<1> QED BY <1>1, <1>2, SMT

(* ... and reduces to a result of at most Q in size.                       *)
LEMMA ProductReduces ==
  ASSUME NEW z \in Int, -Q <= z, z <= Q, NEW x \in Int, -Half <= x, x <= Half
  PROVE  /\ montgomeryReduce(z * x) \in Int
         /\ Within(montgomeryReduce(z * x), Q)
BY ProductRange, MontgomeryCorrect DEF Within

-----------------------------------------------------------------------------
(* Growth in the words of the lemmas.                                      *)
LEMMA GrowthAsBounds ==
  /\ (Growth /\ pc \in {"vector", "scalar"}) =>
       Halfway(a, Grown(Depth[len]), Grown(Depth[len] + 1), start, j, len)
  /\ (Growth /\ pc = "inverse") =>
       Halfway(a, len * Q, 2 * len * Q, start, j, len)
BY DEF Growth, Settled, Halfway, Done, DoneAt

(* The converse, for the next state.                                       *)
LEMMA BoundsAsGrowth ==
  /\ (pc' \in {"vector", "scalar"} /\
        Halfway(a', Grown(Depth[len']), Grown(Depth[len'] + 1), start', j', len'))
       => Growth'
  /\ (pc' = "inverse" /\ Halfway(a', len' * Q, 2 * len' * Q, start', j', len'))
       => Growth'
BY DEF Growth, Settled, Halfway, Done, DoneAt

(* The counters of a forward transform inside a layer ...                  *)
LEMMA ForwardAdvance ==
  ASSUME IInv, pc \in {"vector", "scalar"}, pc' = pc, NEW n \in Int, n >= 1,
         j + n <= start + len, ~LayerDone(n), Advance(n, 1),
         Moved(a, a', Grown(Depth[len] + 1), j, len, n)
  PROVE  /\ len' = len /\ start' \in Int /\ 0 <= start' /\ j' \in Int
         /\ start' <= j' /\ j' < start' + len /\ start' + 2 * len <= N /\ k' \in Int
         /\ ZetaOfBlock' /\ Growth'
         /\ \/ j' = j + n /\ start' = start
            \/ j' = start'
<1>0. /\ len \in Lengths /\ len \in Int /\ len >= 1 /\ start \in Int /\ 0 <= start
      /\ j \in Int /\ start <= j /\ j < start + len /\ start + 2 * len <= N
      /\ k \in Int /\ N \in Int /\ k * (2 * len) = N + start
  BY Counters, Sizes DEF IInv, Looping, ZetaOfBlock
<1>1. Halfway(a, Grown(Depth[len]), Grown(Depth[len] + 1), start, j, len)
  BY GrowthAsBounds DEF IInv
<1>2. len' = len
  BY DEF Advance
<1>3. CASE j + n < start + len
  <2>1. j' = j + n /\ start' = start /\ k' = k
    BY <1>3 DEF Advance
  <2>2. Halfway(a', Grown(Depth[len]), Grown(Depth[len] + 1), start', j', len)
    BY <1>0, <1>1, <1>3, <2>1, BoundsMove
  <2>3. Growth'
    BY <1>2, <2>2, BoundsAsGrowth
  <2>4. ZetaOfBlock'
    BY <1>0, <1>2, <2>1 DEF ZetaOfBlock
  <2>5. j' \in Int /\ start' <= j' /\ j' < start' + len
    BY <1>0, <1>3, <2>1, SMT
  <2> QED BY <1>0, <1>2, <2>1, <2>3, <2>4, <2>5
<1>4. CASE j + n = start + len
  <2>1. start' = start + 2 * len /\ j' = start + 2 * len /\ k' = k + 1
    BY <1>0, <1>4, SMT DEF Advance
  <2>2. start + 2 * len < N
    BY <1>0, <1>4, SMT DEF LayerDone
  <2>3. Halfway(a', Grown(Depth[len]), Grown(Depth[len] + 1), start', j', len)
    BY <1>0, <1>1, <1>4, <2>1, BoundsMove
  <2>4. Growth'
    BY <1>2, <2>3, BoundsAsGrowth
  <2>5. k' * (2 * len) = N + start'
    BY <1>0, <2>1, SMT
  <2>6. ZetaOfBlock'
    BY <1>2, <2>5 DEF ZetaOfBlock
  <2>7. start' + 2 * len <= N
    <3> DEFINE c == N \div (2 * len)
    <3>1. c \in Int /\ N = c * (2 * len)
      BY <1>0, NttAssumption, SMT
    <3> HIDE DEF c
    <3>2. start' = (k' - c) * (2 * len) /\ k' - c \in Int /\ start' \in Int /\ start' < N
      BY <1>0, <2>1, <2>2, <2>5, <3>1, SMT
    <3> QED BY <1>0, <3>2, BlockFits
  <2>8. start' \in Int /\ 0 <= start' /\ j' \in Int /\ start' <= j' /\ j' < start' + len
        /\ k' \in Int
    BY <1>0, <2>1, SMT
  <2> QED BY <1>2, <2>1, <2>4, <2>6, <2>7, <2>8
<1> QED BY <1>0, <1>3, <1>4, SMT

(* ... and at its end.                                                     *)
LEMMA ForwardComplete ==
  ASSUME IInv, pc \in {"vector", "scalar"}, NEW n \in Int, n >= 1,
         j + n <= start + len, LayerDone(n),
         Moved(a, a', Grown(Depth[len] + 1), j, len, n)
  PROVE  Bounded(a', Grown(Depth[len] + 1)) /\ (k + 1) * (2 * len) = 2 * N
<1>0. /\ len \in Lengths /\ len \in Int /\ len >= 1 /\ start \in Int /\ 0 <= start
      /\ j \in Int /\ start <= j /\ j < start + len /\ start + 2 * len <= N
      /\ k \in Int /\ N \in Int /\ k * (2 * len) = N + start
  BY Counters, Sizes DEF IInv, Looping, ZetaOfBlock
<1>1. j + n = start + len /\ start + 2 * len = N
  BY <1>0, SMT DEF LayerDone
<1>2. Halfway(a, Grown(Depth[len]), Grown(Depth[len] + 1), start, j, len)
  BY GrowthAsBounds DEF IInv
<1>3. Bounded(a', Grown(Depth[len] + 1))
  BY <1>0, <1>1, <1>2, BoundsComplete
<1>4. (k + 1) * (2 * len) = 2 * N
  <2>1. (k + 1) * (2 * len) = k * (2 * len) + 2 * len
    BY <1>0, SMT
  <2> QED BY <1>0, <1>1, <2>1, SMT
<1> QED BY <1>3, <1>4

(* The next forward layer: its bounds, counters and zeta.                  *)
LEMMA ForwardLayer ==
  ASSUME NEW l \in Lengths, NEW first \in Int, Layer(l, first),
         pc' \in {"vector", "scalar"}, Bounded(a', Grown(Depth[l])),
         first * (2 * l) = N
  PROVE  /\ len' \in Lengths /\ start' \in Int /\ 0 <= start' /\ j' \in Int
         /\ start' <= j' /\ j' < start' + len' /\ start' + 2 * len' <= N /\ k' \in Int
         /\ ZetaOfBlock' /\ Growth' /\ start' = j'
<1>1. len' = l /\ start' = 0 /\ j' = 0 /\ k' = first
  BY DEF Layer
<1>2. l \in Int /\ l >= 1 /\ 2 * l <= N
  BY LengthFacts
<1>3. Halfway(a', Grown(Depth[l]), Grown(Depth[l] + 1), 0, 0, l)
  BY <1>2, BoundsStart
<1>4. Growth'
  BY <1>1, <1>3, BoundsAsGrowth
<1>5. ZetaOfBlock'
  <2>1. first * (2 * l) = N + 0
    BY Sizes, SMT
  <2> QED BY <1>1, <2>1 DEF ZetaOfBlock
<1>6. /\ start' \in Int /\ 0 <= start' /\ j' \in Int /\ start' <= j'
      /\ j' < start' + len' /\ start' + 2 * len' <= N
  BY <1>1, <1>2, SMT
<1> QED BY <1>1, <1>4, <1>5, <1>6

-----------------------------------------------------------------------------
(* The steps.                                                              *)

(* A forward butterfly on two entries below lo.                            *)
LEMMA ButterflyValues ==
  ASSUME NEW x \in Int, NEW t \in Int, NEW lo \in Int, Within(x, lo), Within(t, Q),
         lo + Q < Half
  PROVE  /\ add(x, t) \in Int32 /\ Within(add(x, t), lo + Q)
         /\ sub(x, t) \in Int32 /\ Within(sub(x, t), lo + Q)
         /\ add(x, t) = x + t /\ sub(x, t) = x - t
<1>0. Q \in Int /\ Half \in Int
  BY Constants
<1>1. /\ x + t \in Int /\ -Half <= x + t /\ x + t < Half /\ Within(x + t, lo + Q)
      /\ x - t \in Int /\ -Half <= x - t /\ x - t < Half /\ Within(x - t, lo + Q)
  BY <1>0, SMT DEF Within
<1>2. add(x, t) = x + t /\ sub(x, t) = x - t
  BY <1>1, Int32Same DEF add, sub
<1> QED BY <1>1, <1>2, Width

(* A scalar butterfly going forward.                                       *)
LEMMA StepButterfly ==
  ASSUME IInv, Butterfly
  PROVE  IInv'
<1>0. /\ len \in Lengths /\ len \in Int /\ len >= 1 /\ start \in Int /\ 0 <= start
      /\ j \in Int /\ start <= j /\ j < start + len /\ start + 2 * len <= N
      /\ k \in Int /\ j \in Index /\ j + len \in Index /\ j # j + len /\ pc = "scalar"
  BY Counters DEF IInv, Looping, Butterfly
<1> DEFINE lo == Grown(Depth[len])
           hi == Grown(Depth[len] + 1)
           t == montgomeryReduce(zetas[k] * a[j + len])
<1>1. /\ lo \in Int /\ hi = lo + Q /\ hi <= Grown(Depth[0]) /\ lo + Q < Half /\ hi \in Int
      /\ Q \in Int /\ Q > 0 /\ Half \in Int
  BY <1>0, LengthFacts, Sizes, SMT
<1>2. a \in [Index -> Int32] /\ a[j] \in Int /\ a[j + len] \in Int
  BY <1>0, Width DEF IInv, Shape
<1>3. Within(a[j], lo) /\ Within(a[j + len], lo)
  <2>1. ~Done(j) /\ ~Done(j + len)
    BY <1>0, SMT DEF Done
  <2> QED BY <1>0, <2>1 DEF IInv, Growth
<1>4. t \in Int /\ Within(t, Q)
  <2>1. zetas[k] \in Int /\ -Q <= zetas[k] /\ zetas[k] <= Q
    BY <1>0, ZetaInTable DEF IInv, Looping
  <2>2. -Half <= a[j + len] /\ a[j + len] <= Half
    BY <1>1, <1>2, <1>3, SMT DEF Within
  <2> QED BY <1>2, <2>1, <2>2, ProductReduces
<1>5. /\ add(a[j], t) \in Int32 /\ Within(add(a[j], t), hi)
      /\ sub(a[j], t) \in Int32 /\ Within(sub(a[j], t), hi)
  BY <1>1, <1>2, <1>3, <1>4, ButterflyValues
<1>6. a' = [a EXCEPT ![j + len] = sub(a[j], t), ![j] = add(a[j], t)]
  BY DEF Butterfly
<1> HIDE DEF t
<1>7. a' \in [Index -> Int32]
  BY <1>2, <1>5, <1>6
<1>8. Moved(a, a', hi, j, len, 1)
  <2> SUFFICES ASSUME NEW i \in Index
               PROVE  IF NowAt(i, j, len, 1) THEN Within(a'[i], hi) ELSE a'[i] = a[i]
    BY DEF Moved
  <2>1. i \in Int
    BY Sizes, SMT DEF Index
  <2>2. NowAt(i, j, len, 1) <=> (i = j \/ i = j + len)
    BY <1>0, <2>1, SMT DEF NowAt
  <2>3. a'[j] = add(a[j], t) /\ a'[j + len] = sub(a[j], t)
        /\ (i # j /\ i # j + len => a'[i] = a[i])
    BY <1>0, <1>2, <1>6
  <2> QED BY <1>5, <2>2, <2>3
<1>9. j + 1 <= start + len /\ 1 \in Int /\ 1 >= 1
  BY <1>0, SMT
<1>10. UNCHANGED <<job, hasAVX2, col, w>>
  BY DEF Butterfly
<1>11. CASE ~LayerDone(1) /\ Advance(1, 1) /\ pc' = pc
  <2>1. /\ len' = len /\ start' \in Int /\ 0 <= start' /\ j' \in Int
        /\ start' <= j' /\ j' < start' + len /\ start' + 2 * len <= N /\ k' \in Int
        /\ ZetaOfBlock' /\ Growth'
    BY <1>0, <1>8, <1>9, <1>11, ForwardAdvance
  <2>2. Shape' /\ Accumulated'
    BY <1>0, <1>7, <1>10, <1>11 DEF IInv, Shape, Accumulated
  <2>3. LoopShape'
    BY <1>0, <1>11, <2>1 DEF LoopShape
  <2> QED BY <2>1, <2>2, <2>3 DEF IInv
<1>12. CASE LayerDone(1) /\ len > 1 /\ Layer(len \div 2, k + 1) /\ pc' = pc
  <2>1. Bounded(a', hi) /\ (k + 1) * (2 * len) = 2 * N
    BY <1>0, <1>8, <1>9, <1>12, ForwardComplete
  <2>2. len \div 2 \in Lengths /\ len = 2 * (len \div 2) /\ Grown(Depth[len \div 2]) = hi
    BY <1>0, <1>12, NttAssumption, LengthFacts
  <2>3. (k + 1) * (2 * (len \div 2)) = N /\ k + 1 \in Int
    <3> DEFINE l == len \div 2
    <3>1. l \in Int /\ len = 2 * l
      BY <2>2, LengthFacts
    <3> HIDE DEF l
    <3>2. (k + 1) * (2 * len) = 2 * ((k + 1) * (2 * l)) /\ (k + 1) * (2 * l) \in Int
      BY <1>0, <3>1, SMT
    <3>3. (k + 1) * (2 * l) = N
      BY <2>1, <3>2, Sizes, SMT
    <3> QED BY <1>0, <3>3, SMT DEF l
  <2>4. /\ len' \in Lengths /\ start' \in Int /\ 0 <= start' /\ j' \in Int
        /\ start' <= j' /\ j' < start' + len' /\ start' + 2 * len' <= N /\ k' \in Int
        /\ ZetaOfBlock' /\ Growth'
    BY <1>0, <1>12, <2>1, <2>2, <2>3, ForwardLayer
  <2>5. Shape' /\ Accumulated'
    BY <1>0, <1>7, <1>10, <1>12 DEF IInv, Shape, Accumulated
  <2>6. LoopShape'
    BY <1>0, <1>12, <2>4 DEF LoopShape
  <2> QED BY <2>4, <2>5, <2>6 DEF IInv
<1>13. CASE LayerDone(1) /\ len <= 1 /\ Layer(0, k) /\ pc' = "pointwise"
  <2>1. Bounded(a', hi)
    BY <1>0, <1>8, <1>9, <1>13, ForwardComplete
  <2>2. hi = Grown(Depth[0])
    <3>1. len = 1 /\ len \div 2 = 0
      BY <1>0, <1>13, SMT
    <3> QED BY <1>0, <3>1, LengthFacts
  <2>3. Growth'
    BY <1>13, <2>1, <2>2 DEF Growth, Settled, Bounded
  <2>4. Shape' /\ Accumulated'
    BY <1>0, <1>7, <1>10, <1>13 DEF IInv, Shape, Accumulated
  <2>5. LoopShape' /\ ZetaOfBlock'
    BY <1>13 DEF LoopShape, ZetaOfBlock, Looping
  <2> QED BY <2>3, <2>4, <2>5 DEF IInv
<1> QED BY <1>11, <1>12, <1>13 DEF Butterfly

(* No vectors done in a block.                                             *)
LEMMA NoneOf ==
  ASSUME NEW x \in Int, NEW n \in Int
  PROVE  x = x + 0 * n
BY SMT

(* A vector stays inside its block: its first index and the block's length *)
(* are multiples of the width.                                             *)
LEMMA VectorFits ==
  ASSUME IInv, pc = "vector"
  PROVE  /\ Lanes \in Int /\ Lanes >= 1 /\ Lanes \in Lengths /\ len >= Lanes
         /\ LenResume = Lanes \div 2 /\ Lanes = 2 * (Lanes \div 2)
         /\ j + Lanes <= start + len
<1>0. /\ len \in Lengths /\ len \in Int /\ len >= 1 /\ start \in Int /\ 0 <= start
      /\ j \in Int /\ start <= j /\ j < start + len
  BY Counters DEF IInv, Looping
<1>2. /\ Lanes \in Int /\ Lanes >= 1 /\ Lanes \in Lengths /\ len >= Lanes
      /\ LenResume = Lanes \div 2 /\ Lanes = 2 * (Lanes \div 2)
  BY <1>0, VectorAssumption, SMT DEF IInv, LoopShape
<1>3. j + Lanes <= start + len
  <2>1. PICK q \in Int : j = start + q * Lanes
    BY <1>0 DEF IInv, LoopShape
  <2>2. len % Lanes = 0
    BY <1>0, <1>2, VectorAssumption
  <2> DEFINE b == len \div Lanes
  <2>3. b \in Int /\ len = b * Lanes
    BY <1>0, <1>2, <2>2, DivMod, SMT
  <2> HIDE DEF b
  <2>4. q < b
    <3>1. CASE b <= q
      <4>1. b * Lanes <= q * Lanes
        BY <1>2, <2>3, <3>1, Monotone, SMT
      <4> QED BY <1>0, <1>2, <2>1, <2>3, <4>1, SMT
    <3> QED BY <2>1, <2>3, <3>1, SMT
  <2>5. (q + 1) * Lanes <= b * Lanes /\ (q + 1) * Lanes = q * Lanes + Lanes /\ q * Lanes \in Int
    BY <1>2, <2>3, <2>4, Monotone, SMT
  <2> QED BY <1>0, <1>2, <2>1, <2>3, <2>5, SMT
<1> QED BY <1>2, <1>3

(* The layer after one of vectors, and after the last one.                 *)
LEMMA VectorHalves ==
  ASSUME IInv, pc = "vector"
  PROVE  len > 1 /\ (len \div 2 < Lanes => len \div 2 = LenResume)
<1>0. len \in Lengths /\ len \in Int /\ len >= 1
  BY Counters DEF IInv, Looping
<1>2. /\ Lanes \in Int /\ Lanes >= 1 /\ Lanes \in Lengths /\ len >= Lanes
      /\ LenResume = Lanes \div 2 /\ Lanes = 2 * (Lanes \div 2)
  BY VectorFits
<1>3. len > 1
  BY <1>0, <1>2, SMT
<1>4. ASSUME len \div 2 < Lanes
      PROVE  len \div 2 = LenResume
  <2> DEFINE b == len \div Lanes
             l == len \div 2
  <2>0. len = 2 * l /\ l \in Int
    BY <1>0, <1>3, NttAssumption, LengthFacts
  <2>1. len % Lanes = 0
    BY <1>0, <1>2, VectorAssumption
  <2>2. b \in Int /\ len = b * Lanes
    BY <1>0, <1>2, <2>1, DivMod, SMT
  <2> HIDE DEF b, l
  <2>3. b = 1
    <3>1. CASE b >= 2
      <4>1. 2 * Lanes <= b * Lanes
        BY <1>2, <2>2, <3>1, Monotone, SMT
      <4> QED BY <1>2, <1>4, <2>0, <2>2, <4>1, SMT DEF l
    <3>2. CASE b <= 0
      <4>1. b * Lanes <= 0 * Lanes /\ 0 * Lanes = 0
        BY <1>2, <2>2, <3>2, Monotone, SMT
      <4> QED BY <1>0, <2>2, <4>1, SMT
    <3> QED BY <2>2, <3>1, <3>2, SMT
  <2>4. len = Lanes
    BY <1>2, <2>2, <2>3, SMT
  <2> QED BY <1>2, <2>4
<1> QED BY <1>3, <1>4

(* A vector of butterflies, and the change to the scalar loops.            *)
LEMMA StepVectorButterfly ==
  ASSUME IInv, VectorButterfly
  PROVE  IInv'
<1>0. /\ len \in Lengths /\ len \in Int /\ len >= 1 /\ start \in Int /\ 0 <= start
      /\ j \in Int /\ start <= j /\ j < start + len /\ start + 2 * len <= N
      /\ k \in Int /\ pc = "vector"
  BY Counters DEF IInv, Looping, VectorButterfly, VectorThenScalar
<1> DEFINE lo == Grown(Depth[len])
           hi == Grown(Depth[len] + 1)
           y == [m \in 0 .. Lanes - 1 |-> a[j + len + m]]
           v == montgomeryMulAVX2(Broadcast(zetas[k]), Register(y))
           T(m) == Lane(v, m)
<1>1. /\ lo \in Int /\ hi = lo + Q /\ hi <= Grown(Depth[0]) /\ lo + Q < Half /\ hi \in Int
      /\ Q \in Int /\ Q > 0 /\ Half \in Int
  BY <1>0, LengthFacts, Sizes, SMT
<1>2. /\ Lanes \in Int /\ Lanes >= 1 /\ Lanes \in Lengths /\ len >= Lanes
      /\ LenResume = Lanes \div 2 /\ Lanes = 2 * (Lanes \div 2)
  BY <1>0, VectorFits
<1>3. j + Lanes <= start + len
  BY <1>0, VectorFits
<1>4. /\ \A i \in j .. j + Lanes - 1 :
           /\ i \in Index /\ i - j \in 0 .. Lanes - 1 /\ j + len + (i - j) = i + len
           /\ i + len \in Index
      /\ \A m \in 0 .. Lanes - 1 : j + len + m \in Index
  BY <1>0, <1>2, <1>3, Sizes, SMT DEF Index
<1>5. a \in [Index -> Int32] /\ y \in [0 .. Lanes - 1 -> Int32]
  BY <1>4 DEF IInv, Shape
<1>6. ASSUME NEW m \in 0 .. Lanes - 1
      PROVE  T(m) \in Int /\ Within(T(m), Q)
  <2>1. zetas[k] \in Int /\ -Q <= zetas[k] /\ zetas[k] <= Q
    BY <1>0, ZetaInTable DEF IInv, Looping
  <2>2. T(m) = montgomeryReduce(zetas[k] * y[m])
    <3>1. -Half <= zetas[k] /\ zetas[k] < Half
      BY <1>1, <2>1, Sizes, SMT
    <3> HIDE DEF y
    <3>2. Lane(montgomeryMulAVX2(Broadcast(zetas[k]), Register(y)), m)
            = montgomeryReduce(zetas[k] * y[m])
      BY <1>5, <2>1, <3>1, VectorIsScalar
    <3> QED BY <3>2
  <2>3. y[m] \in Int /\ -Half <= y[m] /\ y[m] <= Half
    <3>1. y[m] \in Int32
      BY <1>5
    <3> QED BY <3>1, Constants, Width, SMT
  <2>4. montgomeryReduce(zetas[k] * y[m]) \in Int /\ Within(montgomeryReduce(zetas[k] * y[m]), Q)
    BY <2>1, <2>3, ProductReduces
  <2> QED BY <2>2, <2>4
<1>7. a' = [i \in Index |->
              IF i \in j .. j + Lanes - 1 THEN add(a[i], T(i - j))
              ELSE IF i \in j + len .. j + len + Lanes - 1
              THEN sub(a[i - len], T(i - len - j)) ELSE a[i]]
  BY DEF VectorButterfly, VectorThenScalar
<1> HIDE DEF v, y, T
<1>8. ASSUME NEW i \in j .. j + Lanes - 1
      PROVE  /\ add(a[i], T(i - j)) \in Int32 /\ Within(add(a[i], T(i - j)), hi)
             /\ sub(a[i], T(i - j)) \in Int32 /\ Within(sub(a[i], T(i - j)), hi)
  <2>1. T(i - j) \in Int /\ Within(T(i - j), Q) /\ a[i] \in Int
    BY <1>4, <1>5, <1>6, Width
  <2>2. Within(a[i], lo)
    <3>1. ~Done(i) /\ i \in Index
      BY <1>0, <1>2, <1>3, <1>4, SMT DEF Done
    <3> QED BY <1>0, <3>1 DEF IInv, Growth
  <2> QED BY <1>1, <2>1, <2>2, ButterflyValues
<1>9. ASSUME NEW i \in Index
      PROVE  a'[i] \in Int32 /\ IF NowAt(i, j, len, Lanes) THEN Within(a'[i], hi) ELSE a'[i] = a[i]
  <2>1. i \in Int
    BY Sizes, SMT DEF Index
  <2>2. CASE i \in j .. j + Lanes - 1
    <3>1. a'[i] = add(a[i], T(i - j))
      BY <1>7, <2>2
    <3>2. NowAt(i, j, len, Lanes)
      BY <1>0, <1>2, <2>1, <2>2, SMT DEF NowAt
    <3> QED BY <1>8, <2>2, <3>1, <3>2
  <2>3. CASE i \notin j .. j + Lanes - 1 /\ i \in j + len .. j + len + Lanes - 1
    <3>1. a'[i] = sub(a[i - len], T(i - len - j))
      BY <1>7, <2>3
    <3>2. NowAt(i, j, len, Lanes)
      BY <1>0, <1>2, <2>1, <2>3, SMT DEF NowAt
    <3>3. i - len \in j .. j + Lanes - 1
      BY <1>0, <1>2, <2>1, <2>3, SMT
    <3> QED BY <1>8, <3>1, <3>2, <3>3
  <2>4. CASE i \notin j .. j + Lanes - 1 /\ i \notin j + len .. j + len + Lanes - 1
    <3>1. a'[i] = a[i]
      BY <1>7, <2>4
    <3>2. ~NowAt(i, j, len, Lanes)
      BY <1>0, <1>2, <2>1, <2>4, SMT DEF NowAt
    <3> QED BY <1>5, <3>1, <3>2
  <2> QED BY <2>2, <2>3, <2>4
<1>10. a' \in [Index -> Int32] /\ Moved(a, a', hi, j, len, Lanes)
  BY <1>7, <1>9 DEF Moved
<1>11. UNCHANGED <<job, hasAVX2, col, w>>
  BY DEF VectorButterfly, VectorThenScalar
<1>12. CASE ~LayerDone(Lanes) /\ Advance(Lanes, 1) /\ pc' = pc
  <2>1. /\ len' = len /\ start' \in Int /\ 0 <= start' /\ j' \in Int
        /\ start' <= j' /\ j' < start' + len /\ start' + 2 * len <= N /\ k' \in Int
        /\ ZetaOfBlock' /\ Growth'
        /\ \/ j' = j + Lanes /\ start' = start
           \/ j' = start'
    BY <1>0, <1>2, <1>3, <1>10, <1>12, ForwardAdvance
  <2>2. Shape' /\ Accumulated'
    BY <1>0, <1>10, <1>11, <1>12 DEF IInv, Shape, Accumulated
  <2>3. \E q \in Int : j' = start' + q * Lanes
    <3>1. CASE j' = j + Lanes /\ start' = start
      <4>1. PICK q \in Int : j = start + q * Lanes
        BY <1>0 DEF IInv, LoopShape
      <4>2. j' = start' + (q + 1) * Lanes /\ q + 1 \in Int
        <5>1. (q + 1) * Lanes = q * Lanes + Lanes /\ q * Lanes \in Int
          BY <1>2, <4>1, SMT
        <5> QED BY <1>0, <1>2, <3>1, <4>1, <5>1, SMT
      <4> QED BY <4>2
    <3>2. CASE j' = start'
      <4>1. start' = start' + 0 * Lanes
        BY <1>2, <2>1, NoneOf
      <4>2. j' = start' + 0 * Lanes /\ 0 \in Int
        BY <3>2, <4>1
      <4> QED BY <4>2
    <3> QED BY <2>1, <3>1, <3>2
  <2>4. LoopShape'
    BY <1>0, <1>2, <1>12, <2>1, <2>3 DEF LoopShape
  <2> QED BY <2>1, <2>2, <2>4 DEF IInv
<1>13. CASE LayerDone(Lanes)
  <2> DEFINE l == len \div 2
  <2>1. Bounded(a', hi) /\ (k + 1) * (2 * len) = 2 * N
    BY <1>0, <1>2, <1>3, <1>10, <1>13, ForwardComplete
  <2>2. len > 1
    BY <1>0, <1>2, SMT
  <2>3. l \in Lengths /\ len = 2 * l /\ Grown(Depth[l]) = hi /\ l \in Int
    BY <1>0, <2>2, NttAssumption, LengthFacts
  <2> HIDE DEF l
  <2>4. (k + 1) * (2 * l) = N /\ k + 1 \in Int
    <3>1. (k + 1) * (2 * len) = 2 * ((k + 1) * (2 * l)) /\ (k + 1) * (2 * l) \in Int
      BY <1>0, <2>3, SMT
    <3> QED BY <1>0, <2>1, <3>1, Sizes, SMT
  <2>5. CASE l >= Lanes /\ Layer(l, k + 1) /\ pc' = pc
    <3>1. /\ len' \in Lengths /\ start' \in Int /\ 0 <= start' /\ j' \in Int
          /\ start' <= j' /\ j' < start' + len' /\ start' + 2 * len' <= N /\ k' \in Int
          /\ ZetaOfBlock' /\ Growth' /\ start' = j' /\ len' = l
      BY <1>0, <2>1, <2>3, <2>4, <2>5, ForwardLayer DEF Layer
    <3>2. Shape' /\ Accumulated'
      BY <1>0, <1>10, <1>11, <2>5 DEF IInv, Shape, Accumulated
    <3>3. \E q \in Int : j' = start' + q * Lanes
      <4>1. start' = start' + 0 * Lanes
        BY <1>2, <3>1, NoneOf
      <4>2. j' = start' + 0 * Lanes /\ 0 \in Int
        BY <3>1, <4>1
      <4> QED BY <4>2
    <3>4. LoopShape'
      BY <1>0, <2>5, <3>1, <3>3 DEF LoopShape
    <3> QED BY <3>1, <3>2, <3>4 DEF IInv
  <2>6. CASE l < Lanes /\ Layer(LenResume, KResume + 1) /\ pc' = "scalar"
    <3>1. LenResume = l
      BY <1>0, <2>6, VectorHalves DEF l
    <3>2. (KResume + 1) * (2 * l) = N
      BY <3>1, VectorAssumption
    <3>3. KResume + 1 \in Int
      BY VectorAssumption, SMT
    <3>4. /\ len' \in Lengths /\ start' \in Int /\ 0 <= start' /\ j' \in Int
          /\ start' <= j' /\ j' < start' + len' /\ start' + 2 * len' <= N /\ k' \in Int
          /\ ZetaOfBlock' /\ Growth'
      BY <2>1, <2>3, <2>6, <3>1, <3>2, <3>3, ForwardLayer
    <3>5. Shape' /\ Accumulated'
      BY <1>0, <1>10, <1>11, <2>6 DEF IInv, Shape, Accumulated
    <3>6. LoopShape'
      BY <2>6, <3>4 DEF LoopShape
    <3> QED BY <3>4, <3>5, <3>6 DEF IInv
  <2> QED BY <1>12, <1>13, <2>5, <2>6 DEF VectorButterfly, VectorThenScalar, l
<1> QED BY <1>12, <1>13 DEF VectorButterfly, VectorThenScalar
(* What a job promises of the column at work.                              *)
LEMMA JobFacts ==
  ASSUME Shape
  PROVE  LET n == Len(job.cols)
         IN  /\ n \in Int /\ n >= 1 /\ col \in Int /\ 1 <= col /\ col <= n
             /\ \A i \in Index :
                  /\ job.cols[col][i] \in Int /\ Within(job.cols[col][i], Q)
                  /\ job.rows[col][i] \in Int
                  /\ Within(job.rows[col][i], Grown(Depth[0]))
             /\ n * Q \in Int /\ n * Q < Half - RedUnit
             /\ (~job.reduce) => n = 1
<1> DEFINE n == Len(job.cols)
<1>1. n \in Nat \ {0} /\ col \in 1 .. n /\ n * Q < Half - RedUnit
      /\ ((~job.reduce) => n = 1)
      /\ job.cols[col] \in [Index -> -Q .. Q]
      /\ job.rows[col] \in [Index -> -Grown(Depth[0]) .. Grown(Depth[0])]
  BY DEF Shape, JobOK
<1> HIDE DEF n
<1>2. n \in Int /\ n >= 1 /\ col \in Int /\ 1 <= col /\ col <= n /\ n * Q \in Int
  BY <1>1, Sizes, SMT
<1>3. \A x \in -Q .. Q : x \in Int /\ Within(x, Q)
  BY Sizes, SMT DEF Within
<1>4. \A x \in -Grown(Depth[0]) .. Grown(Depth[0]) : x \in Int /\ Within(x, Grown(Depth[0]))
  BY Sizes, SMT DEF Within
<1>5. \A i \in Index : /\ job.cols[col][i] \in -Q .. Q
                       /\ job.rows[col][i] \in -Grown(Depth[0]) .. Grown(Depth[0])
  BY <1>1
<1> QED BY <1>1, <1>2, <1>3, <1>4, <1>5 DEF n

(* The dispatch of a forward transform.                                    *)
LEMMA StepNTT ==
  ASSUME IInv, NTT
  PROVE  IInv'
<1> DEFINE l == N \div 2
<1>1. /\ l \in Lengths /\ l \in Int /\ N = 2 * l /\ Lanes \in Lengths /\ Lanes \in Int
      /\ Lanes <= l /\ Depth[l] = 0 /\ pc = "load" /\ 1 \in Int
  BY NttAssumption, VectorAssumption, SMT DEF NTT
<1> HIDE DEF l
<1>2. Grown(Depth[l]) = Q /\ Q < Half
  <2>1. Grown(0) = Q /\ Q < Half
    BY Sizes, SMT DEF Grown
  <2> QED BY <1>1, <2>1
<1>3. Bounded(a', Q) /\ a' \in [Index -> Int32]
  <2>1. a' = job.cols[col]
    BY DEF NTT
  <2>2. \A i \in Index : job.cols[col][i] \in Int /\ Within(job.cols[col][i], Q)
    BY JobFacts DEF IInv
  <2>3. \A i \in Index : job.cols[col][i] \in Int32
    BY <1>2, <2>2, Width, Sizes
  <2>4. job.cols[col] \in [Index -> -Q .. Q]
    BY DEF IInv, Shape, JobOK
  <2> QED BY <2>1, <2>2, <2>3, <2>4 DEF Bounded
<1>4. pc' \in {"vector", "scalar"} /\ Layer(l, 1) /\ UNCHANGED <<job, hasAVX2, col, w>>
  BY DEF NTT, Layer, l
<1>5. 1 * (2 * l) = N
  BY <1>1, SMT
<1>6. /\ len' \in Lengths /\ start' \in Int /\ 0 <= start' /\ j' \in Int
      /\ start' <= j' /\ j' < start' + len' /\ start' + 2 * len' <= N /\ k' \in Int
      /\ ZetaOfBlock' /\ Growth' /\ start' = j' /\ len' = l
  BY <1>1, <1>2, <1>3, <1>4, <1>5, ForwardLayer DEF Layer
<1>7. len' >= Lanes /\ \E q \in Int : j' = start' + q * Lanes
  <2>1. start' = start' + 0 * Lanes
    BY <1>1, <1>6, NoneOf
  <2>2. j' = start' + 0 * Lanes /\ 0 \in Int
    BY <1>6, <2>1
  <2>3. l >= Lanes
    BY <1>1, SMT
  <2> QED BY <1>6, <2>2, <2>3
<1>8. Shape' /\ Accumulated'
  BY <1>1, <1>3, <1>4 DEF IInv, Shape, Accumulated
<1>9. LoopShape'
  BY <1>4, <1>6, <1>7 DEF LoopShape
<1> QED BY <1>6, <1>8, <1>9 DEF IInv

(* Two factors and the square of their bound.                              *)
LEMMA ProductWithin ==
  ASSUME NEW x \in Int, NEW y \in Int, NEW g \in Int, Within(x, g), Within(y, g)
  PROVE  x * y \in Int /\ -(g * g) <= x * y /\ x * y <= g * g
<1>1. -g <= x /\ x <= g /\ -g <= y /\ y <= g /\ x * y \in Int /\ g * g \in Int
  BY SMT DEF Within
<1>2. CASE y >= 0
  <2>1. x * y <= g * y /\ (-g) * y <= x * y /\ y * g <= g * g
    BY <1>1, <1>2, Monotone, SMT
  <2>2. g * y = y * g /\ (-g) * y = -(y * g) /\ y * g \in Int
    BY SMT
  <2> QED BY <1>1, <2>1, <2>2, SMT
<1>3. CASE y < 0
  <2> DEFINE n == -y
  <2>1. n \in Int /\ n >= 0 /\ n <= g
    BY <1>1, <1>3, SMT
  <2>2. x * n = -(x * y)
    BY SMT
  <2> HIDE DEF n
  <2>3. x * n <= g * n /\ (-g) * n <= x * n /\ n * g <= g * g
    BY <1>1, <2>1, Monotone, SMT
  <2>4. g * n = n * g /\ (-g) * n = -(n * g) /\ n * g \in Int
    BY <2>1, SMT
  <2> QED BY <1>1, <2>2, <2>3, <2>4, SMT
<1> QED BY <1>2, <1>3, SMT

(* The products with a row, added to what is there.                        *)
LEMMA StepPointwise ==
  ASSUME IInv, Pointwise
  PROVE  IInv'
<1> DEFINE n == Len(job.cols)
           G == Grown(Depth[0])
           p == [i \in Index |-> montgomeryReduce(job.rows[col][i] * a[i])]
<1>0. pc = "pointwise"
  BY DEF Pointwise, PointwiseInto
<1>1. /\ n \in Int /\ n >= 1 /\ col \in Int /\ 1 <= col /\ col <= n
      /\ n * Q \in Int /\ n * Q < Half - RedUnit
      /\ \A i \in Index : /\ job.rows[col][i] \in Int
                           /\ Within(job.rows[col][i], G)
  BY JobFacts DEF IInv
<1>2. Q \in Int /\ Q > 0 /\ Half \in Int /\ RedUnit \in Int /\ RedUnit > 0 /\ G \in Int
      /\ G * G <= Half * Q
  BY Constants, Sizes, WidthAssumption, SMT
<1>3. a \in [Index -> Int32] /\ w \in [Index -> Int32]
  BY DEF IInv, Shape
<1>4. ASSUME NEW i \in Index
      PROVE  p[i] \in Int /\ Within(p[i], Q)
  <2> DEFINE x == job.rows[col][i] * a[i]
  <2>1. a[i] \in Int /\ Within(a[i], G)
    BY <1>0, <1>3, Width DEF IInv, Growth
  <2>2. x \in Int /\ -(G * G) <= x /\ x <= G * G
    BY <1>1, <1>2, <2>1, ProductWithin
  <2> HIDE DEF x, G
  <2>3. -(Half * Q) <= x /\ x <= Half * Q
    <3>1. G * G \in Int /\ Half * Q \in Int
      BY <1>2, SMT
    <3> QED BY <1>2, <2>2, <3>1, SMT
  <2>4. montgomeryReduce(x) \in Int /\ Within(montgomeryReduce(x), Q)
    BY <2>2, <2>3, MontgomeryCorrect DEF Within
  <2> QED BY <2>4 DEF x
<1>5. w' = IF col = 1 THEN p ELSE [i \in Index |-> add(w[i], p[i])]
  BY DEF Pointwise, PointwiseInto
<1> HIDE DEF p, n, G
<1>6. ASSUME NEW i \in Index
      PROVE  w'[i] \in Int32 /\ Within(w'[i], col * Q)
  <2>0. col * Q <= n * Q /\ col * Q \in Int
    BY <1>1, <1>2, Monotone, SMT
  <2>1. CASE col = 1
    <3>1. w'[i] = p[i] /\ col * Q = Q
      BY <1>2, <1>5, <2>1, SMT DEF p
    <3> QED BY <1>2, <1>4, <3>1, Width, Sizes
  <2>2. CASE col # 1
    <3>1. Within(w[i], (col - 1) * Q)
      <4>1. col > 1
        BY <1>1, <2>2, SMT
      <4> QED BY <1>0, <4>1 DEF IInv, Accumulated
    <3>2. w'[i] = add(w[i], p[i])
      BY <1>5, <2>2
    <3>3. w[i] \in Int
      BY <1>3, Width
    <3>4. (col - 1) * Q = col * Q - Q /\ (col - 1) * Q \in Int
      BY <1>1, <1>2, SMT
    <3>5. (col - 1) * Q + Q = col * Q /\ col * Q < Half
      BY <1>1, <1>2, <2>0, <3>4, SMT
    <3>6. (col - 1) * Q + Q < Half
      BY <3>5
    <3>7. /\ add(w[i], p[i]) \in Int32
          /\ Within(add(w[i], p[i]), (col - 1) * Q + Q)
      BY <1>4, <3>1, <3>3, <3>4, <3>6, ButterflyValues
    <3> QED BY <3>2, <3>5, <3>7
  <2> QED BY <2>1, <2>2
<1>7. w' \in [Index -> Int32]
  BY <1>5, <1>6 DEF p
<1>8. /\ UNCHANGED <<job, hasAVX2, a, loop>>
      /\ \/ col < n /\ col' = col + 1 /\ pc' = "load"
         \/ ~(col < n) /\ pc' = "reduce" /\ col' = col
  BY DEF Pointwise, PointwiseInto, n
<1>9. Shape' /\ Accumulated'
  <2>1. CASE col < n /\ col' = col + 1 /\ pc' = "load"
    <3>1. col' \in 1 .. n /\ col' - 1 = col
      BY <1>1, <2>1, SMT
    <3>2. Shape'
      BY <1>3, <1>7, <1>8, <2>1, <3>1 DEF IInv, Shape, n
    <3>3. Accumulated'
      BY <1>6, <2>1, <3>1 DEF Accumulated
    <3> QED BY <3>2, <3>3
  <2>2. CASE ~(col < n) /\ pc' = "reduce" /\ col' = col
    <3>1. col = n
      BY <1>1, <2>2, SMT
    <3>2. Shape'
      BY <1>3, <1>7, <1>8, <2>2 DEF IInv, Shape, n
    <3>3. Accumulated'
      BY <1>6, <1>8, <2>2, <3>1 DEF Accumulated, n
    <3> QED BY <3>2, <3>3
  <2> QED BY <1>8, <2>1, <2>2
<1>10. LoopShape' /\ ZetaOfBlock' /\ Growth'
  BY <1>8 DEF LoopShape, ZetaOfBlock, Growth, Settled, Looping
<1> QED BY <1>9, <1>10 DEF IInv
(* Reduce, where it is called, brings the sum back below Q.                *)
LEMMA StepInvNTT ==
  ASSUME IInv, InvNTT
  PROVE  IInv'
<1> DEFINE n == Len(job.cols)
<1>0. pc = "reduce"
  BY DEF InvNTT, InvNTTAfter
<1>1. /\ n \in Int /\ n >= 1 /\ n * Q \in Int /\ n * Q < Half - RedUnit
      /\ (~job.reduce) => n = 1
  BY JobFacts DEF IInv
<1>2. /\ Q \in Int /\ Q > 0 /\ Half \in Int /\ RedUnit \in Int /\ RedUnit > 0
      /\ RedUnit \div 2 \in Int /\ RedUnit = 2 * (RedUnit \div 2) /\ Q < Half
  BY Constants, Sizes
<1>3. \A i \in Index : w[i] \in Int /\ w[i] \in Int32 /\ Within(w[i], n * Q)
  BY <1>0, Width DEF IInv, Shape, Accumulated
<1> HIDE DEF n
<1>4. ASSUME NEW i \in Index, job.reduce
      PROVE  reduce32(w[i]) \in Int /\ Within(reduce32(w[i]), Q)
  <2>1. PICK e \in Nat : Q - RedUnit <= e /\ RedUnit - Q <= e /\ Reach(e) <= Q
    <3>1. \A e \in {Q - RedUnit, RedUnit - Q} : Reach(e) <= Q
      BY WidthAssumption DEF Reach
    <3>2. CASE Q >= RedUnit
      <4>1. Q - RedUnit \in Nat /\ RedUnit - Q <= Q - RedUnit /\ Q - RedUnit <= Q - RedUnit
        BY <1>2, <3>2, SMT
      <4> QED BY <3>1, <4>1
    <3>3. CASE ~(Q >= RedUnit)
      <4>1. RedUnit - Q \in Nat /\ Q - RedUnit <= RedUnit - Q /\ RedUnit - Q <= RedUnit - Q
        BY <1>2, <3>3, SMT
      <4> QED BY <3>1, <4>1
    <3> QED BY <3>2, <3>3
  <2>2. w[i] \in Int /\ -Half <= w[i] /\ w[i] + RedUnit \div 2 < Half
    <3>1. w[i] \in Int /\ -(n * Q) <= w[i] /\ w[i] <= n * Q
      BY <1>3 DEF Within
    <3> QED BY <1>1, <1>2, <3>1, SMT
  <2>3. Reach(e) \in Int
    <3>1. (Half \div RedUnit) \in Int
      BY <1>2, DivMod, Constants
    <3>2. (Half \div RedUnit + 1) * e \in Int
      BY <3>1, SMT
    <3> QED BY <1>2, <3>2, SMT DEF Reach
  <2>4. /\ reduce32(w[i]) \in Int /\ -Reach(e) <= reduce32(w[i])
        /\ reduce32(w[i]) <= Reach(e)
    BY <2>1, <2>2, ReduceCorrect
  <2>5. -Q <= reduce32(w[i]) /\ reduce32(w[i]) <= Q
    BY <1>2, <2>1, <2>3, <2>4, SMT
  <2> QED BY <2>4, <2>5 DEF Within
<1>5. ASSUME NEW i \in Index, ~job.reduce
      PROVE  Within(w[i], Q)
  <2>1. n * Q = Q
    BY <1>1, <1>2, <1>5, SMT
  <2> QED BY <1>3, <2>1
<1>6. /\ a' = IF job.reduce THEN [i \in Index |-> reduce32(w[i])] ELSE w
      /\ pc' = "inverse" /\ len' = 1 /\ start' = 0 /\ j' = 0 /\ k' = N - 1
      /\ UNCHANGED <<job, hasAVX2, col, w>>
  BY DEF InvNTT, InvNTTAfter
<1>7. Bounded(a', Q) /\ a' \in [Index -> Int32]
  <2>1. CASE job.reduce
    <3>1. a' = [i \in Index |-> reduce32(w[i])]
      BY <1>6, <2>1
    <3>2. \A i \in Index : reduce32(w[i]) \in Int32
      BY <1>2, <1>4, <2>1, Width
    <3> QED BY <1>4, <2>1, <3>1, <3>2 DEF Bounded
  <2>2. CASE ~job.reduce
    <3>1. a' = w
      BY <1>6, <2>2
    <3> QED BY <1>5, <2>2, <3>1 DEF Bounded, IInv, Shape
  <2> QED BY <2>1, <2>2
<1>8. 1 \in Lengths /\ 1 \in Int /\ 1 * Q = Q
  BY <1>2, NttAssumption, SMT
<1>9. Growth'
  <2>1. Halfway(a', 1 * Q, 2 * 1 * Q, 0, 0, 1)
    BY <1>7, <1>8, BoundsStart
  <2> QED BY <1>6, <2>1, BoundsAsGrowth
<1>10. ZetaOfBlock'
  <2>1. (N - 1 + 1) * (2 * 1) + 0 = 2 * N
    BY Sizes, SMT
  <2> QED BY <1>6, <2>1 DEF ZetaOfBlock
<1>11. LoopShape'
  <2>1. 0 \in Int /\ 0 <= 0 /\ 0 < 0 + 1 /\ 0 + 2 * 1 <= N /\ N - 1 \in Int
    BY Sizes, SMT
  <2> QED BY <1>6, <1>8, <2>1 DEF LoopShape
<1>12. Shape' /\ Accumulated'
  BY <1>6, <1>7 DEF IInv, Shape, Accumulated
<1> QED BY <1>9, <1>10, <1>11, <1>12 DEF IInv

(* A butterfly going back.                                                 *)
LEMMA StepInverseButterfly ==
  ASSUME IInv, InverseButterfly
  PROVE  IInv'
<1> DEFINE lo == len * Q
           hi == 2 * len * Q
           x == a[j]
           y == a[j + len]
           d == sub(x, y)
           t == montgomeryReduce(-zetas[k] * d)
<1>0. /\ len \in Lengths /\ len \in Int /\ len >= 1 /\ start \in Int /\ 0 <= start
      /\ j \in Int /\ start <= j /\ j < start + len /\ start + 2 * len <= N
      /\ k \in Int /\ j \in Index /\ j + len \in Index /\ j # j + len /\ pc = "inverse"
      /\ N \in Int
  BY Counters, Sizes DEF IInv, Looping, InverseButterfly, InverseBelow
<1>1. /\ lo \in Int /\ hi \in Int /\ hi = lo + lo /\ 0 <= lo /\ hi < Half /\ Q <= hi
      /\ hi <= N * Q /\ N * Q \in Int /\ N * Q < Half /\ Half \in Int /\ Q \in Int
  BY <1>0, LengthFacts, Sizes, SMT
<1>2. a \in [Index -> Int32] /\ x \in Int /\ y \in Int
  BY <1>0, Width DEF IInv, Shape
<1>3. Within(x, lo) /\ Within(y, lo)
  <2>1. ~Done(j) /\ ~Done(j + len)
    BY <1>0, SMT DEF Done
  <2> QED BY <1>0, <2>1 DEF IInv, Growth
<1>4. a' = [a EXCEPT ![j] = add(x, y), ![j + len] = t]
  BY DEF InverseButterfly, InverseBelow
<1>5. /\ add(x, y) \in Int32 /\ Within(add(x, y), hi)
      /\ d \in Int /\ Within(d, hi)
  <2> HIDE DEF lo, hi, x, y
  <2>1. /\ x + y \in Int /\ x - y \in Int /\ Within(x + y, hi) /\ Within(x - y, hi)
        /\ -Half <= x + y /\ x + y < Half /\ -Half <= x - y /\ x - y < Half
    BY <1>1, <1>2, <1>3, SMT DEF Within
  <2>2. add(x, y) = x + y /\ d = x - y
    BY <2>1, Int32Same DEF add, sub
  <2> QED BY <2>1, <2>2, Width
<1>6. t \in Int /\ Within(t, Q)
  <2> DEFINE z == zetas[k]
  <2>1. z \in Int /\ -Q <= z /\ z <= Q
    BY <1>0, ZetaInTable DEF IInv, Looping
  <2> HIDE DEF z, d, hi
  <2>2. -Half <= d /\ d <= Half
    BY <1>1, <1>5, SMT DEF Within
  <2>3. -z \in Int /\ -Q <= -z /\ -z <= Q /\ -z * d = (-z) * d
    BY <1>1, <1>5, <2>1, SMT
  <2>4. /\ montgomeryReduce((-z) * d) \in Int
        /\ Within(montgomeryReduce((-z) * d), Q)
    BY <1>5, <2>2, <2>3, ProductReduces
  <2> QED BY <2>3, <2>4 DEF z
<1> HIDE DEF t, d, x, y
<1>7. t \in Int32 /\ Within(t, hi)
  <2>1. Within(t, hi)
    BY <1>1, <1>6, SMT DEF Within
  <2> QED BY <1>1, <1>6, <2>1, Width
<1>8. a' \in [Index -> Int32]
  BY <1>2, <1>4, <1>5, <1>7
<1>9. Moved(a, a', hi, j, len, 1)
  <2> SUFFICES ASSUME NEW i \in Index
               PROVE  IF NowAt(i, j, len, 1) THEN Within(a'[i], hi) ELSE a'[i] = a[i]
    BY DEF Moved
  <2>1. i \in Int
    BY Sizes, SMT DEF Index
  <2>2. NowAt(i, j, len, 1) <=> (i = j \/ i = j + len)
    BY <1>0, <2>1, SMT DEF NowAt
  <2>3. a'[j] = add(x, y) /\ a'[j + len] = t
        /\ (i # j /\ i # j + len => a'[i] = a[i])
    BY <1>0, <1>2, <1>4
  <2> QED BY <1>5, <1>7, <2>2, <2>3
<1>10. Halfway(a, lo, hi, start, j, len)
  BY <1>0, GrowthAsBounds DEF IInv
<1>11. (k + 1) * (2 * len) + start = 2 * N /\ j + 1 <= start + len
  BY <1>0, SMT DEF IInv, ZetaOfBlock
<1>12. UNCHANGED <<job, hasAVX2, col, w>>
  BY DEF InverseButterfly, InverseBelow
<1> HIDE DEF lo, hi
<1>13. CASE ~LayerDone(1) /\ Advance(1, -1) /\ pc' = pc
  <2>1. len' = len
    BY <1>13 DEF Advance
  <2>2. CASE j + 1 < start + len
    <3>1. j' = j + 1 /\ start' = start /\ k' = k
      BY <1>13, <2>2 DEF Advance
    <3>2. Halfway(a', lo, hi, start', j', len)
      BY <1>0, <1>9, <1>10, <2>2, <3>1, BoundsMove
    <3>3. Growth'
      BY <1>0, <1>13, <2>1, <3>2, BoundsAsGrowth DEF lo, hi
    <3>4. ZetaOfBlock'
      BY <1>0, <1>11, <1>13, <2>1, <3>1 DEF ZetaOfBlock
    <3>5. j' \in Int /\ start' <= j' /\ j' < start' + len
      BY <1>0, <2>2, <3>1, SMT
    <3>6. LoopShape'
      BY <1>0, <1>13, <2>1, <3>1, <3>5 DEF LoopShape
    <3>7. Shape' /\ Accumulated'
      BY <1>0, <1>8, <1>12, <1>13 DEF IInv, Shape, Accumulated
    <3> QED BY <3>3, <3>4, <3>6, <3>7 DEF IInv
  <2>3. CASE j + 1 = start + len
    <3>1. start' = start + 2 * len /\ j' = start + 2 * len /\ k' = k + -1
      BY <1>0, <1>13, <2>3, SMT DEF Advance
    <3>2. start + 2 * len < N
      BY <1>0, <1>13, <2>3, SMT DEF LayerDone
    <3>3. Halfway(a', lo, hi, start', j', len)
      BY <1>0, <1>9, <1>10, <2>3, <3>1, BoundsMove
    <3>4. Growth'
      BY <1>0, <1>13, <2>1, <3>3, BoundsAsGrowth DEF lo, hi
    <3>5. (k' + 1) * (2 * len) + start' = 2 * N /\ k' \in Int
      <4>1. (k + 1) * (2 * len) = k * (2 * len) + 2 * len /\ k * (2 * len) \in Int
        BY <1>0, SMT
      <4>2. k' + 1 = k /\ k' \in Int
        BY <1>0, <3>1, SMT
      <4> QED BY <1>0, <1>11, <3>1, <4>1, <4>2, SMT
    <3>6. ZetaOfBlock'
      BY <1>0, <1>13, <2>1, <3>5 DEF ZetaOfBlock
    <3>7. start' + 2 * len <= N
      <4> DEFINE c == N \div (2 * len)
      <4>1. c \in Int /\ N = c * (2 * len)
        BY <1>0, NttAssumption, SMT
      <4> HIDE DEF c
      <4>2. start' \in Int /\ start' < N /\ 2 * c - k' - 1 \in Int
        BY <1>0, <3>1, <3>2, <3>5, <4>1, SMT
      <4>3. (2 * c - k' - 1) * (2 * len) = 2 * (c * (2 * len)) - (k' + 1) * (2 * len)
        BY <1>0, <3>5, <4>1, SMT
      <4>4. start' = (2 * c - k' - 1) * (2 * len)
        <5>1. (k' + 1) * (2 * len) \in Int
          BY <1>0, <3>5, SMT
        <5>2. 2 * (c * (2 * len)) = 2 * N
          BY <4>1
        <5> DEFINE p == (k' + 1) * (2 * len)
                   q == (2 * c - k' - 1) * (2 * len)
        <5>3. p \in Int /\ p + start' = 2 * N /\ q = 2 * N - p
          BY <3>5, <4>3, <5>1, <5>2
        <5> HIDE DEF p, q
        <5>4. \A u, v, n \in Int : (v + u = 2 * n) => (u = 2 * n - v)
          BY SMT
        <5>5. start' = q
          BY <1>0, <4>2, <5>3, <5>4
        <5> QED BY <5>5 DEF q
      <4> QED BY <1>0, <4>2, <4>4, BlockFits
    <3>8. start' \in Int /\ 0 <= start' /\ j' \in Int /\ start' <= j' /\ j' < start' + len
      BY <1>0, <3>1, SMT
    <3>9. LoopShape'
      BY <1>0, <1>13, <2>1, <3>5, <3>7, <3>8 DEF LoopShape
    <3>10. Shape' /\ Accumulated'
      BY <1>0, <1>8, <1>12, <1>13 DEF IInv, Shape, Accumulated
    <3> QED BY <3>4, <3>6, <3>9, <3>10 DEF IInv
  <2> QED BY <1>0, <2>2, <2>3, SMT
<1>14. ASSUME LayerDone(1)
       PROVE  Bounded(a', hi) /\ k * (2 * len) = N
  <2>1. j + 1 = start + len /\ start + 2 * len = N
    BY <1>0, <1>14, SMT DEF LayerDone
  <2>2. Bounded(a', hi)
    BY <1>0, <1>9, <1>10, <2>1, BoundsComplete
  <2>3. (k + 1) * (2 * len) = k * (2 * len) + 2 * len /\ k * (2 * len) \in Int
    BY <1>0, SMT
  <2> QED BY <1>0, <1>11, <2>1, <2>2, <2>3, SMT
<1>15. CASE LayerDone(1) /\ 2 * len < N /\ Layer(2 * len, k - 1) /\ pc' = pc
  <2> DEFINE l == 2 * len
  <2>1. l \in Lengths /\ l \in Int /\ l >= 1 /\ 2 * l <= N
    BY <1>0, <1>15, NttAssumption, LengthFacts
  <2>2. len' = l /\ start' = 0 /\ j' = 0 /\ k' = k - 1
    BY <1>15 DEF Layer
  <2>3. (k - 1 + 1) * (2 * l) + 0 = 2 * N
    <3>1. (k - 1 + 1) * (2 * l) = 2 * (k * (2 * len)) /\ k * (2 * len) \in Int
      BY <1>0, SMT
    <3> QED BY <1>14, <1>15, <3>1, Sizes, SMT
  <2>4. hi = l * Q
    BY DEF hi
  <2> HIDE DEF l
  <2>5. Halfway(a', l * Q, 2 * l * Q, 0, 0, l)
    BY <1>14, <1>15, <2>1, <2>4, BoundsStart
  <2>6. Growth'
    BY <1>0, <1>15, <2>2, <2>5, BoundsAsGrowth
  <2>7. ZetaOfBlock'
    BY <1>0, <1>15, <2>2, <2>3 DEF ZetaOfBlock
  <2>8. k - 1 \in Int /\ 0 \in Int /\ 0 <= 0 /\ 0 < 0 + l /\ 0 + 2 * l <= N
    BY <1>0, <2>1, SMT
  <2>9. LoopShape'
    BY <1>0, <1>15, <2>1, <2>2, <2>8 DEF LoopShape
  <2>10. Shape' /\ Accumulated'
    BY <1>0, <1>8, <1>12, <1>15 DEF IInv, Shape, Accumulated
  <2> QED BY <2>6, <2>7, <2>9, <2>10 DEF IInv
<1>16. CASE LayerDone(1) /\ 2 * len >= N /\ Layer(2 * len, k) /\ pc' = "scale"
  <2>1. hi = N * Q
    <3>1. 2 * len = N
      BY <1>0, <1>16, SMT
    <3> QED BY <3>1 DEF hi
  <2>2. j' = 0 /\ 0 \in Index /\ 0 \in Int
    <3>1. 0 \in Index /\ 0 \in Int
      BY Sizes, SMT DEF Index
    <3> QED BY <1>16, <3>1 DEF Layer
  <2>3. Growth'
    <3>1. \A i \in Index : ~(i < 0)
      BY Sizes, SMT DEF Index
    <3> QED BY <1>14, <1>16, <2>1, <2>2, <3>1 DEF Growth, Settled, Bounded
  <2>4. LoopShape' /\ ZetaOfBlock'
    BY <1>16, <2>2 DEF LoopShape, ZetaOfBlock, Looping
  <2>5. Shape' /\ Accumulated'
    BY <1>0, <1>8, <1>12, <1>16 DEF IInv, Shape, Accumulated
  <2> QED BY <2>3, <2>4, <2>5 DEF IInv
<1> QED BY <1>13, <1>15, <1>16 DEF InverseButterfly, InverseBelow

(* One coefficient of the last loop.                                       *)
LEMMA StepScale ==
  ASSUME IInv, Scale
  PROVE  IInv'
<1> DEFINE t == montgomeryReduce(F * a[j])
<1>0. pc = "scale" /\ j \in Index /\ j \in Int /\ 0 <= j /\ j < N
  <2>1. pc = "scale" /\ j \in Index
    BY DEF Scale, IInv, LoopShape
  <2> QED BY <2>1, Sizes, SMT DEF Index
<1>1. a \in [Index -> Int32] /\ a[j] \in Int /\ -Half <= a[j] /\ a[j] <= Half
  <2>1. a \in [Index -> Int32] /\ a[j] \in Int32
    BY <1>0 DEF IInv, Shape
  <2>2. a[j] \in Int /\ -Half <= a[j] /\ a[j] < Half
    BY <2>1, Width
  <2> QED BY <2>1, <2>2, Sizes, SMT
<1>2. t \in Int /\ Within(t, Q) /\ t \in Int32
  <2>1. F \in Int /\ -Q <= F /\ F <= Q
    BY Sizes, SMT
  <2>2. t \in Int /\ Within(t, Q)
    BY <1>1, <2>1, ProductReduces
  <2> QED BY <2>2, Sizes, Width
<1> DEFINE b == (Half + N * F) * Q
<1>10. Within(R * t, b)
  <2>1. Within(a[j], N * Q) /\ ~(j < j)
    <3>1. ~(j < j)
      BY <1>0, SMT
    <3> QED BY <1>0, <3>1 DEF IInv, Growth
  <2>2. /\ F \in Nat /\ F <= Q /\ N \in Nat /\ Q \in Nat /\ Half \in Nat
        /\ N * Q \in Int /\ N * Q < Half
    BY Sizes, Constants, WidthAssumption, SMT
  <2> DEFINE g == F * (N * Q)
  <2>3. /\ F * a[j] \in Int /\ g \in Int
        /\ -g <= F * a[j] /\ F * a[j] <= g
    <3>1. (-(N * Q)) * F <= a[j] * F /\ a[j] * F <= (N * Q) * F
      BY <1>1, <2>1, <2>2, Monotone, SMT DEF Within
    <3>2. (-(N * Q)) * F = -((N * Q) * F) /\ a[j] * F = F * a[j]
          /\ (N * Q) * F = F * (N * Q) /\ F * a[j] \in Int /\ F * (N * Q) \in Int
      BY <1>1, <2>2, SMT
    <3> QED BY <3>1, <3>2, SMT
  <2>4. g <= Half * Q /\ Half * Q \in Int
    <3>1. (N * Q) * F <= Half * F /\ F * Half <= Q * Half
      BY <2>2, Monotone, SMT
    <3>2. Half * F = F * Half /\ Half * F \in Int
      BY <2>2, SMT
    <3>3. Q * Half = Half * Q /\ Half * Q \in Int
      BY <2>2, SMT
    <3>4. g = (N * Q) * F /\ g \in Int
      BY <2>2, SMT
    <3> DEFINE u == Half * F
               z == Half * Q
    <3>5. g <= u /\ u <= z
      BY <3>1, <3>2, <3>3, <3>4
    <3>6. u \in Int /\ z \in Int
      BY <3>2, <3>3
    <3> HIDE DEF u, g, z
    <3>7. g <= z
      BY <3>4, <3>5, <3>6
    <3> QED BY <3>6, <3>7 DEF z
  <2>5. b = Half * Q + g
    BY <2>2, SMT
  <2> HIDE DEF g, b
  <2>6. -(Half * Q) <= F * a[j] /\ F * a[j] <= Half * Q
    BY <2>3, <2>4, SMT
  <2>7. -(Half * Q + g) <= R * t /\ R * t <= Half * Q + g
    BY <2>3, <2>6, MontgomerySettles
  <2> QED BY <2>5, <2>7 DEF Within
<1> HIDE DEF b
<1>3. a' = [a EXCEPT ![j] = t]
  BY DEF Scale
<1> HIDE DEF t
<1>4. a' \in [Index -> Int32]
  BY <1>1, <1>2, <1>3
<1>5. ASSUME NEW i \in Index
      PROVE  /\ i < j + 1 => Within(a'[i], Q)
             /\ ~(i < j + 1) => Within(a'[i], N * Q)
             /\ i < j + 1 => Within(R * a'[i], b)
  <2>1. i \in Int
    BY Sizes, SMT DEF Index
  <2>2. CASE i = j
    <3>1. a'[i] = t /\ i < j + 1
      BY <1>0, <1>1, <1>3, <2>1, <2>2, SMT
    <3> QED BY <1>2, <1>10, <3>1
  <2>3. CASE i # j
    <3>1. a'[i] = a[i]
      BY <1>1, <1>3, <2>3
    <3>2. i < j + 1 <=> i < j
      BY <1>0, <2>1, <2>3, SMT
    <3>3. Within(a[i], IF i < j THEN Q ELSE N * Q)
      BY <1>0 DEF IInv, Growth
    <3>6. i < j => Within(R * a[i], b)
      BY <1>0 DEF IInv, Growth, Settled, b
    <3>4. CASE i < j
      BY <3>1, <3>2, <3>3, <3>4, <3>6
    <3>5. CASE ~(i < j)
      BY <3>1, <3>2, <3>3, <3>5
    <3> QED BY <3>4, <3>5
  <2> QED BY <2>2, <2>3
<1>6. /\ j' = j + 1 /\ UNCHANGED <<job, hasAVX2, col, w>>
      /\ pc' = IF j + 1 < N THEN "scale" ELSE "done"
  BY DEF Scale
<1>7. Shape' /\ Accumulated' /\ ZetaOfBlock'
  BY <1>4, <1>6 DEF IInv, Shape, Accumulated, ZetaOfBlock
<1>8. CASE j + 1 < N
  <2>1. j + 1 \in Index /\ j + 1 \in Int
    BY <1>0, <1>8, Sizes, SMT DEF Index
  <2>2. LoopShape'
    BY <1>6, <1>8, <2>1 DEF LoopShape, Looping
  <2>3. Growth'
    BY <1>5, <1>6, <1>8 DEF Growth, Settled, b
  <2> QED BY <1>7, <2>2, <2>3 DEF IInv
<1>9. CASE ~(j + 1 < N)
  <2>1. \A i \in Index : i < j + 1
    BY <1>0, <1>9, Sizes, SMT DEF Index
  <2>2. LoopShape'
    BY <1>6, <1>9 DEF LoopShape, Looping
  <2>3. Growth'
    BY <1>5, <1>6, <1>9, <2>1 DEF Growth, Settled, b
  <2> QED BY <1>7, <2>2, <2>3 DEF IInv
<1> QED BY <1>8, <1>9

-----------------------------------------------------------------------------
(* The invariant, and what it gives.                                       *)

(* It holds at the start.                                                  *)
LEMMA Initially ==
  ASSUME Init
  PROVE  IInv
<1>1. 0 \in Int32
  BY Width, Constants, SMT
<1>2. Len(job.cols) \in Nat \ {0}
  BY DEF Init, JobOK
<1>3. 1 \in 1 .. Len(job.cols) /\ ~(1 > 1)
  BY <1>2, SMT
<1>4. Shape
  BY <1>1, <1>3 DEF Init, Shape
<1>5. LoopShape /\ ZetaOfBlock /\ Growth
  BY DEF Init, LoopShape, ZetaOfBlock, Growth, Settled, Looping
<1>6. Accumulated
  BY <1>3 DEF Init, Accumulated
<1> QED BY <1>4, <1>5, <1>6 DEF IInv

(* A step that changes nothing keeps it.                                   *)
LEMMA Unchanged ==
  ASSUME IInv, UNCHANGED vars
  PROVE  IInv'
BY DEF vars, IInv, Shape, LoopShape, ZetaOfBlock, Growth, Settled, Accumulated, Looping, Done

(* The inductive invariant: counters, zetas, growth and accumulated sum.   *)
THEOREM Invariance == Spec => []IInv
<1>1. Init => IInv
  BY Initially
<1>2. IInv /\ [Next]_vars => IInv'
  BY StepNTT, StepButterfly, StepVectorButterfly, StepPointwise, StepInvNTT,
     StepInverseButterfly, StepScale, Unchanged DEF Next
<1> QED BY <1>1, <1>2, PTL DEF Spec

(* Every index of the loops is one of the array and of the table, for any  *)
(* size, with and without the vector code.                                 *)
THEOREM Typed == Spec => []TypeOK
<1>1. IInv => TypeOK
  <2> SUFFICES ASSUME IInv PROVE TypeOK
    OBVIOUS
  <2>1. ASSUME Looping
        PROVE  /\ len \in Lengths
               /\ start \in Index /\ j \in start .. start + len - 1
               /\ j + len \in Index /\ k \in 1 .. N - 1
    <3>1. /\ len \in Lengths /\ len \in Int /\ len >= 1 /\ start \in Int /\ 0 <= start
          /\ j \in Int /\ start <= j /\ j < start + len /\ start + 2 * len <= N
          /\ j + len \in Index
      BY <2>1, Counters DEF IInv
    <3>2. k \in 1 .. N - 1
      BY <2>1, ZetaInTable DEF IInv
    <3>3. start \in Index /\ j \in start .. start + len - 1
      BY <3>1, Sizes, SMT DEF Index
    <3> QED BY <3>1, <3>2, <3>3
  <2> QED BY <2>1 DEF IInv, Shape, LoopShape, TypeOK
<1> QED BY <1>1, Invariance, PTL

(* Every block gets its own zeta, for any size.                            *)
THEOREM ZetasMatch == Spec => []ZetaOfBlock
<1>1. IInv => ZetaOfBlock
  BY DEF IInv
<1> QED BY <1>1, Invariance, PTL

(* No sum of the transforms leaves an int32, for any size and any input.   *)
THEOREM NoOverflow == Spec => []Growth
<1>1. IInv => Growth
  BY DEF IInv
<1> QED BY <1>1, Invariance, PTL
-----------------------------------------------------------------------------
(* The transforms over the field.                                          *)

(* Numbers with the same residue modulo Q.                                 *)
Cong(x, y) == \E m \in Int : x = y + m * Q

(* They are those that differ by a multiple.                               *)
LEMMA CongEqual ==
  ASSUME NEW x \in Int, NEW y \in Int
  PROVE  /\ Cong(x, y) <=> x % Q = y % Q
         /\ Cong(x, x % Q) /\ Cong(x % Q, x) /\ x % Q \in 0 .. Q - 1 /\ x % Q \in Int
<1>0. Q \in Int /\ Q \in Nat /\ Q > 0
  BY Constants
<1> DEFINE p == x \div Q
           q == y \div Q
           r == x % Q
           s == y % Q
<1>1. /\ p \in Int /\ r \in Int /\ 0 <= r /\ r < Q /\ x = p * Q + r
      /\ q \in Int /\ s \in Int /\ 0 <= s /\ s < Q /\ y = q * Q + s
  BY <1>0, DivMod
<1> HIDE DEF p, q, r, s
<1>2. ASSUME Cong(x, y) PROVE r = s
  <2>1. PICK m \in Int : x = y + m * Q
    BY <1>2 DEF Cong
  <2>2. /\ (q + m) * Q = q * Q + m * Q /\ q + m \in Int
        /\ q * Q \in Int /\ m * Q \in Int /\ p * Q \in Int
    BY <1>0, <1>1, <2>1, SMT
  <2>3. p * Q + r = (q + m) * Q + s
    BY <1>0, <1>1, <2>1, <2>2, SMT
  <2>4. p = q + m
    BY <1>0, <1>1, <2>2, <2>3, Unique, SMT
  <2> QED BY <1>1, <2>2, <2>3, <2>4, SMT
<1>3. ASSUME r = s PROVE Cong(x, y)
  <2>1. (p - q) * Q = p * Q - q * Q /\ p * Q \in Int /\ q * Q \in Int /\ p - q \in Int
    BY <1>0, <1>1, SMT
  <2>2. x = y + (p - q) * Q
    BY <1>1, <1>3, <2>1, SMT
  <2> QED BY <2>1, <2>2 DEF Cong
<1>4. Cong(x, r)
  <2>1. x = r + p * Q
    BY <1>0, <1>1, SMT
  <2> QED BY <1>1, <2>1 DEF Cong
<1>5. Cong(r, x)
  <2>1. (-p) * Q = -(p * Q) /\ p * Q \in Int /\ -p \in Int
    BY <1>0, <1>1, SMT
  <2>2. r = x + (-p) * Q
    BY <1>1, <2>1, SMT
  <2> QED BY <2>1, <2>2 DEF Cong
<1>6. r \in 0 .. Q - 1
  BY <1>0, <1>1, SMT
<1> QED BY <1>1, <1>2, <1>3, <1>4, <1>5, <1>6 DEF r, s

(* Sums, differences and negatives of congruent numbers are congruent.     *)
LEMMA CongSum ==
  ASSUME NEW x \in Int, NEW y \in Int, NEW u \in Int, NEW v \in Int,
         Cong(x, y), Cong(u, v)
  PROVE  Cong(x + u, y + v) /\ Cong(x - u, y - v) /\ Cong(-x, -y)
<1>0. Q \in Int
  BY Constants
<1>1. PICK m \in Int : x = y + m * Q
  BY DEF Cong
<1>2. PICK n \in Int : u = v + n * Q
  BY DEF Cong
<1>3. /\ (m + n) * Q = m * Q + n * Q /\ (m - n) * Q = m * Q - n * Q
      /\ (-m) * Q = -(m * Q)
      /\ m * Q \in Int /\ n * Q \in Int /\ m + n \in Int /\ m - n \in Int /\ -m \in Int
  BY <1>0, SMT
<1>4. /\ x + u = (y + v) + (m + n) * Q
      /\ x - u = (y - v) + (m - n) * Q
      /\ -x = -y + (-m) * Q
  BY <1>1, <1>2, <1>3, SMT
<1> QED BY <1>3, <1>4 DEF Cong

(* So are products.                                                        *)
LEMMA CongProduct ==
  ASSUME NEW x \in Int, NEW y \in Int, NEW u \in Int, NEW v \in Int,
         Cong(x, y), Cong(u, v)
  PROVE  Cong(x * u, y * v)
<1>0. Q \in Int
  BY Constants
<1>1. PICK m \in Int : x = y + m * Q
  BY DEF Cong
<1>2. PICK n \in Int : u = v + n * Q
  BY DEF Cong
<1>3. x * u = y * v + (m * u + y * n) * Q
  <2>1. x * u = y * u + m * Q * u
    BY <1>0, <1>1, SMT
  <2>2. y * u = y * v + y * (n * Q)
    BY <1>0, <1>2, SMT
  <2>3. (m * u + y * n) * Q = m * Q * u + y * (n * Q)
    BY <1>0, SMT
  <2>4. m * Q * u \in Int /\ y * u \in Int /\ y * v \in Int /\ y * (n * Q) \in Int /\ x * u \in Int
    BY <1>0, SMT
  <2> HIDE DEF Cong
  <2>5. \A c1, c2, c3, c4, c5, c6 \in Int :
          (c1 = c2 + c3 /\ c2 = c4 + c5 /\ c6 = c3 + c5) => c1 = c4 + c6
    BY SMT
  <2>6. (m * u + y * n) * Q \in Int
    BY <1>0, SMT
  <2> QED BY <2>1, <2>2, <2>3, <2>4, <2>5, <2>6
<1>4. m * u + y * n \in Int
  BY SMT
<1> QED BY <1>3, <1>4 DEF Cong

(* Congruence is an equivalence.                                           *)
LEMMA CongTrans ==
  ASSUME NEW x \in Int, NEW y \in Int, NEW z \in Int, Cong(x, y), Cong(y, z)
  PROVE  Cong(x, z) /\ Cong(y, x) /\ Cong(x, x)
BY CongEqual

(* R has an inverse modulo Q.                                              *)
LEMMA CancelR ==
  ASSUME NEW x \in Int, NEW y \in Int, Cong(x * R, R * y)
  PROVE  Cong(x, y)
<1>0. Q \in Int /\ R \in Int /\ QInv \in Int
  BY Constants
<1>1. PICK c \in Int : Q * QInv = 1 + c * R
  BY ReductionAssumption, Constants, SMT
<1>2. PICK m \in Int : x * R = R * y + m * Q
  BY DEF Cong
<1> DEFINE d == x - y
<1>3. d \in Int /\ x = y + d
  BY SMT
<1> HIDE DEF d
<1>4. d * R = m * Q
  <2>1. x * R = R * y + d * R
    BY <1>0, <1>3, SMT
  <2>2. R * y \in Int /\ d * R \in Int /\ m * Q \in Int
    BY <1>0, <1>3, SMT
  <2>3. \A u, v, n \in Int : (u + v = u + n) => v = n
    BY SMT
  <2> QED BY <1>2, <2>1, <2>2, <2>3
<1>5. d * (c * R) = (c * m) * Q
  <2>1. d * (c * R) = c * (d * R) /\ c * (m * Q) = (c * m) * Q
    BY <1>0, <1>3, SMT
  <2> QED BY <1>4, <2>1
<1>6. d * (Q * QInv) = d + d * (c * R)
  <2>1. d * (1 + c * R) = d + d * (c * R)
    BY <1>0, <1>3, SMT
  <2> QED BY <1>1, <2>1
<1>7. d = (d * QInv - c * m) * Q
  <2>1. d * (Q * QInv) = (d * QInv) * Q /\ d * (Q * QInv) \in Int /\ (c * m) * Q \in Int
        /\ (d * QInv - c * m) * Q = (d * QInv) * Q - (c * m) * Q
    BY <1>0, <1>3, SMT
  <2> QED BY <1>3, <1>5, <1>6, <2>1, SMT
<1>8. x = y + (d * QInv - c * m) * Q /\ d * QInv - c * m \in Int
  BY <1>0, <1>3, <1>7, SMT
<1> QED BY <1>8 DEF Cong

(* The reduced product with a table entry that stands for p is p times the *)
(* other factor.                                                           *)
LEMMA ReducedProduct ==
  ASSUME NEW z \in Int, -Q <= z, z <= Q, NEW x \in Int, -Half <= x, x <= Half,
         NEW p \in Int, z % Q = ((R % Q) * p) % Q
  PROVE  montgomeryReduce(z * x) \in Int /\ Cong(montgomeryReduce(z * x), p * x)
<1> DEFINE r == montgomeryReduce(z * x)
           g == R % Q
<1>0. /\ Q \in Int /\ R \in Int /\ Half \in Int
      /\ z * x \in Int /\ p * x \in Int /\ R * (p * x) \in Int
  BY Constants, SMT
<1>1. r \in Int /\ \E t \in Int : r * R = z * x - t * Q
  <2>1. -(Half * Q) <= z * x /\ z * x <= Half * Q
    BY ProductRange
  <2> QED BY <1>0, <2>1, MontgomeryCorrect
<1>2. PICK t \in Int : r * R = z * x - t * Q
  BY <1>1
<1> HIDE DEF r
<1>3. g \in Int /\ Cong(g, R)
  BY <1>0, CongEqual
<1> HIDE DEF g
<1>4. Cong(z, g * p)
  <2>1. g * p \in Int
    BY <1>3, SMT
  <2> QED BY <2>1, CongEqual DEF g
<1>5. Cong(g * p, R * p) /\ g * p \in Int /\ R * p \in Int
  <2>1. Cong(p, p)
    BY CongEqual
  <2>2. g * p \in Int /\ R * p \in Int
    BY <1>0, <1>3, SMT
  <2> QED BY <1>0, <1>3, <2>1, <2>2, CongProduct
<1>6. Cong(z, R * p)
  BY <1>4, <1>5, CongTrans
<1>7. Cong(z * x, (R * p) * x)
  <2>1. Cong(x, x)
    BY CongEqual
  <2> QED BY <1>5, <1>6, <2>1, CongProduct
<1>8. Cong(r * R, z * x)
  <2>1. r * R = z * x + (-t) * Q /\ -t \in Int
    <3>1. (-t) * Q = -(t * Q) /\ t * Q \in Int /\ -t \in Int
      BY <1>0, SMT
    <3> QED BY <1>0, <1>2, <3>1, SMT
  <2> QED BY <2>1 DEF Cong
<1>9. (R * p) * x = R * (p * x) /\ r * R \in Int
  BY <1>0, <1>1, SMT DEF r
<1>10. Cong(r * R, R * (p * x))
  BY <1>0, <1>7, <1>8, <1>9, CongTrans
<1> QED BY <1>0, <1>1, <1>10, CancelR DEF r

(* A sum of the field is the residue of the sum.                           *)
LEMMA FieldSum ==
  ASSUME NEW x \in Int, NEW y \in Int
  PROVE  (x + y) % Q = ((x % Q) + (y % Q)) % Q
<1> DEFINE r == x % Q
           s == y % Q
<1>1. r \in Int /\ s \in Int /\ Cong(x, r) /\ Cong(y, s)
  BY CongEqual
<1> HIDE DEF r, s
<1>2. Cong(x + y, r + s) /\ x + y \in Int /\ r + s \in Int
  BY <1>1, CongSum, SMT
<1>3. (x + y) % Q = (r + s) % Q
  BY <1>2, CongEqual
<1> QED BY <1>3 DEF r, s

(* t is p*y in the field.                                                  *)
Represents(t, p, y) == Cong(t, p * y)

(* A forward butterfly of the field.                                       *)
LEMMA FieldButterfly ==
  ASSUME NEW x \in Int, NEW y \in Int, NEW p \in Int, NEW t \in Int, Represents(t, p, y)
  PROVE  /\ (x + t) % Q = ((x % Q) + p * (y % Q)) % Q
         /\ (x - t) % Q = ((x % Q) - p * (y % Q)) % Q
<1> DEFINE r == x % Q
           s == y % Q
<1>1. r \in Int /\ s \in Int /\ Cong(x, r) /\ Cong(y, s) /\ Cong(p, p)
  BY CongEqual
<1> HIDE DEF r, s
<1>2. p * y \in Int /\ p * s \in Int /\ x + t \in Int /\ x - t \in Int
      /\ r + p * s \in Int /\ r - p * s \in Int
  BY <1>1, SMT
<1>3. Cong(t, p * s)
  <2>1. Cong(p * y, p * s)
    BY <1>1, CongProduct
  <2> QED BY <1>2, <2>1, CongTrans DEF Represents
<1>4. Cong(x + t, r + p * s) /\ Cong(x - t, r - p * s)
  BY <1>1, <1>2, <1>3, CongSum
<1>5. (x + t) % Q = (r + p * s) % Q /\ (x - t) % Q = (r - p * s) % Q
  BY <1>2, <1>3, <1>4, CongEqual
<1> QED BY <1>5 DEF r, s

(* The product of the last loop.                                           *)
LEMMA FieldScaled ==
  ASSUME NEW y \in Int, NEW p \in Int, NEW t \in Int, Cong(t, p * y)
  PROVE  t % Q = ((y % Q) * p) % Q
<1> DEFINE s == y % Q
<1>1. s \in Int /\ Cong(y, s) /\ Cong(p, p)
  BY CongEqual
<1> HIDE DEF s
<1>2. p * y \in Int /\ p * s \in Int /\ s * p = p * s
  BY <1>1, SMT
<1>3. Cong(t, p * s)
  <2>1. Cong(p * y, p * s)
    BY <1>1, CongProduct
  <2> QED BY <1>2, <2>1, CongTrans
<1>4. t % Q = (s * p) % Q
  BY <1>2, <1>3, CongEqual
<1> QED BY <1>4 DEF s

(* The product of a butterfly going back.                                  *)
LEMMA FieldDifference ==
  ASSUME NEW x \in Int, NEW y \in Int, NEW p \in Int, NEW t \in Int,
         Cong(t, p * (x - y))
  PROVE  t % Q = (p * ((x % Q) - (y % Q))) % Q
<1> DEFINE r == x % Q
           s == y % Q
<1>1. r \in Int /\ s \in Int /\ Cong(x, r) /\ Cong(y, s) /\ Cong(p, p)
  BY CongEqual
<1> HIDE DEF r, s
<1>2. Cong(x - y, r - s) /\ x - y \in Int /\ r - s \in Int
  BY <1>1, CongSum, SMT
<1>3. Cong(p * (x - y), p * (r - s)) /\ p * (x - y) \in Int /\ p * (r - s) \in Int
  BY <1>1, <1>2, CongProduct, SMT
<1>4. Cong(t, p * (r - s))
  BY <1>3, CongTrans
<1>5. t % Q = (p * (r - s)) % Q
  BY <1>3, <1>4, CongEqual
<1> QED BY <1>5 DEF r, s

-----------------------------------------------------------------------------
(* The butterflies still to do.                                            *)

(* Blocks begin at multiples of 2*l.                                       *)
BlockStart(s, l) == \E b \in Int : s = b * (2 * l)

(* The block after one.                                                    *)
LEMMA NextBlock ==
  ASSUME NEW l \in Int, NEW s \in Int, BlockStart(s, l)
  PROVE  BlockStart(s + 2 * l, l)
<1>1. PICK b \in Int : s = b * (2 * l)
  BY DEF BlockStart
<1>2. s + 2 * l = (b + 1) * (2 * l) /\ b + 1 \in Int
  BY <1>1, SMT
<1> QED BY <1>2 DEF BlockStart

(* The place of an index in its block, and the block's number.             *)
LEMMA InBlock ==
  ASSUME NEW l \in Int, l >= 1, NEW s \in Int,
         NEW x \in Int, s <= x, x < s + 2 * l
  PROVE  /\ BlockStart(s, l) => x % (2 * l) = x - s
         /\ \A b \in Int : (s = b * (2 * l)) => x \div (2 * l) = b
<1>1. 2 * l \in Nat /\ 2 * l > 0 /\ x - s \in Int /\ 0 <= x - s /\ x - s < 2 * l
  BY SMT
<1>2. ASSUME NEW b \in Int, s = b * (2 * l)
      PROVE  x % (2 * l) = x - s /\ x \div (2 * l) = b
  <2>1. b * (2 * l) + (x - s) = x
    BY <1>1, <1>2, SMT
  <2> QED BY <1>1, <2>1, DivUnique
<1> QED BY <1>2 DEF BlockStart

(* The n butterflies from p on ...                                         *)
Run(p, n) == p .. p + n - 1

(* ... lie in the block that begins at s ...                               *)
Fits(l, s, p, n) ==
  /\ l >= 1 /\ BlockStart(s, l) /\ 0 <= s /\ s + 2 * l <= N
  /\ n >= 1 /\ s <= p /\ p + n <= s + l

(* ... and are followed by the one at p2 in their layer, or by none.       *)
FollowedBy(l, s, p, n, p2) ==
  \/ p + n < s + l /\ p2 = p + n
  \/ p + n = s + l /\ p2 = s + 2 * l /\ s + 2 * l < N

LastOf(l, s, p, n) == p + n = s + l /\ s + 2 * l = N

(* What a step inside a layer takes away from them ...                     *)
LEMMA TodoShrinks ==
  ASSUME NEW l \in Int, NEW s \in Int, NEW p \in Int, NEW n \in Int, Fits(l, s, p, n),
         NEW p2 \in Int, FollowedBy(l, s, p, n, p2)
  PROVE  /\ StillToDo(l, p2) \subseteq StillToDo(l, p)
         /\ StillToDo(l, p) \ StillToDo(l, p2) = Run(p, n)
         /\ p2 \in StillToDo(l, p2)
<1> DEFINE now == p .. p + n - 1
<1>0. /\ N \in Int /\ l >= 1 /\ BlockStart(s, l) /\ 0 <= s /\ s + 2 * l <= N
      /\ n >= 1 /\ s <= p /\ p + n <= s + l
      /\ \/ p + n < s + l /\ p2 = p + n
         \/ p + n = s + l /\ p2 = s + 2 * l /\ s + 2 * l < N
  BY Sizes DEF Fits, FollowedBy
<1>1. \A x \in now : /\ x \in Int /\ s <= x /\ x < s + l /\ x < s + 2 * l /\ x >= p /\ x < p + n
  BY <1>0, SMT
<1>2. \A x \in now : x \in Index /\ x < p2
  BY <1>0, <1>1, SMT DEF Index
<1>3. \A x \in now : x % (2 * l) < l
  <2> SUFFICES ASSUME NEW x \in now PROVE x % (2 * l) < l
    OBVIOUS
  <2>1. x \in Int /\ s <= x /\ x < s + l /\ x < s + 2 * l
    BY <1>1
  <2>2. x % (2 * l) = x - s
    BY <1>0, <2>1, InBlock
  <2> QED BY <1>0, <2>1, <2>2, SMT
<1>4. \A x \in now : x \in StillToDo(l, p) /\ x \notin StillToDo(l, p2)
  <2> SUFFICES ASSUME NEW x \in now PROVE x \in StillToDo(l, p) /\ x \notin StillToDo(l, p2)
    OBVIOUS
  <2>1. x \in Int /\ x \in Index /\ x < p2 /\ x >= p /\ x % (2 * l) < l
    BY <1>1, <1>2, <1>3
  <2>2. ~(x >= p2)
    BY <1>0, <2>1, SMT
  <2> QED BY <2>1, <2>2 DEF StillToDo
<1>5. ASSUME NEW x \in StillToDo(l, p), x \notin StillToDo(l, p2)
      PROVE  x \in now
  <2>1. x \in Index /\ x % (2 * l) < l /\ x >= p
    BY <1>5 DEF StillToDo
  <2>2. x \in Int /\ ~(x >= p2)
    <3>1. x \in Int
      BY <1>0, <2>1, Sizes, SMT DEF Index
    <3> QED BY <1>5, <2>1, <3>1 DEF StillToDo
  <2>3. x < p + n
    <3>1. CASE p + n < s + l /\ p2 = p + n
      BY <1>0, <2>2, <3>1, SMT
    <3>2. CASE p + n = s + l /\ p2 = s + 2 * l
      <4>1. s <= x /\ x < s + 2 * l
        BY <1>0, <2>1, <2>2, <3>2, SMT
      <4>2. x % (2 * l) = x - s
        BY <1>0, <2>2, <4>1, InBlock
      <4> QED BY <1>0, <2>1, <2>2, <3>2, <4>2, SMT
    <3> QED BY <1>0, <3>1, <3>2
  <2> QED BY <1>0, <2>1, <2>2, <2>3, SMT
<1>6. StillToDo(l, p2) \subseteq StillToDo(l, p)
  <2> SUFFICES ASSUME NEW x \in StillToDo(l, p2) PROVE x \in StillToDo(l, p)
    OBVIOUS
  <2>1. x \in Index /\ x % (2 * l) < l /\ x >= p2
    BY DEF StillToDo
  <2>2. x \in Int
    BY <1>0, <2>1, Sizes, SMT DEF Index
  <2>3. x >= p
    BY <1>0, <2>1, <2>2, SMT
  <2> QED BY <2>1, <2>3 DEF StillToDo
<1>8. p2 \in StillToDo(l, p2)
  <2>1. p2 \in Index /\ p2 >= p2
    BY <1>0, SMT DEF Index
  <2>2. p2 % (2 * l) < l
    <3>1. CASE p + n < s + l /\ p2 = p + n
      <4>1. s <= p2 /\ p2 < s + 2 * l
        BY <1>0, <3>1, SMT
      <4>2. p2 % (2 * l) = p2 - s
        BY <1>0, <4>1, InBlock
      <4> QED BY <1>0, <3>1, <4>2, SMT
    <3>2. CASE p2 = s + 2 * l
      <4>1. BlockStart(p2, l) /\ p2 < p2 + 2 * l
        BY <1>0, <3>2, NextBlock, SMT
      <4>2. p2 % (2 * l) = p2 - p2
        BY <1>0, <4>1, InBlock
      <4> QED BY <1>0, <3>2, <4>2, SMT
    <3> QED BY <1>0, <3>1, <3>2
  <2> QED BY <2>1, <2>2 DEF StillToDo
<1> HIDE DEF now
<1>10. StillToDo(l, p) \ StillToDo(l, p2) = now
  BY <1>4, <1>5
<1> QED BY <1>6, <1>8, <1>10 DEF now, Run

(* ... and what the last step of a layer finds.                            *)
LEMMA TodoEnds ==
  ASSUME NEW l \in Int, NEW s \in Int, NEW p \in Int, NEW n \in Int, Fits(l, s, p, n),
         LastOf(l, s, p, n)
  PROVE  StillToDo(l, p) = Run(p, n)
<1> DEFINE now == p .. p + n - 1
<1>0. /\ N \in Int /\ l >= 1 /\ BlockStart(s, l) /\ 0 <= s
      /\ n >= 1 /\ s <= p /\ p + n = s + l /\ s + 2 * l = N
  BY Sizes DEF Fits, LastOf
<1>1. ASSUME NEW x \in now PROVE x \in StillToDo(l, p)
  <2>1. x \in Int /\ s <= x /\ x < s + l /\ x < s + 2 * l /\ x >= p
    BY <1>0, SMT
  <2>2. x \in Index
    BY <1>0, <2>1, SMT DEF Index
  <2>3. x % (2 * l) = x - s
    BY <1>0, <2>1, InBlock
  <2>4. x % (2 * l) < l
    BY <1>0, <2>1, <2>3, SMT
  <2> QED BY <2>1, <2>2, <2>4 DEF StillToDo
<1>2. ASSUME NEW x \in StillToDo(l, p) PROVE x \in now
  <2>1. x \in Index /\ x % (2 * l) < l /\ x >= p
    BY DEF StillToDo
  <2>2. x \in Int /\ x < N
    BY <1>0, <2>1, Sizes, SMT DEF Index
  <2>3. s <= x /\ x < s + 2 * l
    BY <1>0, <2>1, <2>2, SMT
  <2>4. x % (2 * l) = x - s
    BY <1>0, <2>2, <2>3, InBlock
  <2> QED BY <1>0, <2>1, <2>2, <2>4, SMT
<1> HIDE DEF now
<1>3. StillToDo(l, p) = now
  BY <1>1, <1>2
<1> QED BY <1>3 DEF now, Run

(* A layer begins with all its butterflies.                                *)
LEMMA TodoStarts ==
  ASSUME NEW l
  PROVE  StillToDo(l, 0) = NttField!Pairs(l)
<1>1. \A x \in Index : x >= 0
  BY Sizes, SMT DEF Index
<1>2. NttField!Index = Index
  BY DEF NttField!Index, Index
<1> QED BY <1>1, <1>2 DEF StillToDo, NttField!Pairs

-----------------------------------------------------------------------------
(* The steps, as steps of the field.                                       *)

(* Some butterflies of a forward layer, on integers, with a factor that    *)
(* stands for z.                                                           *)
Butterflies(l, p, n, z, v, u) ==
  \A i \in Run(p, n) :
    /\ Powers[NttField!Exponent[NttField!NodeOf(l, i)]] = z
    /\ \E t \in Int : Represents(t, z, v[i + l]) /\ u[i] = v[i] + t /\ u[i + l] = v[i] - t

(* They are butterflies of the field.                                      *)
LEMMA ForwardWork ==
  ASSUME NEW l \in Int, NEW p \in Int, NEW n \in Int, 0 <= p, n >= 1, n <= l,
         p + l + n <= N, NEW z \in Int,
         NEW v \in [Index -> Int], NEW u \in [Index -> Int],
         Butterflies(l, p, n, z, v, u),
         \A i \in Index : ~NowAt(i, p, l, n) => u[i] = v[i]
  PROVE  [i \in Index |-> u[i] % Q]
           = NttField!Forward([i \in Index |-> v[i] % Q], l, Run(p, n))
<1> DEFINE now == Run(p, n)
           f == [i \in Index |-> v[i] % Q]
           new(i) == IF i \in now
                     THEN (f[i] + Powers[NttField!Exponent[NttField!NodeOf(l, i)]] * f[i + l]) % Q
                     ELSE IF i >= l /\ i - l \in now
                     THEN (f[i - l]
                             - Powers[NttField!Exponent[NttField!NodeOf(l, i - l)]] * f[i]) % Q
                     ELSE f[i]
<1>0. N \in Int /\ NttField!Index = Index
  BY Sizes DEF NttField!Index, Index
<1>1. /\ \A i \in now : /\ i \in Int /\ i \in Index /\ i + l \in Index /\ i + l - l = i
                        /\ i + l >= l /\ i + l \notin now
      /\ \A i \in Index : /\ i \in Int
                          /\ NowAt(i, p, l, n) <=> (i \in now \/ i - l \in now)
                          /\ i - l \in now => (i >= l /\ i - l + l = i)
  BY <1>0, SMT DEF Index, NowAt, Run
<1>2. ASSUME NEW i \in now
      PROVE  u[i] % Q = (f[i] + z * f[i + l]) % Q /\ u[i + l] % Q = (f[i] - z * f[i + l]) % Q
  <2>1. PICK t \in Int : Represents(t, z, v[i + l]) /\ u[i] = v[i] + t /\ u[i + l] = v[i] - t
    BY DEF Butterflies
  <2>2. i \in Index /\ i + l \in Index /\ v[i] \in Int /\ v[i + l] \in Int
    BY <1>1
  <2>3. f[i] = v[i] % Q /\ f[i + l] = v[i + l] % Q
    BY <2>2
  <2> HIDE DEF f, now
  <2>5. \A x, y \in Int : Represents(t, z, y) =>
          /\ (x + t) % Q = ((x % Q) + z * (y % Q)) % Q
          /\ (x - t) % Q = ((x % Q) - z * (y % Q)) % Q
    BY FieldButterfly
  <2>4. /\ (v[i] + t) % Q = ((v[i] % Q) + z * (v[i + l] % Q)) % Q
        /\ (v[i] - t) % Q = ((v[i] % Q) - z * (v[i + l] % Q)) % Q
    BY <2>1, <2>2, <2>5
  <2> QED BY <2>1, <2>3, <2>4
<1>3. \A i \in now : Powers[NttField!Exponent[NttField!NodeOf(l, i)]] = z
  BY DEF Butterflies
<1>4. \A i \in Index : ~NowAt(i, p, l, n) => u[i] = v[i]
  OBVIOUS
<1>5. NttField!Forward(f, l, now) = [i \in Index |-> new(i)]
  BY <1>0 DEF NttField!Forward
<1>6. \A i \in Index : f[i] = v[i] % Q
  OBVIOUS
<1>7. ASSUME NEW i \in Index PROVE u[i] % Q = new(i)
  <2> HIDE DEF f, now
  <2>1. CASE i \in now
    BY <1>2, <1>3, <2>1
  <2>2. CASE i \notin now /\ i - l \in now
    <3> DEFINE m == i - l
    <3>1. m \in now /\ m + l = i /\ i >= l
      BY <1>1, <2>2
    <3>2. u[m + l] % Q = (f[m] - z * f[m + l]) % Q
      BY <1>2, <3>1
    <3>3. new(i) = (f[m] - z * f[i]) % Q
      BY <1>3, <2>2, <3>1
    <3> HIDE DEF m, new
    <3> QED BY <3>1, <3>2, <3>3
  <2>3. CASE i \notin now /\ i - l \notin now
    BY <1>1, <1>4, <1>6, <2>3
  <2> QED BY <2>1, <2>2, <2>3
<1> HIDE DEF f, now, new
<1>8. [i \in Index |-> u[i] % Q] = [i \in Index |-> new(i)]
  BY <1>7
<1> QED BY <1>5, <1>8 DEF f, now

(* A butterfly of an inverse layer, on integers.                           *)
LEMMA InverseWork ==
  ASSUME NEW l \in Int, NEW p \in Int, 0 <= p, 1 <= l, p + l < N, l # N, NEW z \in Int,
         NEW v \in [Index -> Int], NEW u \in [Index -> Int],
         Powers[2 * N - NttField!Exponent[NttField!NodeOf(l, p)]] = z,
         u[p] = v[p] + v[p + l], Cong(u[p + l], z * (v[p] - v[p + l])),
         \A i \in Index : (i # p /\ i # p + l) => u[i] = v[i]
  PROVE  [i \in Index |-> u[i] % Q]
           = NttField!Inverse([i \in Index |-> v[i] % Q], l, {p})
<1> DEFINE f == [i \in Index |-> v[i] % Q]
           new(i) ==
             IF l = N THEN IF i \in {p} THEN (f[i] * (((R % Q) * NInv) % Q)) % Q ELSE f[i]
             ELSE IF i \in {p} THEN (f[i] + f[i + l]) % Q
             ELSE IF i >= l /\ i - l \in {p}
             THEN (Powers[2 * N - NttField!Exponent[NttField!NodeOf(l, i - l)]]
                     * (f[i - l] - f[i])) % Q
             ELSE f[i]
<1>0. N \in Int /\ NttField!Index = Index
  BY Sizes DEF NttField!Index, Index
<1>1. /\ p \in Index /\ p + l \in Index /\ p + l # p /\ p + l - l = p /\ p + l >= l
      /\ \A i \in Index : (i - l = p) <=> (i = p + l)
  BY <1>0, SMT DEF Index
<1>2. \A i \in Index : f[i] = v[i] % Q
  OBVIOUS
<1>3. /\ u[p] % Q = (f[p] + f[p + l]) % Q
      /\ u[p + l] % Q = (z * (f[p] - f[p + l])) % Q
  <2>1. v[p] \in Int /\ v[p + l] \in Int /\ u[p + l] \in Int
    BY <1>1
  <2>2. f[p] = v[p] % Q /\ f[p + l] = v[p + l] % Q
    BY <1>1, <1>2
  <2>3. u[p] % Q = ((v[p] % Q) + (v[p + l] % Q)) % Q
    <3>1. (v[p] + v[p + l]) % Q = ((v[p] % Q) + (v[p + l] % Q)) % Q
      BY <2>1, FieldSum
    <3> QED BY <3>1
  <2>4. u[p + l] % Q = (z * ((v[p] % Q) - (v[p + l] % Q))) % Q
    BY <2>1, FieldDifference
  <2> QED BY <2>2, <2>3, <2>4
<1>4. NttField!Inverse(f, l, {p}) = [i \in Index |-> new(i)]
  BY <1>0 DEF NttField!Inverse
<1>5. ASSUME NEW i \in Index PROVE u[i] % Q = new(i)
  <2> HIDE DEF f
  <2>1. CASE i = p
    BY <1>3, <2>1
  <2>2. CASE i = p + l
    <3>1. i \notin {p} /\ i >= l /\ i - l = p /\ i - l \in {p}
      BY <1>1, <2>2
    <3>2. new(i) = (z * (f[p] - f[i])) % Q
      BY <3>1
    <3> HIDE DEF new
    <3> QED BY <1>3, <2>2, <3>2
  <2>3. CASE i # p /\ i # p + l
    BY <1>1, <1>2, <2>3
  <2> QED BY <2>1, <2>2, <2>3
<1> HIDE DEF f, new
<1>6. [i \in Index |-> u[i] % Q] = [i \in Index |-> new(i)]
  BY <1>5
<1> QED BY <1>4, <1>6 DEF f

(* The factor of the last loop, on integers.                               *)
LEMMA ScaleWork ==
  ASSUME NEW p \in Index, NEW v \in [Index -> Int], NEW u \in [Index -> Int],
         Cong(u[p], (((R % Q) * NInv) % Q) * v[p]),
         \A i \in Index : (i # p) => u[i] = v[i]
  PROVE  [i \in Index |-> u[i] % Q]
           = NttField!Inverse([i \in Index |-> v[i] % Q], N, {p})
<1> DEFINE f == [i \in Index |-> v[i] % Q]
           z == ((R % Q) * NInv) % Q
<1>0. NttField!Index = Index
  BY DEF NttField!Index, Index
<1>1. \A i \in Index : f[i] = v[i] % Q
  OBVIOUS
<1>2. z \in Int
  <2>1. R % Q \in Int /\ NInv \in Int /\ Q \in Nat /\ Q > 0
    BY Constants, FieldAssumption, CongEqual, SMT
  <2>2. (R % Q) * NInv \in Int
    BY <2>1, SMT
  <2> QED BY <2>1, <2>2, DivMod
<1>3. u[p] % Q = (f[p] * z) % Q
  <2>1. v[p] \in Int /\ u[p] \in Int /\ Cong(u[p], z * v[p]) /\ f[p] = v[p] % Q
    BY <1>1
  <2> HIDE DEF f, z
  <2>2. u[p] % Q = ((v[p] % Q) * z) % Q
    BY <1>2, <2>1, FieldScaled
  <2> QED BY <2>1, <2>2
<1>4. NttField!Inverse(f, N, {p})
        = [i \in Index |-> IF i \in {p} THEN (f[i] * z) % Q ELSE f[i]]
  BY <1>0 DEF NttField!Inverse
<1> HIDE DEF f, z
<1>5. \A i \in Index : u[i] % Q = IF i \in {p} THEN (f[i] * z) % Q ELSE f[i]
  BY <1>1, <1>3
<1>6. [i \in Index |-> u[i] % Q]
        = [i \in Index |-> IF i \in {p} THEN (f[i] * z) % Q ELSE f[i]]
  BY <1>5
<1> QED BY <1>4, <1>6 DEF f

(* The node whose factor a forward block takes from the table.             *)
LEMMA ForwardNode ==
  ASSUME IInv, pc \in {"vector", "scalar"}
  PROVE  LET z == Powers[NttField!Exponent[k]]
         IN  /\ z \in Int /\ zetas[k] % Q = ((R % Q) * z) % Q
             /\ BlockStart(start, len)
             /\ \A x \in Int : (start <= x /\ x < start + 2 * len) =>
                  NttField!NodeOf(len, x) = k
<1> DEFINE c == N \div (2 * len)
<1>0. /\ len \in Lengths /\ len \in Int /\ len >= 1 /\ start \in Int /\ k \in Int
      /\ N \in Int /\ k * (2 * len) = N + start /\ k \in 1 .. N - 1
  BY Counters, Sizes, ZetaInTable DEF IInv, Looping, ZetaOfBlock
<1>1. c \in Int /\ N = c * (2 * len)
  BY <1>0, NttAssumption, SMT
<1>2. Powers[NttField!Exponent[k]] \in Int
      /\ zetas[k] % Q = ((R % Q) * Powers[NttField!Exponent[k]]) % Q
  <2>1. /\ NttField!Exponent[k] \in 1 .. N - 1
        /\ zetas[k] % Q = ((R % Q) * Powers[NttField!Exponent[k]]) % Q
    BY <1>0, TableAssumption
  <2>2. NttField!Exponent[k] \in 0 .. 2 * N - 1
    BY <1>0, <2>1, SMT
  <2>3. Powers[NttField!Exponent[k]] \in 0 .. Q - 1
    BY <2>2, FieldAssumption
  <2> QED BY <2>1, <2>3, Constants, SMT
<1>3. start = (k - c) * (2 * len) /\ k - c \in Int
  <2> HIDE DEF c
  <2>1. (k - c) * (2 * len) = k * (2 * len) - c * (2 * len)
        /\ k * (2 * len) \in Int /\ c * (2 * len) \in Int /\ k - c \in Int
    BY <1>0, <1>1, SMT
  <2> QED BY <1>0, <1>1, <2>1, SMT
<1>4. ASSUME NEW x \in Int, start <= x, x < start + 2 * len
      PROVE  NttField!NodeOf(len, x) = k
  <2>0. \A q \in Int : (start = q * (2 * len)) => x \div (2 * len) = q
    BY <1>0, <1>4, InBlock
  <2>1. x \div (2 * len) = k - c
    BY <1>3, <2>0
  <2>2. NttField!NodeOf(len, x) = c + x \div (2 * len)
    BY DEF NttField!NodeOf
  <2> HIDE DEF c
  <2> QED BY <1>0, <1>1, <2>1, <2>2, SMT
<1> QED BY <1>2, <1>3, <1>4 DEF BlockStart

(* The node whose inverse factor an inverse block takes from the table.    *)
LEMMA InverseNode ==
  ASSUME IInv, pc = "inverse"
  PROVE  LET z == Powers[2 * N - NttField!Exponent[NttField!NodeOf(len, j)]]
         IN  /\ z \in Int /\ (-zetas[k]) % Q = ((R % Q) * z) % Q
             /\ BlockStart(start, len)
<1> DEFINE c == N \div (2 * len)
           b == 2 * c - 1 - k
           e == NttField!Exponent[c + b]
<1>0. /\ len \in Lengths /\ len \in Int /\ len >= 1 /\ start \in Int /\ 0 <= start
      /\ k \in Int /\ N \in Int /\ (k + 1) * (2 * len) + start = 2 * N
      /\ j \in Int /\ start <= j /\ j < start + len /\ start + 2 * len <= N
  BY Counters, Sizes DEF IInv, Looping, ZetaOfBlock
<1>1. c \in Int /\ N = c * (2 * len)
  BY <1>0, NttAssumption, SMT
<1>2. start = b * (2 * len) /\ b \in Int /\ k = 2 * c - 1 - b
  <2> HIDE DEF c
  <2> DEFINE p == (k + 1) * (2 * len)
             q == c * (2 * len)
  <2>1. b * (2 * len) = 2 * q - p /\ p \in Int /\ q \in Int
    BY <1>0, <1>1, SMT
  <2>2. p + start = 2 * q
    BY <1>0, <1>1
  <2>3. b \in Int /\ k = 2 * c - 1 - b
    BY <1>0, <1>1, SMT
  <2> HIDE DEF p, q, b
  <2>4. \A x, y, z \in Int : (x + y = 2 * z) => y = 2 * z - x
    BY SMT
  <2>5. start = 2 * q - p
    BY <1>0, <2>1, <2>2, <2>4
  <2> QED BY <2>1, <2>3, <2>5
<1>3. b >= 0 /\ b <= c - 1 /\ 2 * c <= N
  <2> HIDE DEF b, c
  <2>1. CASE b <= -1
    <3>1. b * (2 * len) <= (-1) * (2 * len) /\ (-1) * (2 * len) < 0
      BY <1>0, <1>2, <2>1, Monotone, SMT
    <3> QED BY <1>0, <1>2, <3>1, SMT
  <2>2. CASE c <= b
    <3>1. c * (2 * len) <= b * (2 * len)
      BY <1>0, <1>1, <1>2, <2>2, Monotone, SMT
    <3> QED BY <1>0, <1>1, <1>2, <3>1, SMT
  <2>3. 2 * c <= N
    <3>1. CASE c <= -1
      <4>1. c * (2 * len) <= (-1) * (2 * len) /\ (-1) * (2 * len) < 0
        BY <1>0, <1>1, <3>1, Monotone, SMT
      <4> QED BY <1>0, <1>1, <4>1, Sizes, SMT
    <3>2. CASE c >= 0
      <4>1. 2 * c <= (2 * len) * c /\ (2 * len) * c = c * (2 * len)
        BY <1>0, <1>1, <3>2, Monotone, SMT
      <4> QED BY <1>1, <4>1
    <3> QED BY <1>1, <3>1, <3>2, SMT
  <2> QED BY <1>1, <1>2, <2>1, <2>2, <2>3, SMT
<1>4. NttField!NodeOf(len, j) = c + b
  <2>1. j < start + 2 * len
    BY <1>0, SMT
  <2>2. \A q \in Int : (start = q * (2 * len)) => j \div (2 * len) = q
    BY <1>0, <2>1, InBlock
  <2>3. j \div (2 * len) = b
    BY <1>2, <2>2
  <2> QED BY <2>3 DEF NttField!NodeOf
<1>5. (-zetas[k]) % Q = ((R % Q) * Powers[2 * N - e]) % Q
  <2>1. b \in 0 .. (N \div (2 * len)) - 1
    BY <1>1, <1>2, <1>3, SMT
  <2>2. (-zetas[2 * c - 1 - b]) % Q = ((R % Q) * Powers[2 * N - e]) % Q
    BY <1>0, <2>1, TableAssumption
  <2> HIDE DEF b
  <2> QED BY <1>2, <2>2
<1>6. Powers[2 * N - e] \in Int
  <2>1. c + b \in 1 .. N - 1
    <3> HIDE DEF b, c
    <3> QED BY <1>0, <1>1, <1>2, <1>3, SMT
  <2>2. e \in 1 .. N - 1
    BY <2>1, TableAssumption
  <2> HIDE DEF e
  <2>3. 2 * N - e \in 0 .. 2 * N - 1
    BY <1>0, <2>2, SMT
  <2>4. Powers[2 * N - e] \in 0 .. Q - 1
    BY <2>3, FieldAssumption
  <2> QED BY <2>4, Constants, SMT
<1> QED BY <1>2, <1>4, <1>5, <1>6 DEF BlockStart

(* A step of the field that does some butterflies, and not a load.         *)
FieldWork == NttField!Within \/ NttField!Complete

(* A step of the code that does the butterflies `now`.                     *)
LEMMA FieldStep ==
  ASSUME NEW now, now # {}, fieldDir' = fieldDir,
         fieldVec' = NttField!Work(fieldVec, now),
         \/ /\ fieldTodo \ fieldTodo' = now /\ fieldTodo' \subseteq fieldTodo
            /\ fieldTodo' # {} /\ fieldLen' = fieldLen
         \/ /\ fieldTodo = now
            /\ fieldLen' = IF fieldDir = "forward" THEN fieldLen \div 2 ELSE 2 * fieldLen
            /\ fieldTodo' = IF fieldLen' \in 1 .. N THEN NttField!Pairs(fieldLen') ELSE {}
  PROVE  FieldWork
<1>1. CASE /\ fieldTodo \ fieldTodo' = now /\ fieldTodo' \subseteq fieldTodo
           /\ fieldTodo' # {} /\ fieldLen' = fieldLen
  <2>1. fieldTodo' # fieldTodo
    BY <1>1
  <2> QED BY <1>1, <2>1 DEF FieldWork, NttField!Within
<1>2. CASE /\ fieldTodo = now
           /\ fieldLen' = IF fieldDir = "forward" THEN fieldLen \div 2 ELSE 2 * fieldLen
           /\ fieldTodo' = IF fieldLen' \in 1 .. N THEN NttField!Pairs(fieldLen') ELSE {}
  BY <1>2 DEF FieldWork, NttField!Complete
<1> QED BY <1>1, <1>2

(* What the array holds are integers.                                      *)
LEMMA ArrayOfInts ==
  ASSUME Shape
  PROVE  a \in [Index -> Int] /\ \A i \in Index : a[i] \in Int /\ -Half <= a[i] /\ a[i] <= Half
<1>1. a \in [Index -> Int32]
  BY DEF Shape
<1>2. \A i \in Index : a[i] \in Int /\ -Half <= a[i] /\ a[i] < Half
  BY <1>1, Width
<1>3. \A i \in Index : -Half <= a[i] /\ a[i] <= Half
  BY <1>2, Constants, SMT
<1> QED BY <1>1, <1>2, <1>3

(* n forward butterflies and the counters after them.                      *)
LEMMA ForwardStep ==
  ASSUME IInv, IInv', pc \in {"vector", "scalar"},
         NEW n \in Int, n >= 1, j + n <= start + len,
         \A i \in Run(j, n) :
           \E t \in Int : /\ Represents(t, Powers[NttField!Exponent[k]], a[i + len])
                          /\ a'[i] = a[i] + t /\ a'[i + len] = a[i] - t,
         \A i \in Index : ~NowAt(i, j, len, n) => a'[i] = a[i],
         \/ ~LayerDone(n) /\ Advance(n, 1) /\ pc' = pc
         \/ /\ LayerDone(n) /\ len > 1 /\ len' = len \div 2 /\ j' = 0
            /\ pc' \in {"vector", "scalar"}
         \/ LayerDone(n) /\ len <= 1 /\ len' = 0 /\ pc' = "pointwise"
  PROVE  FieldWork
<1> DEFINE now == Run(j, n)
           z == Powers[NttField!Exponent[k]]
<1>0. /\ len \in Lengths /\ len \in Int /\ len >= 1 /\ start \in Int /\ 0 <= start
      /\ j \in Int /\ start <= j /\ j < start + len /\ start + 2 * len <= N
      /\ N \in Int
  BY Counters, Sizes DEF IInv, Looping
<1>1. z \in Int /\ BlockStart(start, len)
      /\ \A x \in Int : (start <= x /\ x < start + 2 * len) =>
           NttField!NodeOf(len, x) = k
  BY ForwardNode
<1>2. a \in [Index -> Int] /\ a' \in [Index -> Int]
  <2>1. Shape /\ Shape'
    BY DEF IInv
  <2>2. Shape' => a' \in [Index -> Int]
    <3>1. ASSUME Shape' PROVE a' \in [Index -> Int]
      <4>1. a' \in [Index -> Int32]
        BY <3>1 DEF Shape
      <4>2. \A i \in Index : a'[i] \in Int
        BY <4>1, Width
      <4> QED BY <4>1, <4>2
    <3> QED BY <3>1
  <2> QED BY <2>1, <2>2, ArrayOfInts
<1>3. fieldVec' = NttField!Forward(fieldVec, len, now)
  <2>1. 0 <= j /\ n <= len /\ j + len + n <= N
    BY <1>0, SMT
  <2>2. \A i \in now : i \in Int /\ start <= i /\ i < start + 2 * len
    BY <1>0, SMT DEF Run
  <2>3. \A i \in now : Powers[NttField!Exponent[NttField!NodeOf(len, i)]] = z
    BY <1>1, <2>2
  <2>4. \A i \in now : \E t \in Int : /\ Represents(t, z, a[i + len])
                          /\ a'[i] = a[i] + t /\ a'[i + len] = a[i] - t
    OBVIOUS
  <2> HIDE DEF z
  <2>6. Butterflies(len, j, n, z, a, a')
    BY <2>3, <2>4 DEF Butterflies
  <2>7. \A i \in Index : ~NowAt(i, j, len, n) => a'[i] = a[i]
    OBVIOUS
  <2>5. [i \in Index |-> a'[i] % Q]
           = NttField!Forward([i \in Index |-> a[i] % Q], len, now)
    BY <1>0, <1>1, <1>2, <2>1, <2>6, <2>7, ForwardWork
  <2> QED BY <2>5 DEF fieldVec
<1>4. /\ fieldDir = "forward" /\ fieldDir' = "forward"
      /\ fieldLen = len /\ fieldLen' = len'
      /\ fieldTodo = StillToDo(len, j)
  BY DEF fieldDir, fieldLen, fieldTodo, Transforming
<1>5. fieldVec' = NttField!Work(fieldVec, now)
  BY <1>3, <1>4 DEF NttField!Work
<1>6. now # {}
  <2>1. j \in now
    BY <1>0, SMT DEF Run
  <2> QED BY <2>1
<1> HIDE DEF z
<1>7. CASE ~LayerDone(n) /\ Advance(n, 1) /\ pc' = pc
  <2>1. /\ len' = len /\ j' \in Int
        /\ \/ j + n < start + len /\ j' = j + n
           \/ j + n = start + len /\ j' = start + 2 * len /\ start + 2 * len < N
    BY <1>0, <1>7, SMT DEF Advance, LayerDone
  <2>2. fieldTodo' = StillToDo(len, j')
    BY <1>7, <2>1 DEF fieldTodo, Transforming
  <2>3. /\ StillToDo(len, j') \subseteq StillToDo(len, j)
        /\ StillToDo(len, j) \ StillToDo(len, j') = now
        /\ j' \in StillToDo(len, j')
    <3>1. Fits(len, start, j, n) /\ FollowedBy(len, start, j, n, j')
      BY <1>0, <1>1, <2>1 DEF Fits, FollowedBy
    <3> QED BY <1>0, <2>1, <3>1, TodoShrinks
  <2> HIDE DEF now
  <2>4. /\ fieldTodo \ fieldTodo' = now /\ fieldTodo' \subseteq fieldTodo
        /\ fieldTodo' # {} /\ fieldLen' = fieldLen
    BY <1>4, <2>1, <2>2, <2>3
  <2> QED BY <1>4, <1>5, <1>6, <2>4, FieldStep
<1>8. ASSUME LayerDone(n)
      PROVE  fieldTodo = now
  <2>1. j + n = start + len /\ start + 2 * len = N
    BY <1>0, <1>8, SMT DEF LayerDone
  <2>2. Fits(len, start, j, n) /\ LastOf(len, start, j, n)
    BY <1>0, <1>1, <2>1 DEF Fits, LastOf
  <2>3. StillToDo(len, j) = Run(j, n)
    BY <1>0, <2>2, TodoEnds
  <2> QED BY <1>4, <2>3
<1>9. CASE /\ LayerDone(n) /\ len > 1 /\ len' = len \div 2 /\ j' = 0
           /\ pc' \in {"vector", "scalar"}
  <2>1. len \div 2 \in 1 .. N
    BY <1>0, <1>9, SMT
  <2>2. fieldTodo' = NttField!Pairs(len')
    BY <1>9, TodoStarts DEF fieldTodo, Transforming
  <2> HIDE DEF now
  <2> QED BY <1>4, <1>5, <1>6, <1>8, <1>9, <2>1, <2>2, FieldStep
<1>10. CASE LayerDone(n) /\ len <= 1 /\ len' = 0 /\ pc' = "pointwise"
  <2>1. len \div 2 = 0 /\ 0 \notin 1 .. N
    BY <1>0, <1>10, SMT
  <2>2. fieldTodo' = {}
    BY <1>10 DEF fieldTodo, Transforming
  <2> HIDE DEF now
  <2> QED BY <1>4, <1>5, <1>6, <1>8, <1>10, <2>1, <2>2, FieldStep
<1> QED BY <1>7, <1>9, <1>10

(* An entry that no butterfly of the layer has reached yet has room for    *)
(* one; the product for it reduces to the product in the field.            *)
LEMMA ForwardEntry ==
  ASSUME IInv, pc \in {"vector", "scalar"},
         NEW i \in Index, i + len \in Index, j <= i, i < start + len,
         NEW t, t = montgomeryReduce(zetas[k] * a[i + len])
  PROVE  /\ t \in Int /\ Represents(t, Powers[NttField!Exponent[k]], a[i + len])
         /\ add(a[i], t) = a[i] + t /\ sub(a[i], t) = a[i] - t
<1> DEFINE lo == Grown(Depth[len])
           z == Powers[NttField!Exponent[k]]
           x == a[i]
           y == a[i + len]
<1>0. /\ len \in Lengths /\ len \in Int /\ len >= 1 /\ start \in Int /\ 0 <= start
      /\ j \in Int /\ start <= j /\ j < start + len /\ i \in Int
  BY Counters, Sizes, SMT DEF IInv, Looping, Index
<1>1. lo \in Int /\ lo + Q < Half
  BY <1>0, LengthFacts, Sizes, SMT
<1>2. /\ x \in Int /\ y \in Int /\ -Half <= y /\ y <= Half
  BY ArrayOfInts DEF IInv
<1>3. Within(x, lo)
  <2>1. ~Done(i)
    BY <1>0, SMT DEF Done
  <2> QED BY <2>1 DEF IInv, Growth
<1>4. zetas[k] \in Int /\ -Q <= zetas[k] /\ zetas[k] <= Q
  BY ZetaInTable DEF IInv, Looping
<1>5. z \in Int /\ zetas[k] % Q = ((R % Q) * z) % Q
  BY ForwardNode
<1> HIDE DEF lo, z, x, y
<1>6. t \in Int /\ Represents(t, z, y)
  <2>1. t = montgomeryReduce(zetas[k] * y)
    BY DEF y
  <2>2. montgomeryReduce(zetas[k] * y) \in Int /\ Cong(montgomeryReduce(zetas[k] * y), z * y)
    BY <1>2, <1>4, <1>5, ReducedProduct
  <2> QED BY <2>1, <2>2 DEF Represents
<1>7. Within(t, Q)
  <2>1. Within(montgomeryReduce(zetas[k] * y), Q)
    BY <1>2, <1>4, ProductReduces
  <2> QED BY <2>1 DEF y
<1>8. add(x, t) = x + t /\ sub(x, t) = x - t
  BY <1>1, <1>2, <1>3, <1>6, <1>7, ButterflyValues
<1> QED BY <1>6, <1>8 DEF x, y, z

(* A scalar butterfly is one of the field.                                 *)
LEMMA FieldOfButterfly ==
  ASSUME IInv, IInv', Butterfly
  PROVE  FieldWork
<1> DEFINE t == montgomeryReduce(zetas[k] * a[j + len])
           z == Powers[NttField!Exponent[k]]
<1>0. /\ len \in Lengths /\ len \in Int /\ len >= 1 /\ start \in Int /\ 0 <= start
      /\ j \in Int /\ start <= j /\ j < start + len /\ j \in Index /\ j + len \in Index
      /\ j # j + len /\ pc = "scalar"
  BY Counters DEF IInv, Looping, Butterfly
<1>1. /\ t \in Int /\ Represents(t, z, a[j + len])
      /\ add(a[j], t) = a[j] + t /\ sub(a[j], t) = a[j] - t
  <2>1. j <= j
    BY <1>0, SMT
  <2> QED BY <1>0, <2>1, ForwardEntry
<1>2. a' = [a EXCEPT ![j + len] = sub(a[j], t), ![j] = add(a[j], t)]
  BY DEF Butterfly
<1>3. a \in [Index -> Int]
  BY ArrayOfInts DEF IInv
<1> HIDE DEF t, z
<1>4. /\ a'[j] = a[j] + t /\ a'[j + len] = a[j] - t
      /\ \A i \in Index : (i # j /\ i # j + len) => a'[i] = a[i]
  BY <1>0, <1>1, <1>2, <1>3
<1>5. \A i \in Run(j, 1) : i = j
  BY <1>0, SMT DEF Run
<1>6. \A i \in Run(j, 1) :
        \E s \in Int : /\ Represents(s, z, a[i + len])
                       /\ a'[i] = a[i] + s /\ a'[i + len] = a[i] - s
  BY <1>1, <1>4, <1>5
<1>7. \A i \in Index : ~NowAt(i, j, len, 1) => a'[i] = a[i]
  <2>1. \A i \in Index : ~NowAt(i, j, len, 1) => (i # j /\ i # j + len)
    BY <1>0, SMT DEF NowAt, Index
  <2> QED BY <1>4, <2>1
<1>8. 1 \in Int /\ 1 >= 1 /\ j + 1 <= start + len
  BY <1>0, SMT
<1>9. \/ ~LayerDone(1) /\ Advance(1, 1) /\ pc' = pc
      \/ /\ LayerDone(1) /\ len > 1 /\ len' = len \div 2 /\ j' = 0
         /\ pc' \in {"vector", "scalar"}
      \/ LayerDone(1) /\ len <= 1 /\ len' = 0 /\ pc' = "pointwise"
  BY <1>0 DEF Butterfly, Layer
<1> QED BY <1>0, <1>6, <1>7, <1>8, <1>9, ForwardStep DEF z

(* A vector of butterflies is as many of the field.                        *)
LEMMA FieldOfVectorButterfly ==
  ASSUME IInv, IInv', VectorButterfly
  PROVE  FieldWork
<1> DEFINE y == [m \in 0 .. Lanes - 1 |-> a[j + len + m]]
           v == montgomeryMulAVX2(Broadcast(zetas[k]), Register(y))
           T(m) == Lane(v, m)
           z == Powers[NttField!Exponent[k]]
<1>0. /\ len \in Lengths /\ len \in Int /\ len >= 1 /\ start \in Int /\ 0 <= start
      /\ j \in Int /\ start <= j /\ j < start + len /\ start + 2 * len <= N /\ pc = "vector"
      /\ N \in Int
  BY Counters, Sizes DEF IInv, Looping, VectorButterfly, VectorThenScalar
<1>1. /\ Lanes \in Int /\ Lanes >= 1 /\ len >= Lanes /\ LenResume = Lanes \div 2
      /\ j + Lanes <= start + len
  BY VectorFits DEF VectorButterfly, VectorThenScalar
<1>2. \A i \in Run(j, Lanes) :
        /\ i \in Int /\ i \in Index /\ i + len \in Index /\ j <= i /\ i < start + len
        /\ i - j \in 0 .. Lanes - 1 /\ j + len + (i - j) = i + len
        /\ i \in j .. j + Lanes - 1
        /\ i + len \notin j .. j + Lanes - 1
        /\ i + len \in j + len .. j + len + Lanes - 1
        /\ i + len - len = i /\ i + len - len - j = i - j
  BY <1>0, <1>1, SMT DEF Index, Run
<1>3. y \in [0 .. Lanes - 1 -> Int32]
  <2>1. \A m \in 0 .. Lanes - 1 : j + len + m \in Index
    BY <1>0, <1>1, SMT DEF Index
  <2> QED BY <2>1 DEF IInv, Shape
<1>4. zetas[k] \in Int /\ -Half <= zetas[k] /\ zetas[k] < Half
  <2>1. zetas[k] \in Int /\ -Q <= zetas[k] /\ zetas[k] <= Q
    BY <1>0, ZetaInTable DEF IInv, Looping
  <2> QED BY <2>1, Sizes, Constants, SMT
<1>5. ASSUME NEW m \in 0 .. Lanes - 1
      PROVE  T(m) = montgomeryReduce(zetas[k] * y[m])
  <2> HIDE DEF y
  <2>1. Lane(montgomeryMulAVX2(Broadcast(zetas[k]), Register(y)), m)
          = montgomeryReduce(zetas[k] * y[m])
    BY <1>3, <1>4, VectorIsScalar
  <2> QED BY <2>1
<1>6. ASSUME NEW i \in Run(j, Lanes)
      PROVE  T(i - j) = montgomeryReduce(zetas[k] * a[i + len])
  <2>1. y[i - j] = a[i + len]
    BY <1>2
  <2> HIDE DEF y, T
  <2> QED BY <1>2, <1>5, <2>1
<1>7. a' = [i \in Index |->
              IF i \in j .. j + Lanes - 1 THEN add(a[i], T(i - j))
              ELSE IF i \in j + len .. j + len + Lanes - 1
              THEN sub(a[i - len], T(i - len - j)) ELSE a[i]]
  BY DEF VectorButterfly, VectorThenScalar
<1> HIDE DEF y, v, T, z
<1>8. ASSUME NEW i \in Run(j, Lanes)
      PROVE  /\ T(i - j) \in Int /\ Represents(T(i - j), z, a[i + len])
             /\ a'[i] = a[i] + T(i - j) /\ a'[i + len] = a[i] - T(i - j)
  <2>1. /\ T(i - j) \in Int /\ Represents(T(i - j), z, a[i + len])
        /\ add(a[i], T(i - j)) = a[i] + T(i - j) /\ sub(a[i], T(i - j)) = a[i] - T(i - j)
    BY <1>0, <1>2, <1>6, ForwardEntry DEF z
  <2>2. a'[i] = add(a[i], T(i - j))
    BY <1>2, <1>7
  <2>3. a'[i + len] = sub(a[i], T(i - j))
    <3> DEFINE h == i + len
    <3>1. h \in Index /\ h \notin j .. j + Lanes - 1 /\ h \in j + len .. j + len + Lanes - 1
      BY <1>2
    <3>2. h - len = i /\ h - len - j = i - j
      <4>1. i \in Int
        BY <1>2
      <4> QED BY <1>0, <4>1, SMT
    <3> HIDE DEF h
    <3>3. a'[h] = sub(a[h - len], T(h - len - j))
      BY <1>7, <3>1
    <3>4. a'[h] = sub(a[i], T(i - j))
      BY <3>2, <3>3
    <3> QED BY <3>4 DEF h
  <2> QED BY <2>1, <2>2, <2>3
<1>9. \A i \in Run(j, Lanes) :
        \E t \in Int : /\ Represents(t, z, a[i + len])
                       /\ a'[i] = a[i] + t /\ a'[i + len] = a[i] - t
  BY <1>8
<1>10. \A i \in Index : ~NowAt(i, j, len, Lanes) => a'[i] = a[i]
  <2>1. \A i \in Index : ~NowAt(i, j, len, Lanes) =>
          (i \notin j .. j + Lanes - 1 /\ i \notin j + len .. j + len + Lanes - 1)
    BY <1>0, <1>1, SMT DEF NowAt, Index
  <2> QED BY <1>7, <2>1
<1>11. \/ ~LayerDone(Lanes) /\ Advance(Lanes, 1) /\ pc' = pc
       \/ /\ LayerDone(Lanes) /\ len > 1 /\ len' = len \div 2 /\ j' = 0
          /\ pc' \in {"vector", "scalar"}
       \/ LayerDone(Lanes) /\ len <= 1 /\ len' = 0 /\ pc' = "pointwise"
  <2>1. len > 1 /\ (len \div 2 < Lanes => len \div 2 = LenResume)
    BY <1>0, VectorHalves DEF VectorButterfly, VectorThenScalar
  <2> QED BY <1>0, <2>1 DEF VectorButterfly, VectorThenScalar, Layer
<1> QED BY <1>0, <1>1, <1>9, <1>10, <1>11, ForwardStep DEF z

(* A butterfly going back.                                                 *)
LEMMA FieldOfInverseButterfly ==
  ASSUME IInv, IInv', InverseButterfly
  PROVE  FieldWork
<1> DEFINE x == a[j]
           y == a[j + len]
           t == montgomeryReduce(-zetas[k] * sub(x, y))
           z == Powers[2 * N - NttField!Exponent[NttField!NodeOf(len, j)]]
           hi == 2 * len * Q
<1>0. /\ len \in Lengths /\ len \in Int /\ len >= 1 /\ start \in Int /\ 0 <= start
      /\ j \in Int /\ start <= j /\ j < start + len /\ start + 2 * len <= N
      /\ j \in Index /\ j + len \in Index /\ j # j + len /\ pc = "inverse" /\ N \in Int
      /\ k \in Int
  BY Counters, Sizes DEF IInv, Looping, InverseButterfly, InverseBelow
<1>1. z \in Int /\ (-zetas[k]) % Q = ((R % Q) * z) % Q /\ BlockStart(start, len)
  BY <1>0, InverseNode
<1>2. x \in Int /\ y \in Int /\ a \in [Index -> Int]
  BY <1>0, ArrayOfInts DEF IInv
<1>3. Within(x, len * Q) /\ Within(y, len * Q)
  <2>1. ~Done(j) /\ ~Done(j + len)
    BY <1>0, SMT DEF Done
  <2> QED BY <1>0, <2>1 DEF IInv, Growth
<1>4. /\ add(x, y) = x + y /\ sub(x, y) = x - y
      /\ x - y \in Int /\ -Half <= x - y /\ x - y <= Half
  <2>1. /\ len * Q \in Int /\ 2 * len * Q = len * Q + len * Q /\ 2 * len * Q < Half
        /\ Half \in Int
    BY <1>0, LengthFacts, Sizes, SMT
  <2> DEFINE lo == len * Q
  <2> HIDE DEF x, y, lo
  <2>2. /\ x + y \in Int /\ x - y \in Int
        /\ -Half <= x + y /\ x + y < Half /\ -Half <= x - y /\ x - y < Half
    BY <1>2, <1>3, <2>1, SMT DEF Within, lo
  <2> QED BY <2>1, <2>2, Int32Same, SMT DEF add, sub
<1>5. t \in Int /\ Cong(t, z * (x - y))
  <2> DEFINE g == -zetas[k]
             d == x - y
  <2>1. g \in Int /\ -Q <= g /\ g <= Q
    <3>1. zetas[k] \in Int /\ -Q <= zetas[k] /\ zetas[k] <= Q
      BY <1>0, ZetaInTable DEF IInv, Looping
    <3> QED BY <3>1, Sizes, SMT
  <2>2. g % Q = ((R % Q) * z) % Q
    BY <1>1
  <2>3. t = montgomeryReduce(g * d)
    <3>1. zetas[k] \in Int
      BY <1>0, ZetaInTable DEF IInv, Looping
    <3> DEFINE c == zetas[k]
    <3> HIDE DEF c, x, y
    <3>2. -c * (x - y) = (-c) * (x - y)
      BY <1>2, <3>1, SMT DEF c
    <3> QED BY <1>4, <3>2 DEF c, x, y
  <2> HIDE DEF g, d, t, z
  <2>4. d \in Int /\ -Half <= d /\ d <= Half
    BY <1>4 DEF d
  <2>5. montgomeryReduce(g * d) \in Int /\ Cong(montgomeryReduce(g * d), z * d)
    BY <1>1, <2>1, <2>2, <2>4, ReducedProduct
  <2> QED BY <2>3, <2>5 DEF d
<1>6. a' = [a EXCEPT ![j] = add(x, y), ![j + len] = t]
  BY DEF InverseButterfly, InverseBelow
<1>7. a' \in [Index -> Int]
  <2>1. Shape'
    BY DEF IInv
  <2>2. a' \in [Index -> Int32]
    BY <2>1 DEF Shape
  <2>3. \A i \in Index : a'[i] \in Int
    BY <2>2, Width
  <2> QED BY <2>2, <2>3
<1> HIDE DEF t, z
<1>8. /\ a'[j] = x + y /\ a'[j + len] = t
      /\ \A i \in Index : (i # j /\ i # j + len) => a'[i] = a[i]
  <2> HIDE DEF x, y
  <2> QED BY <1>0, <1>2, <1>4, <1>6
<1>9. fieldVec' = NttField!Inverse(fieldVec, len, {j})
  <2>1. 0 <= j /\ 1 <= len /\ j + len < N /\ len # N
    BY <1>0, SMT
  <2>2. a'[j] = a[j] + a[j + len] /\ Cong(a'[j + len], z * (a[j] - a[j + len]))
    BY <1>5, <1>8
  <2>3. Powers[2 * N - NttField!Exponent[NttField!NodeOf(len, j)]] = z
    BY DEF z
  <2>4. [i \in Index |-> a'[i] % Q]
          = NttField!Inverse([i \in Index |-> a[i] % Q], len, {j})
    BY <1>0, <1>1, <1>2, <1>7, <1>8, <2>1, <2>2, <2>3, InverseWork
  <2> QED BY <2>4 DEF fieldVec
<1>10. /\ fieldDir = "inverse" /\ fieldLen = len /\ fieldTodo = StillToDo(len, j)
  BY <1>0 DEF fieldDir, fieldLen, fieldTodo, Transforming
<1>11. fieldVec' = NttField!Work(fieldVec, {j})
  BY <1>9, <1>10 DEF NttField!Work
<1>12. Run(j, 1) = {j}
  <2>1. j .. j + 1 - 1 = {j}
    BY <1>0, SMT
  <2> QED BY <2>1 DEF Run
<1>13. 1 \in Int /\ Fits(len, start, j, 1)
  <2>1. 1 \in Int /\ 1 >= 1 /\ j + 1 <= start + len
    BY <1>0, SMT
  <2> QED BY <1>0, <1>1, <2>1 DEF Fits
<1>14. CASE ~LayerDone(1) /\ Advance(1, -1) /\ pc' = pc
  <2>1. /\ len' = len /\ j' \in Int
        /\ \/ j + 1 < start + len /\ j' = j + 1
           \/ j + 1 = start + len /\ j' = start + 2 * len /\ start + 2 * len < N
    BY <1>0, <1>14, SMT DEF Advance, LayerDone
  <2>2. FollowedBy(len, start, j, 1, j')
    BY <2>1 DEF FollowedBy
  <2>3. fieldTodo' = StillToDo(len, j') /\ fieldDir' = "inverse" /\ fieldLen' = len
    BY <1>0, <1>14, <2>1 DEF fieldTodo, Transforming, fieldDir, fieldLen
  <2>4. /\ StillToDo(len, j') \subseteq StillToDo(len, j)
        /\ StillToDo(len, j) \ StillToDo(len, j') = {j}
        /\ j' \in StillToDo(len, j')
    BY <1>0, <1>12, <1>13, <2>1, <2>2, TodoShrinks
  <2>5. /\ fieldTodo \ fieldTodo' = {j} /\ fieldTodo' \subseteq fieldTodo
        /\ fieldTodo' # {} /\ fieldLen' = fieldLen
    BY <1>10, <2>3, <2>4
  <2> QED BY <1>10, <1>11, <2>3, <2>5, FieldStep
<1>15. CASE LayerDone(1) /\ len' = 2 * len /\ j' = 0 /\ pc' \in {"inverse", "scale"}
  <2>1. LastOf(len, start, j, 1)
    BY <1>0, <1>15, SMT DEF LayerDone, LastOf
  <2>2. fieldTodo = {j}
    <3>1. StillToDo(len, j) = Run(j, 1)
      BY <1>0, <1>13, <2>1, TodoEnds
    <3> QED BY <1>10, <1>12, <3>1
  <2>3. fieldDir' = "inverse" /\ fieldLen' = 2 * len
    BY <1>15 DEF fieldDir, fieldLen
  <2>4. 2 * len \in 1 .. N
    BY <1>0, SMT
  <2>5. fieldTodo' = NttField!Pairs(len')
    BY <1>15, TodoStarts DEF fieldTodo, Transforming
  <2> QED BY <1>10, <1>11, <1>15, <2>2, <2>3, <2>4, <2>5, FieldStep
<1> QED BY <1>0, <1>14, <1>15 DEF InverseButterfly, InverseBelow, Layer

(* The layer the last loop counts as: inverse layers double up to N.       *)
LastLayer == (pc = "scale") => len = N

(* It is N whenever that loop runs.                                        *)
LEMMA LastLength == Spec => []LastLayer
<1>1. Init => LastLayer
  BY DEF Init, LastLayer
<1>2. IInv /\ LastLayer /\ [Next]_vars => LastLayer'
  <2> SUFFICES ASSUME IInv, LastLayer, [Next]_vars PROVE LastLayer'
    OBVIOUS
  <2>1. CASE InverseButterfly
    <3>1. pc = "inverse" /\ (pc' = "scale" => (2 * len >= N /\ len' = 2 * len))
      BY <2>1 DEF InverseButterfly, InverseBelow, Layer
    <3>2. len \in Int /\ 2 * len <= N /\ N \in Int
      BY <3>1, Counters, LengthFacts, Sizes DEF IInv, Looping
    <3> QED BY <3>1, <3>2, SMT DEF LastLayer
  <2>2. CASE Scale
    BY <2>2 DEF LastLayer, Scale
  <2>3. CASE NTT \/ Butterfly \/ VectorButterfly \/ Pointwise \/ InvNTT
    <3>1. pc' # "scale"
      BY <2>3 DEF NTT, Butterfly, VectorButterfly, VectorThenScalar, Pointwise, PointwiseInto,
         InvNTT, InvNTTAfter
    <3> QED BY <3>1 DEF LastLayer
  <2>4. CASE UNCHANGED vars
    BY <2>4 DEF LastLayer, vars
  <2> QED BY <2>1, <2>2, <2>3, <2>4 DEF Next
<1> QED BY <1>1, <1>2, Invariance, PTL DEF Spec

(* f is R^2/N, so its reduced product is the field's R/N times the entry.  *)
LEMMA ScaleFactor ==
  LET z == ((R % Q) * NInv) % Q
  IN  z \in Int /\ F % Q = ((R % Q) * z) % Q
<1> DEFINE g == R % Q
           z == (g * NInv) % Q
<1>0. /\ g \in Int /\ NInv \in Int /\ N \in Int /\ F \in Int /\ Q \in Nat /\ Q > 0
      /\ g * NInv \in Int /\ F * N \in Int /\ g * g \in Int /\ N * NInv \in Int
  <2>1. g \in Int /\ NInv \in Int /\ N \in Int /\ F \in Int /\ Q \in Nat /\ Q > 0
    BY Constants, Sizes, FieldAssumption, CongEqual, SMT
  <2> HIDE DEF g
  <2> QED BY <2>1, SMT
<1>1. z \in Int /\ Cong(g * NInv, z)
  <2> HIDE DEF g
  <2> QED BY <1>0, CongEqual
<1>2. Cong(F * N, g * g)
  <2>1. (F * N) % Q = (g * g) % Q
    BY TableAssumption
  <2> HIDE DEF g
  <2> QED BY <1>0, <2>1, CongEqual
<1> HIDE DEF g, z
<1>3. Cong(N * NInv, 1)
  <2>1. (N * NInv) % Q = 1 % Q
    <3>1. (N * NInv) % Q = 1
      BY FieldAssumption
    <3>2. (N * NInv) % Q \in 0 .. Q - 1
      BY <1>0, CongEqual
    <3>3. 1 % Q = 1
      BY <1>0, <3>1, <3>2, SMT
    <3> QED BY <3>1, <3>3
  <2> QED BY <1>0, <2>1, CongEqual
<1>4. Cong(F, g * z)
  <2>0. Cong(F, F) /\ Cong(g, g) /\ Cong(NInv, NInv)
    BY <1>0, CongTrans, CongEqual
  <2>1. Cong(F * (N * NInv), F * 1)
    BY <1>0, <1>3, <2>0, CongProduct
  <2>2. Cong((F * N) * NInv, (g * g) * NInv)
    BY <1>0, <1>2, <2>0, CongProduct
  <2>3. Cong(g * (g * NInv), g * z)
    BY <1>0, <1>1, <2>0, CongProduct
  <2>4. /\ F * (N * NInv) = (F * N) * NInv /\ F * 1 = F
        /\ (g * g) * NInv = g * (g * NInv)
        /\ (F * N) * NInv \in Int /\ g * (g * NInv) \in Int /\ g * z \in Int
    BY <1>0, <1>1, SMT
  <2>5. Cong((F * N) * NInv, F)
    BY <2>1, <2>4
  <2>6. Cong(F, (F * N) * NInv)
    <3> DEFINE u == (F * N) * NInv
    <3>1. u \in Int /\ Cong(u, F)
      BY <2>4, <2>5
    <3> HIDE DEF u
    <3>2. Cong(F, u)
      BY <1>0, <2>0, <3>1, CongTrans
    <3> QED BY <3>2 DEF u
  <2>7. Cong((F * N) * NInv, g * (g * NInv))
    BY <2>2, <2>4
  <2>8. Cong(F, g * (g * NInv))
    BY <1>0, <2>4, <2>6, <2>7, CongTrans
  <2> QED BY <1>0, <2>3, <2>4, <2>8, CongTrans
<1>5. g * z \in Int
  BY <1>0, <1>1, SMT
<1>6. F % Q = (g * z) % Q
  BY <1>0, <1>4, <1>5, CongEqual
<1> QED BY <1>1, <1>6 DEF g, z

(* A coefficient of the last loop.                                         *)
LEMMA FieldOfScale ==
  ASSUME IInv, IInv', LastLayer, Scale
  PROVE  FieldWork
<1> DEFINE z == ((R % Q) * NInv) % Q
           t == montgomeryReduce(F * a[j])
<1>0. pc = "scale" /\ len = N /\ j \in Index /\ j \in Int /\ 0 <= j /\ j < N /\ N \in Int
  <2>1. pc = "scale" /\ j \in Index /\ len = N
    BY DEF Scale, IInv, LoopShape, LastLayer
  <2> QED BY <2>1, Sizes, SMT DEF Index
<1>1. z \in Int /\ F % Q = ((R % Q) * z) % Q
  BY ScaleFactor
<1>2. a \in [Index -> Int] /\ a[j] \in Int /\ -Half <= a[j] /\ a[j] <= Half
  BY <1>0, ArrayOfInts DEF IInv
<1> HIDE DEF z
<1>3. t \in Int /\ Cong(t, z * a[j])
  <2>1. F \in Int /\ -Q <= F /\ F <= Q
    BY Sizes, SMT
  <2> QED BY <1>1, <1>2, <2>1, ReducedProduct
<1>4. a' = [a EXCEPT ![j] = t]
  BY DEF Scale
<1> HIDE DEF t
<1>5. a' \in [Index -> Int] /\ a'[j] = t /\ \A i \in Index : i # j => a'[i] = a[i]
  BY <1>0, <1>2, <1>3, <1>4
<1>6. fieldVec' = NttField!Inverse(fieldVec, N, {j})
  <2>1. Cong(a'[j], z * a[j])
    BY <1>3, <1>5
  <2>2. [i \in Index |-> a'[i] % Q]
          = NttField!Inverse([i \in Index |-> a[i] % Q], N, {j})
    BY <1>0, <1>2, <1>5, <2>1, ScaleWork DEF z
  <2> QED BY <2>2 DEF fieldVec
<1>7. /\ len' = len /\ j' = j + 1 /\ pc' = IF j + 1 < N THEN "scale" ELSE "done"
  BY DEF Scale
<1>8. /\ fieldDir = "inverse" /\ fieldDir' = "inverse" /\ fieldLen = N
      /\ fieldTodo = StillToDo(N, j)
  BY <1>0, <1>7 DEF fieldDir, fieldLen, fieldTodo, Transforming
<1>9. fieldVec' = NttField!Work(fieldVec, {j})
  BY <1>6, <1>8 DEF NttField!Work
<1>10. ASSUME NEW p \in Int
       PROVE  StillToDo(N, p) = {i \in Index : i >= p}
  <2>1. \A i \in Index : i % (2 * N) < N
    <3> SUFFICES ASSUME NEW i \in Index PROVE i % (2 * N) < N
      OBVIOUS
    <3>1. i \in Int /\ 0 <= i /\ i < N /\ 2 * N \in Nat /\ 2 * N > 0 /\ 0 * (2 * N) + i = i
          /\ i < 2 * N
      BY Sizes, SMT DEF Index
    <3>2. (0 * (2 * N) + i) % (2 * N) = i
      BY <3>1, DivUnique
    <3> QED BY <3>1, <3>2
  <2> QED BY <2>1 DEF StillToDo
<1>11. CASE j + 1 < N
  <2>1. fieldTodo' = StillToDo(N, j + 1) /\ fieldLen' = N
    BY <1>0, <1>7, <1>11 DEF fieldTodo, Transforming, fieldLen
  <2>2. /\ StillToDo(N, j) \ StillToDo(N, j + 1) = {j}
        /\ StillToDo(N, j + 1) \subseteq StillToDo(N, j)
        /\ j + 1 \in StillToDo(N, j + 1)
    <3>1. StillToDo(N, j) = {i \in Index : i >= j}
          /\ StillToDo(N, j + 1) = {i \in Index : i >= j + 1}
      BY <1>0, <1>10, SMT
    <3>2. /\ \A i \in Index : i >= j + 1 => i >= j
          /\ \A i \in Index : (i >= j /\ ~(i >= j + 1)) <=> i = j
          /\ j + 1 \in Index /\ j + 1 >= j + 1
      BY <1>0, <1>11, SMT DEF Index
    <3> QED BY <1>0, <3>1, <3>2
  <2>3. /\ fieldTodo \ fieldTodo' = {j} /\ fieldTodo' \subseteq fieldTodo
        /\ fieldTodo' # {} /\ fieldLen' = fieldLen
    BY <1>8, <2>1, <2>2
  <2> QED BY <1>8, <1>9, <2>3, FieldStep
<1>12. CASE ~(j + 1 < N)
  <2>1. fieldLen' = 2 * N /\ fieldTodo' = {}
    BY <1>7, <1>12 DEF fieldLen, fieldTodo, Transforming
  <2>2. StillToDo(N, j) = {j}
    <3>1. \A i \in Index : i >= j <=> i = j
      BY <1>0, <1>12, SMT DEF Index
    <3>2. StillToDo(N, j) = {i \in Index : i >= j}
      BY <1>0, <1>10
    <3> QED BY <1>0, <3>1, <3>2
  <2>3. 2 * N \notin 1 .. N
    BY Sizes, SMT
  <2> QED BY <1>8, <1>9, <2>1, <2>2, <2>3, FieldStep
<1> QED BY <1>11, <1>12

(* An array of integers, in the field.                                     *)
LEMMA FieldArray ==
  ASSUME NEW v \in [Index -> Int]
  PROVE  [i \in Index |-> v[i] % Q] \in [NttField!Index -> NttField!Field]
<1>1. \A i \in Index : v[i] % Q \in 0 .. Q - 1
  BY CongEqual
<1> QED BY <1>1 DEF NttField!Index, NttField!Field, Index

(* The dispatch loads a column, invNTTScalar the sum.                      *)
LEMMA FieldOfLoads ==
  ASSUME IInv, IInv', NTT \/ InvNTT
  PROVE  NttField!Next
<1>1. fieldVec' \in [NttField!Index -> NttField!Field]
  <2>1. a' \in [Index -> Int]
    <3>1. Shape'
      BY DEF IInv
    <3>2. a' \in [Index -> Int32]
      BY <3>1 DEF Shape
    <3>3. \A i \in Index : a'[i] \in Int
      BY <3>2, Width
    <3> QED BY <3>2, <3>3
  <2> QED BY <2>1, FieldArray DEF fieldVec
<1>2. CASE NTT
  <2>1. /\ pc = "load" /\ pc' \in {"vector", "scalar"} /\ len' = N \div 2 /\ j' = 0
    BY <1>2 DEF NTT
  <2>2. fieldTodo = {} /\ fieldDir' = "forward" /\ fieldLen' = N \div 2
    BY <2>1 DEF fieldTodo, Transforming, fieldDir, fieldLen
  <2>3. fieldTodo' = NttField!Pairs(fieldLen')
    BY <2>1, <2>2, TodoStarts DEF fieldTodo, Transforming
  <2> QED BY <1>1, <2>2, <2>3 DEF NttField!Next, NttField!Load
<1>3. CASE InvNTT
  <2>1. /\ pc = "reduce" /\ pc' = "inverse" /\ len' = 1 /\ j' = 0
    BY <1>3 DEF InvNTT, InvNTTAfter
  <2>2. fieldTodo = {} /\ fieldDir' = "inverse" /\ fieldLen' = 1
    BY <2>1 DEF fieldTodo, Transforming, fieldDir, fieldLen
  <2>3. fieldTodo' = NttField!Pairs(fieldLen')
    BY <2>1, <2>2, TodoStarts DEF fieldTodo, Transforming
  <2> QED BY <1>1, <2>2, <2>3 DEF NttField!Next, NttField!Load
<1> QED BY <1>2, <1>3

(* What the pointwise product changes is not part of the transforms.       *)
LEMMA FieldOfPointwise ==
  ASSUME Pointwise
  PROVE  UNCHANGED NttField!vars
<1>1. /\ pc = "pointwise" /\ pc' \in {"load", "reduce"} /\ a' = a /\ len' = len
  BY DEF Pointwise, PointwiseInto, loop
<1> QED BY <1>1 DEF NttField!vars, fieldVec, fieldDir, fieldLen, fieldTodo, Transforming

(* The transforms of the code, scalar and hybrid, on int32, with           *)
(* Montgomery factors and their counters, implement the transforms over    *)
(* the field, for every size, table and job: the array modulo Q is the     *)
(* splitting of X^N + 1 and its inverse, butterfly by butterfly.           *)
THEOREM TransformsImplementField == Spec => ImplementsField
<1>1. Init => NttField!Init
  <2> SUFFICES ASSUME Init PROVE NttField!Init
    OBVIOUS
  <2>1. pc = "load" /\ len = 0 /\ a = [i \in Index |-> 0]
    BY DEF Init
  <2>2. a \in [Index -> Int]
    BY <2>1
  <2>3. fieldVec \in [NttField!Index -> NttField!Field]
    BY <2>2, FieldArray DEF fieldVec
  <2> QED BY <2>1, <2>3 DEF NttField!Init, fieldDir, fieldLen, fieldTodo, Transforming
<1>2. IInv /\ IInv' /\ LastLayer /\ [Next]_vars => [NttField!Next]_(NttField!vars)
  <2> SUFFICES ASSUME IInv, IInv', LastLayer, [Next]_vars
               PROVE  NttField!Next \/ UNCHANGED NttField!vars
    OBVIOUS
  <2>1. CASE UNCHANGED vars
    BY <2>1 DEF vars, NttField!vars, fieldVec, fieldDir, fieldLen, fieldTodo, Transforming
  <2> QED BY <2>1, FieldOfButterfly, FieldOfVectorButterfly, FieldOfInverseButterfly,
             FieldOfScale, FieldOfLoads, FieldOfPointwise DEF Next, FieldWork, NttField!Next
<1> QED BY <1>1, <1>2, Invariance, LastLength, PTL DEF Spec, ImplementsField, NttField!Spec

-----------------------------------------------------------------------------
(* Sums.                                                                   *)

(* A set of naturals with 0 and the successor of each element is Nat.      *)
LEMMA SetInduction ==
  ASSUME NEW S, S \subseteq Nat, 0 \in S, \A n \in S : n + 1 \in S
  PROVE  S = Nat
<1>1. CASE Nat \ S # {}
  <2>1. PICK n \in Nat \ S : \A m \in Nat \ S : ~(<<m, n>> \in OpToRel(<, Nat))
    BY <1>1, WFMin, NatLessThanWellFounded
  <2>2. \A m \in Nat \ S : ~(m < n)
    BY <2>1 DEF OpToRel
  <2>3. n - 1 \in S /\ (n - 1) + 1 = n
    BY <2>2
  <2> QED BY <2>1, <2>3
<1> QED BY <1>1

(* g has the sums of f up to n.                                            *)
IsSum(g, f, n) == g = [m \in 0 .. n |-> IF m = 0 THEN 0 ELSE g[m - 1] + f[m - 1]]

(* SumTo is the recursive sum.                                             *)
LEMMA SumIsChosen ==
  ASSUME NEW f, NEW n
  PROVE  SumTo(f, n) = (CHOOSE g : IsSum(g, f, n))[n]
BY DEF SumTo, IsSum

(* There are such sums, and one longer than another has the same entries.  *)
LEMMA SumsExist ==
  ASSUME NEW f
  PROVE  \A n \in Nat : \E g : IsSum(g, f, n)
<1> DEFINE S == {n \in Nat : \E g : IsSum(g, f, n)}
<1>1. 0 \in S
  <2> DEFINE g == [m \in 0 .. 0 |-> 0]
  <2>1. g = [m \in 0 .. 0 |-> IF m = 0 THEN 0 ELSE g[m - 1] + f[m - 1]]
    OBVIOUS
  <2> QED BY <2>1 DEF IsSum
<1>2. ASSUME NEW n \in S PROVE n + 1 \in S
  <2>1. PICK g : IsSum(g, f, n)
    OBVIOUS
  <2>2. \A m \in 0 .. n : g[m] = IF m = 0 THEN 0 ELSE g[m - 1] + f[m - 1]
    BY <2>1 DEF IsSum
  <2> DEFINE h == [m \in 0 .. n + 1 |-> IF m = n + 1 THEN g[n] + f[n] ELSE g[m]]
  <2>3. \A m \in 0 .. n + 1 : h[m] = IF m = 0 THEN 0 ELSE h[m - 1] + f[m - 1]
    <3> SUFFICES ASSUME NEW m \in 0 .. n + 1
                 PROVE  h[m] = IF m = 0 THEN 0 ELSE h[m - 1] + f[m - 1]
      OBVIOUS
    <3>1. CASE m = n + 1
      <4>1. m - 1 = n /\ n \in 0 .. n + 1 /\ n # n + 1 /\ m # 0
        BY <3>1, SMT
      <4> QED BY <3>1, <4>1
    <3>2. CASE m # n + 1
      <4>1. m \in 0 .. n /\ (m # 0 => (m - 1 \in 0 .. n + 1 /\ m - 1 # n + 1))
        BY <3>2, SMT
      <4> QED BY <2>2, <3>2, <4>1
    <3> QED BY <3>1, <3>2
  <2>4. h = [m \in 0 .. n + 1 |-> h[m]]
    OBVIOUS
  <2> HIDE DEF h
  <2>5. IsSum(h, f, n + 1)
    BY <2>3, <2>4 DEF IsSum
  <2> QED BY <2>5
<1>3. S = Nat
  <2> HIDE DEF S
  <2>1. S \subseteq Nat
    BY DEF S
  <2> QED BY <1>1, <1>2, <2>1, SetInduction
<1> QED BY <1>3

(* A sum, one term at a time.                                              *)
LEMMA SumStep ==
  ASSUME NEW f, NEW n \in Nat
  PROVE  SumTo(f, 0) = 0 /\ SumTo(f, n + 1) = SumTo(f, n) + f[n]
<1> DEFINE c(m) == CHOOSE g : IsSum(g, f, m)
<1>1. \A m \in Nat : IsSum(c(m), f, m) /\ SumTo(f, m) = c(m)[m]
  <2> SUFFICES ASSUME NEW m \in Nat PROVE IsSum(c(m), f, m) /\ SumTo(f, m) = c(m)[m]
    OBVIOUS
  <2>1. \E g : IsSum(g, f, m)
    BY SumsExist
  <2> QED BY <2>1, SumIsChosen
<1> HIDE DEF c
<1>2. \A m \in Nat : \A d \in 0 .. m :
        c(m)[d] = IF d = 0 THEN 0 ELSE c(m)[d - 1] + f[d - 1]
  BY <1>1 DEF IsSum
<1> DEFINE S == {d \in Nat : d <= n => c(n)[d] = c(n + 1)[d]}
<1>3. 0 \in S
  BY <1>2
<1>4. ASSUME NEW d \in S PROVE d + 1 \in S
  <2> SUFFICES ASSUME d + 1 <= n PROVE c(n)[d + 1] = c(n + 1)[d + 1]
    OBVIOUS
  <2>1. d + 1 \in 0 .. n /\ d + 1 \in 0 .. n + 1 /\ d + 1 # 0 /\ (d + 1) - 1 = d
        /\ n \in Nat /\ n + 1 \in Nat /\ c(n)[d] = c(n + 1)[d]
    OBVIOUS
  <2> QED BY <1>2, <2>1
<1>5. S = Nat
  <2> HIDE DEF S
  <2>1. S \subseteq Nat
    BY DEF S
  <2> QED BY <1>3, <1>4, <2>1, SetInduction
<1>6. c(n)[n] = c(n + 1)[n]
  BY <1>5
<1>7. n + 1 \in Nat /\ n + 1 \in 0 .. n + 1 /\ n + 1 # 0 /\ (n + 1) - 1 = n
      /\ 0 \in Nat /\ 0 \in 0 .. 0
  OBVIOUS
<1>8. c(n + 1)[n + 1] = c(n + 1)[n] + f[n] /\ c(0)[0] = 0
  BY <1>2, <1>7
<1> QED BY <1>1, <1>6, <1>7, <1>8

(* The numbers f has below n.                                              *)
Ints(f, n) == \A t \in 0 .. n - 1 : f[t] \in Int

(* A sum of integers is one.                                               *)
LEMMA SumInt ==
  ASSUME NEW f, NEW n \in Nat, Ints(f, n)
  PROVE  \A m \in 0 .. n : SumTo(f, m) \in Int
<1> DEFINE S == {m \in Nat : m <= n => SumTo(f, m) \in Int}
<1>1. 0 \in S
  BY SumStep
<1>2. ASSUME NEW m \in S PROVE m + 1 \in S
  <2> SUFFICES ASSUME m + 1 <= n PROVE SumTo(f, m + 1) \in Int
    OBVIOUS
  <2>1. SumTo(f, m) \in Int /\ f[m] \in Int
    BY DEF Ints
  <2> QED BY <2>1, SumStep
<1>3. S = Nat
  <2> HIDE DEF S
  <2>1. S \subseteq Nat
    BY DEF S
  <2> QED BY <1>1, <1>2, <2>1, SetInduction
<1> QED BY <1>3

(* Terms with the same residues have sums with the same residue.           *)
LEMMA SumCong ==
  ASSUME NEW n \in Nat, NEW f, NEW h, Ints(f, n), Ints(h, n),
         \A t \in 0 .. n - 1 : Cong(f[t], h[t])
  PROVE  /\ SumTo(f, n) \in Int /\ SumTo(h, n) \in Int
         /\ Cong(SumTo(f, n), SumTo(h, n))
<1> DEFINE S == {m \in Nat : m <= n => Cong(SumTo(f, m), SumTo(h, m))}
<1>0. \A m \in 0 .. n : SumTo(f, m) \in Int /\ SumTo(h, m) \in Int
  BY SumInt
<1>1. 0 \in S
  BY CongEqual, SumStep
<1>2. ASSUME NEW m \in S PROVE m + 1 \in S
  <2> SUFFICES ASSUME m + 1 <= n PROVE Cong(SumTo(f, m + 1), SumTo(h, m + 1))
    OBVIOUS
  <2>1. /\ f[m] \in Int /\ h[m] \in Int /\ Cong(f[m], h[m])
        /\ SumTo(f, m) \in Int /\ SumTo(h, m) \in Int /\ Cong(SumTo(f, m), SumTo(h, m))
        /\ m \in Nat
    BY <1>0 DEF Ints
  <2>2. Cong(SumTo(f, m) + f[m], SumTo(h, m) + h[m])
    BY <2>1, CongSum
  <2> QED BY <2>1, <2>2, SumStep
<1>3. S = Nat
  <2> HIDE DEF S
  <2>1. S \subseteq Nat
    BY DEF S
  <2> QED BY <1>1, <1>2, <2>1, SetInduction
<1> QED BY <1>0, <1>3

(* The same terms have the same sum.                                       *)
LEMMA SumSame ==
  ASSUME NEW n \in Nat, NEW f, NEW h, \A t \in 0 .. n - 1 : f[t] = h[t]
  PROVE  SumTo(f, n) = SumTo(h, n)
<1> DEFINE S == {m \in Nat : m <= n => SumTo(f, m) = SumTo(h, m)}
<1>1. 0 \in S
  BY SumStep
<1>2. ASSUME NEW m \in S PROVE m + 1 \in S
  <2> SUFFICES ASSUME m + 1 <= n PROVE SumTo(f, m + 1) = SumTo(h, m + 1)
    OBVIOUS
  <2>1. f[m] = h[m] /\ SumTo(f, m) = SumTo(h, m) /\ m \in Nat
    OBVIOUS
  <2> QED BY <2>1, SumStep
<1>3. S = Nat
  <2> HIDE DEF S
  <2>1. S \subseteq Nat
    BY DEF S
  <2> QED BY <1>1, <1>2, <2>1, SetInduction
<1> QED BY <1>3

(* Multiples.                                                              *)
LEMMA SumScaled ==
  ASSUME NEW n \in Nat, NEW f, NEW h, NEW y \in Int, Ints(f, n),
         \A t \in 0 .. n - 1 : h[t] = y * f[t]
  PROVE  SumTo(h, n) = y * SumTo(f, n)
<1> DEFINE S == {m \in Nat : m <= n => SumTo(h, m) = y * SumTo(f, m)}
<1>0. \A m \in 0 .. n : SumTo(f, m) \in Int
  BY SumInt
<1>1. 0 \in S
  BY SumStep
<1>2. ASSUME NEW m \in S PROVE m + 1 \in S
  <2> SUFFICES ASSUME m + 1 <= n PROVE SumTo(h, m + 1) = y * SumTo(f, m + 1)
    OBVIOUS
  <2>1. /\ f[m] \in Int /\ h[m] = y * f[m] /\ m \in Nat
        /\ SumTo(f, m) \in Int /\ SumTo(h, m) = y * SumTo(f, m)
    BY <1>0 DEF Ints
  <2>2. y * (SumTo(f, m) + f[m]) = y * SumTo(f, m) + y * f[m]
    BY <2>1, SMT
  <2> QED BY <2>1, <2>2, SumStep
<1>3. S = Nat
  <2> HIDE DEF S
  <2>1. S \subseteq Nat
    BY DEF S
  <2> QED BY <1>1, <1>2, <2>1, SetInduction
<1> QED BY <1>3

(* A sum of 2n terms is one of n pairs, a term of each half.               *)
LEMMA SumOfHalves ==
  ASSUME NEW n \in Nat, NEW f, NEW h, Ints(f, 2 * n),
         \A t \in 0 .. n - 1 : h[t] = f[t] + f[n + t]
  PROVE  SumTo(h, n) = SumTo(f, 2 * n)
<1> DEFINE S == {m \in Nat : m <= n => SumTo(h, m) = SumTo(f, m) + SumTo(f, n + m) - SumTo(f, n)}
<1>0. \A m \in 0 .. 2 * n : SumTo(f, m) \in Int
  BY SumInt, SMT
<1>1. 0 \in S
  <2>1. n + 0 = n /\ SumTo(f, n) \in Int /\ n \in Nat
    BY <1>0
  <2>2. SumTo(h, 0) = 0 /\ SumTo(f, 0) = 0
    BY SumStep
  <2> QED BY <2>1, <2>2
<1>2. ASSUME NEW m \in S PROVE m + 1 \in S
  <2> SUFFICES ASSUME m + 1 <= n
               PROVE  SumTo(h, m + 1) = SumTo(f, m + 1) + SumTo(f, n + (m + 1)) - SumTo(f, n)
    OBVIOUS
  <2>1. /\ m \in Nat /\ n + m \in Nat /\ m \in 0 .. n - 1 /\ n + (m + 1) = (n + m) + 1
        /\ m \in 0 .. 2 * n - 1 /\ n + m \in 0 .. 2 * n - 1
        /\ m \in 0 .. 2 * n /\ n + m \in 0 .. 2 * n /\ n \in 0 .. 2 * n
    OBVIOUS
  <2>2. /\ f[m] \in Int /\ f[n + m] \in Int /\ h[m] = f[m] + f[n + m]
        /\ SumTo(f, m) \in Int /\ SumTo(f, n + m) \in Int /\ SumTo(f, n) \in Int
        /\ SumTo(h, m) = SumTo(f, m) + SumTo(f, n + m) - SumTo(f, n)
    BY <1>0, <2>1 DEF Ints
  <2>3. /\ SumTo(h, m + 1) = SumTo(h, m) + h[m]
        /\ SumTo(f, m + 1) = SumTo(f, m) + f[m]
        /\ SumTo(f, n + (m + 1)) = SumTo(f, n + m) + f[n + m]
    BY <2>1, SumStep
  <2> QED BY <2>2, <2>3
<1>3. S = Nat
  <2> HIDE DEF S
  <2>1. S \subseteq Nat
    BY DEF S
  <2> QED BY <1>1, <1>2, <2>1, SetInduction
<1>4. SumTo(h, n) = SumTo(f, n) + SumTo(f, n + n) - SumTo(f, n)
  BY <1>3
<1>5. n + n = 2 * n /\ SumTo(f, n) \in Int /\ SumTo(f, 2 * n) \in Int
  BY <1>0
<1> QED BY <1>4, <1>5

(* The exponent of node n, from that of the node above.                    *)
ExponentOf(g, n) ==
  IF n = 1 THEN N \div 2
  ELSE IF n % 2 = 0 THEN g[n \div 2] \div 2 ELSE (g[n \div 2] + N) \div 2

IsExponent(g, n) == g = [m \in 1 .. n |-> ExponentOf(g, m)]

(* The exponents of the nodes are computed from each other.                *)
LEMMA ExponentRule ==
  \A n \in 1 .. N - 1 : NttField!Exponent[n] = ExponentOf(NttField!Exponent, n)
<1>0. N \in Nat
  BY NttAssumption
<1> DEFINE S == {n \in Nat : \E g : IsExponent(g, n)}
<1>1. 0 \in S
  <2> DEFINE g == [m \in 1 .. 0 |-> 0]
  <2>1. g = [m \in 1 .. 0 |-> ExponentOf(g, m)]
    OBVIOUS
  <2> QED BY <2>1 DEF IsExponent
<1>2. ASSUME NEW n \in S PROVE n + 1 \in S
  <2>1. PICK g : IsExponent(g, n)
    OBVIOUS
  <2>2. \A m \in 1 .. n : g[m] = ExponentOf(g, m)
    BY <2>1 DEF IsExponent
  <2> DEFINE h == [m \in 1 .. n + 1 |-> IF m = n + 1 THEN ExponentOf(g, m) ELSE g[m]]
  <2>3. \A m \in 1 .. n + 1 : h[m] = ExponentOf(h, m)
    <3> SUFFICES ASSUME NEW m \in 1 .. n + 1
                 PROVE  h[m] = ExponentOf(h, m)
      OBVIOUS
    <3>1. m # 1 => (m \div 2 \in 1 .. n + 1 /\ m \div 2 # n + 1)
      BY SMT
    <3>2. ExponentOf(h, m) = ExponentOf(g, m)
      <4>1. m # 1 => h[m \div 2] = g[m \div 2]
        BY <3>1
      <4> HIDE DEF h
      <4> QED BY <4>1 DEF ExponentOf
    <3>3. h[m] = ExponentOf(g, m)
      <4>1. m # n + 1 => m \in 1 .. n
        BY SMT
      <4> QED BY <2>2, <4>1
    <3> QED BY <3>2, <3>3
  <2>4. h = [m \in 1 .. n + 1 |-> h[m]]
    OBVIOUS
  <2> HIDE DEF h
  <2>5. IsExponent(h, n + 1)
    BY <2>3, <2>4 DEF IsExponent
  <2> QED BY <2>5
<1>3. S = Nat
  <2> HIDE DEF S
  <2>1. S \subseteq Nat
    BY DEF S
  <2> QED BY <1>1, <1>2, <2>1, SetInduction
<1>4. N - 1 \in Nat
  BY <1>0, Sizes, SMT
<1>5. \E g : IsExponent(g, N - 1)
  BY <1>3, <1>4
<1>6. NttField!Exponent = CHOOSE g : IsExponent(g, N - 1)
  BY DEF NttField!Exponent, IsExponent, ExponentOf
<1>7. IsExponent(NttField!Exponent, N - 1)
  BY <1>5, <1>6
<1> HIDE DEF S
<1> DEFINE E == NttField!Exponent
<1>8. IsExponent(E, N - 1)
  BY <1>7
<1> HIDE DEF E
<1>9. \A n \in 1 .. N - 1 : E[n] = ExponentOf(E, n)
  BY <1>8 DEF IsExponent
<1> QED BY <1>9 DEF E

-----------------------------------------------------------------------------
(* Congruence goes both ways.                                              *)
LEMMA CongSym ==
  ASSUME NEW x \in Int, NEW y \in Int, Cong(x, y)
  PROVE  Cong(y, x)
BY CongEqual

(* Powers of the root.                                                     *)

(* The e-th power, for any natural e.                                      *)
Power(e) == Powers[e % (2 * N)]

(* It is in the field, and determined by the residue of e.                 *)
LEMMA PowerType ==
  ASSUME NEW e \in Nat
  PROVE  /\ Power(e) \in Int
         /\ (e < 2 * N) => Power(e) = Powers[e]
         /\ \A m \in Nat : Power(e + m * (2 * N)) = Power(e)
<1> DEFINE n == 2 * N
           r == e % n
           q == e \div n
<1>1. n \in Nat /\ n > 0
  BY Sizes, SMT
<1> HIDE DEF n
<1>2. r \in Int /\ 0 <= r /\ r < n /\ q \in Int /\ e = q * n + r
  BY <1>1, DivMod, SMT
<1>3. Powers[r] \in Int
  <2>1. r \in 0 .. 2 * N - 1
    BY <1>1, <1>2, SMT DEF n
  <2> HIDE DEF r
  <2>2. Powers[r] \in 0 .. Q - 1
    BY <2>1, FieldAssumption
  <2> QED BY <2>2, Constants, SMT
<1>4. (e < n) => r = e
  <2>1. ASSUME e < n PROVE r = e
    <3>1. 0 * n + e = e
      BY <1>1, SMT
    <3>2. (0 * n + e) % n = e
      BY <1>1, <2>1, DivUnique, SMT
    <3> QED BY <3>1, <3>2
  <2> QED BY <2>1
<1>5. ASSUME NEW m \in Nat PROVE (e + m * n) % n = r
  <2> HIDE DEF r, q
  <2>1. e + m * n = (q + m) * n + r /\ q + m \in Int
    <3>1. (q + m) * n = q * n + m * n /\ q * n \in Int /\ m * n \in Int
      BY <1>1, <1>2, SMT
    <3> QED BY <1>2, <3>1, SMT
  <2>2. ((q + m) * n + r) % n = r
    BY <1>1, <1>2, <2>1, DivUnique
  <2> QED BY <2>1, <2>2
<1> QED BY <1>3, <1>4, <1>5 DEF Power, n

(* One factor more.                                                        *)
LEMMA PowerStep ==
  ASSUME NEW e \in Nat
  PROVE  Cong(Power(e + 1), Power(e) * Power(1))
<1> DEFINE n == 2 * N
           r == e % n
           q == e \div n
           p == Powers[1]
<1>1. n \in Nat /\ n > 0 /\ N \in Nat /\ N >= 2 /\ n = N + N
  BY Sizes, SMT
<1>2. r \in Int /\ 0 <= r /\ r < n /\ q \in Int /\ e = q * n + r /\ q >= 0
  <2>1. r \in Int /\ 0 <= r /\ r < n /\ q \in Int /\ e = q * n + r
    BY <1>1, DivMod, SMT
  <2>2. q >= 0
    BY <1>1, SMT
  <2> QED BY <2>1, <2>2
<1>3. \A x \in 0 .. n - 1 : Powers[x] \in Int
  <2>1. \A x \in 0 .. 2 * N - 1 : Powers[x] \in 0 .. Q - 1
    BY FieldAssumption
  <2> QED BY <2>1, Constants, SMT
<1>4. p \in Int /\ Power(1) = p
  <2>1. 1 \in 0 .. n - 1 /\ 1 \in Nat /\ 1 < 2 * N
    BY <1>1, SMT
  <2> QED BY <1>3, <2>1, PowerType
<1>5. \A x \in 0 .. n - 2 : Powers[x + 1] = (Powers[x] * p) % Q
  BY FieldAssumption
<1> HIDE DEF n, r, q, p
<1>6. \A x \in 0 .. n - 2 : Cong(Powers[x + 1], Powers[x] * p)
  <2> SUFFICES ASSUME NEW x \in 0 .. n - 2 PROVE Cong(Powers[x + 1], Powers[x] * p)
    OBVIOUS
  <2>1. x \in 0 .. n - 1
    BY <1>1, SMT
  <2>2. Powers[x] * p \in Int
    BY <1>3, <1>4, <2>1, SMT
  <2> QED BY <1>5, <2>2, CongEqual
(* The second half is the negative of the first.                           *)
<1> DEFINE S == {x \in Nat : x <= N - 1 => Cong(Powers[N + x], -Powers[x])}
<1>7. 0 \in S
  <2>1. Powers[N + 0] = Q - 1 /\ Powers[0] = 1
    BY <1>1, FieldAssumption, SMT
  <2>2. Q - 1 = -1 + 1 * Q /\ 1 \in Int
    BY Constants, SMT
  <2>3. Cong(Q - 1, -1)
    BY <2>2 DEF Cong
  <2> QED BY <2>1, <2>3
<1>8. ASSUME NEW x \in S PROVE x + 1 \in S
  <2> SUFFICES ASSUME x + 1 <= N - 1 PROVE Cong(Powers[N + (x + 1)], -Powers[x + 1])
    OBVIOUS
  <2>1. /\ N + (x + 1) = (N + x) + 1 /\ N + x \in 0 .. n - 2 /\ x \in 0 .. n - 2
        /\ x \in 0 .. n - 1 /\ N + x \in 0 .. n - 1 /\ (N + x) + 1 \in 0 .. n - 1
        /\ x + 1 \in 0 .. n - 1 /\ x <= N - 1
    BY <1>1, SMT
  <2> DEFINE u == Powers[N + x]
             v == Powers[x]
             y == Powers[(N + x) + 1]
             z == Powers[x + 1]
  <2>2. Cong(u, -v) /\ Cong(y, u * p) /\ Cong(z, v * p)
    BY <1>6, <2>1
  <2>3. u \in Int /\ v \in Int /\ y \in Int /\ z \in Int
    BY <1>3, <2>1
  <2> HIDE DEF u, v, y, z
  <2>4. /\ (-v) * p = -(v * p) /\ u * p \in Int /\ v * p \in Int /\ -v \in Int
        /\ -(v * p) \in Int /\ -z \in Int
    BY <1>4, <2>3, SMT
  <2>5. Cong(u * p, -(v * p))
    <3>1. Cong(p, p)
      BY <1>4, CongEqual
    <3> QED BY <1>4, <2>2, <2>3, <2>4, <3>1, CongProduct
  <2>6. Cong(-z, -(v * p))
    BY <2>2, <2>3, <2>4, CongSum
  <2>7. Cong(y, -(v * p))
    BY <2>2, <2>3, <2>4, <2>5, CongTrans
  <2>8. Cong(-(v * p), -z)
    BY <2>4, <2>6, CongSym
  <2>9. Cong(y, -z)
    BY <2>3, <2>4, <2>7, <2>8, CongTrans
  <2> QED BY <2>1, <2>9 DEF y, z
<1>9. S = Nat
  <2> HIDE DEF S
  <2>1. S \subseteq Nat
    BY DEF S
  <2> QED BY <1>7, <1>8, <2>1, SetInduction
<1>10. Cong(Powers[0], Powers[n - 1] * p)
  <2>0. N - 1 \in Nat /\ N + (N - 1) = n - 1 /\ N - 1 \in 0 .. n - 2 /\ N - 1 \in 0 .. n - 1
        /\ (N - 1) + 1 = N /\ n - 1 \in 0 .. n - 1 /\ N - 1 <= N - 1
    BY <1>1, SMT
  <2> DEFINE u == Powers[n - 1]
             v == Powers[N - 1]
  <2>1. Cong(u, -v)
    BY <1>9, <2>0
  <2>2. Cong(Q - 1, v * p)
    BY <1>6, <2>0, FieldAssumption
  <2>3. u \in Int /\ v \in Int
    BY <1>3, <2>0
  <2> HIDE DEF u, v
  <2>4. (-v) * p = -(v * p) /\ u * p \in Int /\ v * p \in Int /\ -v \in Int
        /\ -(v * p) \in Int /\ Q - 1 \in Int /\ -(Q - 1) \in Int
    BY <1>4, <2>3, Constants, SMT
  <2>5. Cong(u * p, -(v * p))
    <3>1. Cong(p, p)
      BY <1>4, CongEqual
    <3> QED BY <1>4, <2>1, <2>3, <2>4, <3>1, CongProduct
  <2>6. Cong(-(Q - 1), -(v * p))
    BY <2>2, <2>4, CongSum
  <2>7. Cong(1, -(Q - 1))
    <3>1. 1 = -(Q - 1) + 1 * Q
      BY Constants, SMT
    <3> QED BY <3>1 DEF Cong
  <2>8. Cong(1, -(v * p))
    BY <2>4, <2>6, <2>7, CongTrans
  <2>9. Cong(-(v * p), u * p)
    BY <2>4, <2>5, CongSym
  <2>10. Cong(1, u * p)
    BY <2>4, <2>8, <2>9, CongTrans
  <2> QED BY <2>10, FieldAssumption DEF u
<1>11. Power(e) = Powers[r]
  BY DEF Power, r, n
<1>12. CASE r <= n - 2
  <2>1. e + 1 = q * n + (r + 1) /\ r + 1 \in Int /\ 0 <= r + 1 /\ r + 1 < n
    <3>1. q * n \in Int
      BY <1>1, <1>2, SMT
    <3> QED BY <1>1, <1>2, <1>12, <3>1, SMT
  <2>2. (q * n + (r + 1)) % n = r + 1
    BY <1>1, <1>2, <2>1, DivUnique
  <2>3. Power(e + 1) = Powers[r + 1]
    BY <2>1, <2>2 DEF Power, n
  <2>4. r \in 0 .. n - 2
    BY <1>1, <1>2, <1>12, SMT
  <2> QED BY <1>4, <1>6, <1>11, <2>3, <2>4
<1>13. CASE r = n - 1
  <2>1. e + 1 = (q + 1) * n + 0 /\ q + 1 \in Int
    <3>1. q * n \in Int /\ (q + 1) * n = q * n + n
      BY <1>1, <1>2, SMT
    <3> QED BY <1>1, <1>2, <1>13, <3>1, SMT
  <2>2. ((q + 1) * n + 0) % n = 0
    BY <1>1, <2>1, DivUnique
  <2>3. Power(e + 1) = Powers[0]
    BY <2>1, <2>2 DEF Power, n
  <2> QED BY <1>4, <1>10, <1>11, <1>13, <2>3
<1> QED BY <1>1, <1>2, <1>12, <1>13, SMT

(* Exponents add up.                                                       *)
LEMMA PowerSum ==
  ASSUME NEW e \in Nat, NEW f \in Nat
  PROVE  Cong(Power(e + f), Power(e) * Power(f))
<1> DEFINE S == {x \in Nat : Cong(Power(e + x), Power(e) * Power(x))}
<1>1. \A x \in Nat : Power(x) \in Int
  BY PowerType
<1>2. 0 \in S
  <2>1. Power(0) = 1
    <3>1. 0 \in Nat /\ 0 < 2 * N
      BY Sizes, SMT
    <3>2. Power(0) = Powers[0]
      BY <3>1, PowerType
    <3> QED BY <3>2, FieldAssumption
  <2>2. e + 0 = e /\ Power(e) * 1 = Power(e)
    BY <1>1, SMT
  <2>3. Cong(Power(e), Power(e))
    BY <1>1, CongEqual
  <2> QED BY <2>1, <2>2, <2>3
<1>3. ASSUME NEW x \in S PROVE x + 1 \in S
  <2> DEFINE c == Power(e)
             y == Power(x)
             p == Power(1)
             u == Power(e + x)
  <2>1. Cong(Power((e + x) + 1), u * p) /\ Cong(Power(x + 1), y * p) /\ Cong(u, c * y)
    BY PowerStep
  <2>2. c \in Int /\ y \in Int /\ p \in Int /\ u \in Int
    BY <1>1
  <2> DEFINE s == Power((e + x) + 1)
             t == Power(x + 1)
  <2>3. s \in Int /\ t \in Int
    BY <1>1
  <2> HIDE DEF c, y, p, u, s, t
  <2>4. /\ u * p \in Int /\ y * p \in Int /\ c * y \in Int /\ (c * y) * p = c * (y * p)
        /\ c * (y * p) \in Int /\ c * t \in Int
    BY <2>2, <2>3, SMT
  <2>5. Cong(u * p, c * (y * p))
    <3>1. Cong(p, p)
      BY <2>2, CongEqual
    <3>2. Cong(u * p, (c * y) * p)
      BY <2>1, <2>2, <2>4, <3>1, CongProduct
    <3> QED BY <2>4, <3>2
  <2>6. Cong(c * t, c * (y * p))
    <3>1. Cong(c, c)
      BY <2>2, CongEqual
    <3>2. Cong(t, y * p)
      BY <2>1 DEF t
    <3> QED BY <2>2, <2>3, <2>4, <3>1, <3>2, CongProduct
  <2>7. Cong(s, c * (y * p))
    <3>1. Cong(s, u * p)
      BY <2>1 DEF s
    <3> QED BY <2>3, <2>4, <2>5, <3>1, CongTrans
  <2>8. Cong(s, c * t)
    <3>1. Cong(c * (y * p), c * t)
      BY <2>4, <2>6, CongSym
    <3> QED BY <2>3, <2>4, <2>7, <3>1, CongTrans
  <2>9. (e + x) + 1 = e + (x + 1) /\ x + 1 \in Nat
    OBVIOUS
  <2> QED BY <2>8, <2>9 DEF c, s, t
<1>4. S = Nat
  <2> HIDE DEF S
  <2>1. S \subseteq Nat
    BY DEF S
  <2> QED BY <1>2, <1>3, <2>1, SetInduction
<1> QED BY <1>4

-----------------------------------------------------------------------------
(* Blocks and nodes.  A block of a layer of length l has 2*l indices.      *)

Blocks(l)    == N \div (2 * l)
BlockOf(l, i) == i \div (2 * l)

(* Which half of its block index i is in.                                  *)
HalfOf(l, i) == IF i % (2 * l) < l THEN 0 ELSE 1

(* The first index of its block, and of its half of the block.             *)
Base(l, i) == BlockOf(l, i) * (2 * l)
Own(l, i)  == Base(l, i) + HalfOf(l, i) * l

(* An index is in a block of the array, and the block at a node.           *)
LEMMA BlockFacts ==
  ASSUME NEW l \in Lengths, NEW i \in Index
  PROVE  /\ l \in Int /\ l >= 1 /\ 2 * l <= N /\ N = Blocks(l) * (2 * l)
         /\ Blocks(l) \in Int /\ Blocks(l) >= 1 /\ 2 * Blocks(l) <= N
         /\ BlockOf(l, i) \in Int /\ 0 <= BlockOf(l, i) /\ BlockOf(l, i) <= Blocks(l) - 1
         /\ Base(l, i) \in Int /\ 0 <= Base(l, i) /\ Base(l, i) + 2 * l <= N
         /\ HalfOf(l, i) \in {0, 1}
         /\ i = Base(l, i) + (i % (2 * l)) /\ i \in Int
         /\ i % (2 * l) \in Int /\ 0 <= i % (2 * l) /\ i % (2 * l) < 2 * l
         /\ NttField!NodeOf(l, i) = Blocks(l) + BlockOf(l, i)
         /\ NttField!NodeOf(l, i) \in 1 .. N - 1
<1> DEFINE n == 2 * l
           c == N \div n
           b == i \div n
           r == i % n
<1>1. /\ l \in Int /\ l >= 1 /\ n \in Nat /\ n > 0 /\ n = l + l /\ N \in Nat /\ i \in Int
      /\ 0 <= i /\ i < N /\ N = c * n
  <2>1. l \in Int /\ l >= 1 /\ N = (N \div (2 * l)) * (2 * l) /\ N \in Nat
    BY NttAssumption, LengthFacts, SMT
  <2>2. i \in Int /\ 0 <= i /\ i < N
    BY <2>1, SMT DEF Index
  <2> QED BY <2>1, <2>2, SMT
<1>2. c \in Int
  BY <1>1, SMT
<1>3. b \in Int /\ r \in Int /\ 0 <= r /\ r < n /\ i = b * n + r
  BY <1>1, DivMod
<1> HIDE DEF n, c, b, r
<1>4. b * n \in Int /\ c * n \in Int /\ b * l \in Int /\ c * l \in Int
  BY <1>1, <1>2, <1>3, SMT
<1>5. c >= 1
  <2> SUFFICES ASSUME c <= 0 PROVE FALSE
    BY <1>2, SMT
  <2>1. c * n <= 0 * n /\ 0 * n = 0
    BY <1>1, <1>2, Monotone, SMT
  <2> QED BY <1>1, <1>4, <2>1, SMT
<1>6. 0 <= b
  <2> SUFFICES ASSUME b <= -1 PROVE FALSE
    BY <1>3, SMT
  <2>1. b * n <= (-1) * n /\ (-1) * n = -n
    BY <1>1, <1>3, Monotone, SMT
  <2> QED BY <1>1, <1>3, <1>4, <2>1, SMT
<1>7. b <= c - 1
  <2> SUFFICES ASSUME c <= b PROVE FALSE
    BY <1>2, <1>3, SMT
  <2>1. c * n <= b * n
    BY <1>1, <1>2, <1>3, Monotone, SMT
  <2> QED BY <1>1, <1>3, <1>4, <2>1, SMT
<1>8. 0 <= b * n /\ b * n + n <= N
  <2>1. 0 * n <= b * n /\ 0 * n = 0
    BY <1>1, <1>3, <1>6, Monotone, SMT
  <2>2. (b + 1) * n <= c * n /\ (b + 1) * n = b * n + n
    BY <1>1, <1>2, <1>3, <1>7, Monotone, SMT
  <2> QED BY <1>1, <1>4, <2>1, <2>2, SMT
<1>9. 2 * c <= N /\ n <= N
  <2>1. 2 * c <= n * c /\ n * c = c * n
    BY <1>1, <1>2, <1>5, Monotone, SMT
  <2>2. 1 * n <= c * n /\ 1 * n = n
    BY <1>1, <1>2, <1>5, Monotone, SMT
  <2> QED BY <1>1, <1>4, <2>1, <2>2, SMT
<1>10. c + b \in 1 .. N - 1
  BY <1>1, <1>2, <1>3, <1>5, <1>6, <1>7, <1>9, SMT
<1>11. (IF r < l THEN 0 ELSE 1) \in {0, 1}
  OBVIOUS
<1> QED BY <1>1, <1>2, <1>3, <1>4, <1>5, <1>6, <1>7, <1>8, <1>9, <1>10, <1>11
        DEF Blocks, BlockOf, HalfOf, Base, n, c, b, r, NttField!NodeOf

(* The node of a half is a child of the node of the block.                 *)
LEMMA NodeAbove ==
  ASSUME NEW l \in Lengths, 2 * l \in Lengths, NEW i \in Index
  PROVE  /\ NttField!NodeOf(l, i) = 2 * NttField!NodeOf(2 * l, i) + HalfOf(2 * l, i)
         /\ Own(2 * l, i) = Base(l, i)
<1> DEFINE g == 2 * l
           c == Blocks(g)
           b == BlockOf(g, i)
           r == i % (2 * g)
           h == HalfOf(g, i)
<1>0. g \in Lengths /\ l \in Int /\ l >= 1 /\ g = l + l
  BY LengthFacts, SMT
<1>1. /\ g \in Int /\ g >= 1 /\ N = c * (2 * g) /\ c \in Int
      /\ b \in Int /\ h \in {0, 1} /\ i = b * (2 * g) + r /\ i \in Int
      /\ r \in Int /\ 0 <= r /\ r < 2 * g
      /\ NttField!NodeOf(g, i) = c + b
  <2> HIDE DEF g
  <2> QED BY <1>0, BlockFacts DEF Base, c, b, r, h
<1>2. h = IF r < g THEN 0 ELSE 1
  BY DEF HalfOf
<1>3. BlockOf(l, i) = i \div g /\ Blocks(l) = N \div g
  BY DEF BlockOf, Blocks
<1> HIDE DEF c, b, r, h
<1>4. N \div g = 2 * c
  <2>1. (2 * c) * g + 0 = N
    <3>1. (2 * c) * g = c * (2 * g) /\ c * (2 * g) \in Int
      BY <1>1, SMT
    <3> QED BY <1>1, <3>1
  <2> HIDE DEF g
  <2>2. ((2 * c) * g + 0) \div g = 2 * c
    BY <1>1, DivUnique, SMT
  <2> QED BY <2>1, <2>2
<1>5. i \div g = 2 * b + h
  <2> HIDE DEF g
  <2> DEFINE s == r - h * g
  <2>1. s \in Int /\ 0 <= s /\ s < g
    <3>1. CASE r < g
      <4>1. h = 0 /\ 0 * g = 0
        BY <1>1, <1>2, <3>1, SMT
      <4> QED BY <1>1, <3>1, <4>1, SMT
    <3>2. CASE ~(r < g)
      <4>1. h = 1 /\ 1 * g = g
        BY <1>1, <1>2, <3>2, SMT
      <4> QED BY <1>1, <3>2, <4>1, SMT
    <3> QED BY <3>1, <3>2
  <2>2. (2 * b + h) * g = b * (2 * g) + h * g /\ b * (2 * g) \in Int /\ h * g \in Int
        /\ 2 * b + h \in Int
    BY <1>1, SMT
  <2>3. r = h * g + s
    BY <1>1, <2>2, SMT
  <2> HIDE DEF s
  <2>4. (2 * b + h) * g + s = i
    BY <1>1, <2>1, <2>2, <2>3, SMT
  <2>5. ((2 * b + h) * g + s) \div g = 2 * b + h
    BY <1>1, <2>1, <2>2, DivUnique, SMT
  <2> QED BY <2>4, <2>5
<1>6. Own(g, i) = Base(l, i)
  <2>1. Base(l, i) = (2 * b + h) * g
    BY <1>3, <1>5 DEF Base
  <2>2. Own(g, i) = b * (2 * g) + h * g
    BY DEF Own, Base, b, h
  <2> HIDE DEF g
  <2>3. (2 * b + h) * g = b * (2 * g) + h * g
    BY <1>1, SMT
  <2> QED BY <2>1, <2>2, <2>3
<1>7. NttField!NodeOf(l, i) = 2 * c + (2 * b + h)
  BY <1>3, <1>4, <1>5 DEF NttField!NodeOf
<1>8. NttField!NodeOf(g, i) = c + b
  BY <1>1
<1> HIDE DEF g
<1>9. 2 * c + (2 * b + h) = 2 * (c + b) + h
  BY <1>1, SMT
<1> QED BY <1>6, <1>7, <1>8, <1>9 DEF g, h

-----------------------------------------------------------------------------
(* The exponents of the nodes.                                             *)

(* The exponent at a node of a layer of length l is a multiple of l.       *)
Divides(l, e) == \E m \in Int : e = m * l

(* A node's exponent is half of that of the node above or of its negative. *)
ExponentBelow(l, i) ==
  /\ Divides(l, NttField!Exponent[NttField!NodeOf(l, i)])
  /\ (2 * l < N) =>
       2 * NttField!Exponent[NttField!NodeOf(l, i)]
         = NttField!Exponent[NttField!NodeOf(2 * l, i)] + HalfOf(2 * l, i) * N

(* It holds in a layer if it holds in the one before.                      *)
LEMMA ExponentDown ==
  ASSUME NEW l \in Lengths, 2 * l \in Lengths, NEW i \in Index, ExponentBelow(2 * l, i)
  PROVE  ExponentBelow(l, i)
<1> DEFINE E == NttField!Exponent
           p == NttField!NodeOf(2 * l, i)
           q == NttField!NodeOf(l, i)
           h == HalfOf(2 * l, i)
           c == Blocks(2 * l)
<1>1. q = 2 * p + h /\ q \in 1 .. N - 1 /\ p \in 1 .. N - 1 /\ h \in {0, 1}
      /\ N = c * (2 * (2 * l)) /\ c \in Int /\ l \in Int /\ l >= 1 /\ N \in Nat
  BY NodeAbove, BlockFacts, NttAssumption
<1>2. PICK m \in Int : E[p] = m * (2 * l)
  BY DEF ExponentBelow, Divides
<1>3. E[q] = ExponentOf(E, q)
  BY <1>1, ExponentRule
<1> HIDE DEF E, p, q, h, c
<1>4. q # 1 /\ q \div 2 = p /\ (q % 2 = 0 <=> h = 0)
  BY <1>1, SMT
<1>5. /\ m * (2 * l) = (m * l) * 2 /\ m * l \in Int
      /\ N = ((c * l) * 2) * 2 /\ c * l \in Int
  BY <1>1, <1>2, SMT
<1>6. CASE h = 0
  <2>1. E[q] = E[p] \div 2
    BY <1>3, <1>4, <1>6 DEF ExponentOf
  <2>2. \A x \in Int : (x * 2) \div 2 = x
    BY SMT
  <2>3. E[q] = m * l
    BY <1>2, <1>5, <2>1, <2>2
  <2>4. 2 * (m * l) = m * (2 * l) + 0 * N
    BY <1>1, <1>2, <1>5, SMT
  <2>5. 2 * E[q] = E[p] + h * N
    BY <1>2, <1>6, <2>3, <2>4
  <2> QED BY <2>3, <2>5 DEF ExponentBelow, Divides, E, p, q, h
<1>7. CASE h = 1
  <2>1. E[q] = (E[p] + N) \div 2
    BY <1>3, <1>4, <1>7 DEF ExponentOf
  <2> DEFINE u == m * l
             v == c * l
  <2>2. E[p] + N = (u + 2 * v) * 2 /\ u \in Int /\ v \in Int
    <3>1. E[p] = (m * l) * 2 /\ N = ((c * l) * 2) * 2
      BY <1>2, <1>5
    <3>2. E[p] = u * 2 /\ N = (v * 2) * 2 /\ u \in Int /\ v \in Int
      BY <1>5, <3>1
    <3> HIDE DEF u, v
    <3> QED BY <3>2, SMT
  <2>3. u + 2 * v = (m + 2 * c) * l /\ m + 2 * c \in Int
    BY <1>1, <1>2, SMT
  <2> HIDE DEF u, v
  <2>4. \A x \in Int : (x * 2) \div 2 = x
    BY SMT
  <2>5. E[q] = u + 2 * v
    BY <2>1, <2>2, <2>4
  <2>6. 2 * E[q] = E[p] + h * N
    <3>1. 2 * (u + 2 * v) = (u + 2 * v) * 2 /\ 1 * N = N
      BY <1>1, <2>2, SMT
    <3> QED BY <1>7, <2>2, <2>5, <3>1
  <2>7. E[q] = (m + 2 * c) * l
    BY <2>3, <2>5
  <2> QED BY <2>3, <2>6, <2>7 DEF ExponentBelow, Divides, E, p, q, h
<1> QED BY <1>1, <1>6, <1>7

(* It holds in all layers.                                                 *)
LEMMA ExponentsBelow ==
  ASSUME NEW i \in Index
  PROVE  \A l \in Lengths : ExponentBelow(l, i)
<1> DEFINE S == {d \in Nat : \A l \in Lengths : N - l <= d + N \div 2 => ExponentBelow(l, i)}
<1>0. /\ N \in Nat /\ N \div 2 \in Nat /\ N = 2 * (N \div 2) /\ N \div 2 \in Lengths
      /\ \A l \in Lengths : l \in Int /\ 1 <= l /\ l <= N \div 2
      /\ \A l \in Lengths : 2 * l < N => 2 * l \in Lengths
  BY NttAssumption, SMT
<1>1. 0 \in S
  <2> SUFFICES ASSUME NEW l \in Lengths, N - l <= 0 + N \div 2 PROVE ExponentBelow(l, i)
    OBVIOUS
  <2>1. l = N \div 2 /\ 2 * l = N
    BY <1>0, SMT
  <2>2. NttField!NodeOf(l, i) = 1
    <3>1. /\ N = Blocks(l) * N /\ Blocks(l) \in Int /\ 0 <= BlockOf(l, i)
          /\ BlockOf(l, i) <= Blocks(l) - 1 /\ BlockOf(l, i) \in Int
          /\ NttField!NodeOf(l, i) = Blocks(l) + BlockOf(l, i)
      BY <2>1, BlockFacts
    <3>2. 1 * N + 0 = Blocks(l) * N + 0 /\ N > 0
      BY <1>0, <3>1, Sizes, SMT
    <3>3. Blocks(l) = 1
      BY <1>0, <3>1, <3>2, Unique, SMT
    <3> QED BY <3>1, <3>3, SMT
  <2>3. NttField!Exponent[1] = N \div 2
    <3>1. 1 \in 1 .. N - 1
      BY <1>0, Sizes, SMT
    <3> QED BY <3>1, ExponentRule DEF ExponentOf
  <2>4. N \div 2 = 1 * l /\ ~(2 * l < N)
    BY <1>0, <2>1, SMT
  <2> QED BY <2>2, <2>3, <2>4 DEF ExponentBelow, Divides
<1>2. ASSUME NEW d \in S PROVE d + 1 \in S
  <2> SUFFICES ASSUME NEW l \in Lengths, N - l <= (d + 1) + N \div 2
               PROVE  ExponentBelow(l, i)
    OBVIOUS
  <2>1. CASE N - l <= d + N \div 2
    BY <2>1
  <2>2. CASE ~(N - l <= d + N \div 2)
    <3>1. 2 * l < N /\ N - 2 * l <= d + N \div 2
      BY <1>0, <2>2, SMT
    <3>2. 2 * l \in Lengths
      BY <1>0, <3>1
    <3>3. ExponentBelow(2 * l, i)
      BY <3>1, <3>2
    <3> QED BY <3>2, <3>3, ExponentDown
  <2> QED BY <2>1, <2>2
<1>3. S = Nat
  <2> HIDE DEF S
  <2>1. S \subseteq Nat
    BY DEF S
  <2> QED BY <1>1, <1>2, <2>1, SetInduction
<1>4. \A l \in Lengths : N - l <= N + N \div 2
  BY <1>0, SMT
<1>5. N \in S
  BY <1>0, <1>3
<1> QED BY <1>4, <1>5

-----------------------------------------------------------------------------
(* The roots at the leaves.                                                *)

(* A leaf's exponent times l is that of its block, or of its negative.     *)
LeafBelow(l, i) ==
  \E m \in Nat :
    LeafExponent(i) * l
      = NttField!Exponent[NttField!NodeOf(l, i)] + HalfOf(l, i) * N + m * (2 * N)

(* Every leaf lies below some block of each layer: its exponent is a       *)
(* natural number, and at each length the leaf is a root of its block.     *)
LEMMA LeavesBelow ==
  ASSUME NEW i \in Index
  PROVE  LeafExponent(i) \in Nat /\ \A l \in Lengths : LeafBelow(l, i)
<1> DEFINE E == NttField!Exponent
           S == {d \in Nat : \A l \in Lengths : l <= d => LeafBelow(l, i)}
<1>0. /\ N \in Nat /\ 1 \in Lengths
      /\ \A l \in Lengths : l \in Int /\ l >= 1 /\ 2 * l <= N
      /\ \A l \in Lengths : l > 1 => (l \div 2 \in Lengths /\ l = 2 * (l \div 2))
  <2>1. N \in Nat /\ 1 \in Lengths
        /\ \A l \in Lengths : l > 1 => (l \div 2 \in Lengths /\ l = 2 * (l \div 2))
    BY NttAssumption
  <2> QED BY <2>1, LengthFacts
<1>1. \A l \in Lengths : /\ NttField!NodeOf(l, i) \in 1 .. N - 1
                         /\ E[NttField!NodeOf(l, i)] \in 1 .. N - 1
                         /\ HalfOf(l, i) \in {0, 1}
  BY BlockFacts, TableAssumption
<1>2. LeafExponent(i) = E[NttField!NodeOf(1, i)] + HalfOf(1, i) * N
      /\ LeafExponent(i) \in Nat
  <2>1. NttField!NodeOf(1, i) = N \div 2 + i \div 2
    BY DEF NttField!NodeOf
  <2>2. HalfOf(1, i) = IF i % 2 = 0 THEN 0 ELSE 1
    <3>1. i % 2 < 1 <=> i % 2 = 0
      BY <1>0, SMT DEF Index
    <3> QED BY <3>1 DEF HalfOf
  <2>3. LeafExponent(i) = E[NttField!NodeOf(1, i)] + (IF i % 2 = 0 THEN 0 ELSE N)
    BY <2>1 DEF LeafExponent
  <2>4. (IF i % 2 = 0 THEN 0 ELSE N) = HalfOf(1, i) * N
    BY <1>0, <2>2, SMT
  <2>5. E[NttField!NodeOf(1, i)] \in Nat /\ HalfOf(1, i) * N \in Nat
    <3>1. E[NttField!NodeOf(1, i)] \in 1 .. N - 1 /\ HalfOf(1, i) \in {0, 1}
      BY <1>0, <1>1
    <3>2. HalfOf(1, i) * N \in Nat
      BY <1>0, <3>1, SMT
    <3>3. \A x \in 1 .. N - 1 : x \in Nat
      BY <1>0, SMT
    <3> QED BY <3>1, <3>2, <3>3
  <2>6. LeafExponent(i) = E[NttField!NodeOf(1, i)] + HalfOf(1, i) * N
    BY <2>3, <2>4
  <2> HIDE DEF E
  <2> QED BY <2>5, <2>6, SMT
<1>3. LeafBelow(1, i)
  <2> DEFINE x == LeafExponent(i)
             y == E[NttField!NodeOf(1, i)] + HalfOf(1, i) * N
  <2>1. x = y /\ x \in Nat
    BY <1>2
  <2> HIDE DEF x, y
  <2>2. x * 1 = y + 0 * (2 * N) /\ 0 \in Nat
    BY <1>0, <2>1, SMT
  <2> QED BY <2>2 DEF LeafBelow, x, y
<1>4. 0 \in S
  BY <1>0, SMT
<1>5. ASSUME NEW d \in S PROVE d + 1 \in S
  <2> SUFFICES ASSUME NEW l \in Lengths, l <= d + 1, l > 1 PROVE LeafBelow(l, i)
    BY <1>0, <1>3, SMT
  <2> DEFINE g == l \div 2
             x == LeafExponent(i)
             e == E[NttField!NodeOf(g, i)]
             ee == E[NttField!NodeOf(l, i)]
             h == HalfOf(g, i)
             hh == HalfOf(l, i)
  <2>1. g \in Lengths /\ l = 2 * g /\ g \in Int /\ g <= d /\ 2 * g < N
    BY <1>0, SMT
  <2>2. PICK m \in Nat : x * g = e + h * N + m * (2 * N)
    BY <2>1 DEF LeafBelow
  <2>3. 2 * e = ee + hh * N
    BY <2>1, ExponentsBelow DEF ExponentBelow
  <2>4. e \in 1 .. N - 1 /\ ee \in 1 .. N - 1 /\ h \in {0, 1} /\ hh \in {0, 1} /\ x \in Nat
    BY <1>1, <1>2, <2>1
  <2> HIDE DEF g, x, e, ee, h, hh
  <2>5. x * l = 2 * (x * g) /\ x * g \in Int
    BY <2>1, <2>4, SMT
  <2>6. /\ 2 * (e + h * N + m * (2 * N)) = 2 * e + (h + 2 * m) * (2 * N)
        /\ h + 2 * m \in Nat /\ (h + 2 * m) * (2 * N) \in Int
    <3>1. (h + 2 * m) * (2 * N) = 2 * (h * N) + 2 * (m * (2 * N))
          /\ h * N \in Int /\ m * (2 * N) \in Int /\ h + 2 * m \in Nat
      BY <1>0, <2>4, SMT
    <3>2. e \in Int
      BY <2>4, SMT
    <3> QED BY <3>1, <3>2, SMT
  <2>7. x * l = ee + hh * N + (h + 2 * m) * (2 * N)
    BY <2>2, <2>3, <2>5, <2>6
  <2> QED BY <2>6, <2>7 DEF LeafBelow, x, ee, hh
<1>6. S = Nat
  <2> HIDE DEF S
  <2>1. S \subseteq Nat
    BY DEF S
  <2> QED BY <1>4, <1>5, <2>1, SetInduction
<1>7. \A l \in Lengths : l \in Nat
  BY <1>0, SMT
<1> QED BY <1>2, <1>6, <1>7

(* The factor of the block at a node of the tree.                          *)
BlockFactor(l, i) == Powers[NttField!Exponent[NttField!NodeOf(l, i)]]

InverseFactor(l, i) == Powers[2 * N - NttField!Exponent[NttField!NodeOf(l, i)]]

Sign(l, i) == 1 - 2 * HalfOf(l, i)

(* The l-th power of the root at a leaf is the factor of its block of      *)
(* length l, or its negative in the upper half; the inverse loop has the   *)
(* inverse factor.                                                         *)
LEMMA RootSplits ==
  ASSUME NEW i \in Index, NEW l \in Lengths
  PROVE  /\ BlockFactor(l, i) \in Int /\ InverseFactor(l, i) \in Int
         /\ Cong(InverseFactor(l, i) * BlockFactor(l, i), 1)
         /\ Sign(l, i) \in {-1, 1}
         /\ Root(i, 0) = 1
         /\ \A t \in Nat :
              /\ Root(i, t) \in Int
              /\ Cong(Root(i, l + t), Sign(l, i) * BlockFactor(l, i) * Root(i, t))
<1> DEFINE x == LeafExponent(i)
           e == NttField!Exponent[NttField!NodeOf(l, i)]
           h == HalfOf(l, i)
<1>0. /\ N \in Nat /\ N >= 2 /\ l \in Nat /\ x \in Nat /\ e \in 1 .. N - 1 /\ h \in {0, 1}
  <2>1. NttField!NodeOf(l, i) \in 1 .. N - 1 /\ h \in {0, 1} /\ l \in Int /\ l >= 1
    BY BlockFacts
  <2>2. e \in 1 .. N - 1
    BY <2>1, TableAssumption
  <2>3. x \in Nat
    BY LeavesBelow
  <2>4. l \in Nat /\ N \in Nat /\ N >= 2
    BY <2>1, Sizes, SMT
  <2> QED BY <2>1, <2>2, <2>3, <2>4
<1>1. PICK m \in Nat : x * l = e + h * N + m * (2 * N)
  BY LeavesBelow DEF LeafBelow
<1> HIDE DEF x, e, h
<1>2. e \in Nat /\ e < 2 * N /\ 2 * N - e \in Nat /\ 2 * N - e < 2 * N
      /\ (2 * N - e) + e = 0 + 1 * (2 * N) /\ 0 \in Nat /\ 1 \in Nat /\ 0 < 2 * N /\ N < 2 * N
  BY <1>0, SMT
<1> DEFINE f == Powers[e]
           g == Powers[2 * N - e]
<1>3. f = Power(e) /\ g = Power(2 * N - e) /\ f \in Int /\ g \in Int /\ Power(0) = 1
      /\ Power(N) = Q - 1
  BY <1>0, <1>2, PowerType, FieldAssumption
<1>4. Cong(g * f, 1)
  <2>1. Cong(Power((2 * N - e) + e), Power(2 * N - e) * Power(e))
    BY <1>2, PowerSum
  <2>2. Power((2 * N - e) + e) = 1
    <3>1. Power(0 + 1 * (2 * N)) = Power(0)
      BY <1>2, PowerType
    <3> QED BY <1>2, <1>3, <3>1
  <2> HIDE DEF f, g
  <2>3. Cong(1, g * f) /\ g * f \in Int
    BY <1>3, <2>1, <2>2, SMT
  <2> QED BY <2>3, CongSym
<1>5. \A t \in Nat : x * t \in Nat /\ Root(i, t) = Power(x * t) /\ Root(i, t) \in Int
  <2> SUFFICES ASSUME NEW t \in Nat
               PROVE  x * t \in Nat /\ Root(i, t) = Power(x * t) /\ Root(i, t) \in Int
    OBVIOUS
  <2>1. x * t \in Nat
    BY <1>0, SMT
  <2>2. Root(i, t) = Power(x * t)
    BY DEF Root, Power, x
  <2> QED BY <2>1, <2>2, PowerType
<1>6. Root(i, 0) = 1
  <2>1. x * 0 = 0
    BY <1>0, SMT
  <2> QED BY <1>2, <1>3, <1>5, <2>1
<1>7. Sign(l, i) = 1 - 2 * h /\ Sign(l, i) \in {-1, 1}
  <2>1. Sign(l, i) = 1 - 2 * h
    BY DEF Sign, h
  <2> QED BY <1>0, <2>1, SMT
<1>8. Cong(Power(x * l), (1 - 2 * h) * f)
  <2>1. h * N \in Nat /\ e + h * N \in Nat
    BY <1>0, <1>2, SMT
  <2>2. Power(x * l) = Power(e + h * N)
    BY <1>1, <2>1, PowerType
  <2>3. CASE h = 0
    <3>1. e + h * N = e /\ (1 - 2 * h) * f = f
      <4> HIDE DEF f
      <4> QED BY <1>0, <1>2, <1>3, <2>3, SMT
    <3>2. Cong(f, f)
      BY <1>3, CongEqual
    <3> QED BY <1>3, <2>2, <3>1, <3>2
  <2>4. CASE h = 1
    <3>1. e + h * N = e + N /\ (1 - 2 * h) * f = -f /\ f * (Q - 1) = -f + f * Q /\ -f \in Int
          /\ f * (Q - 1) \in Int
      <4> HIDE DEF f
      <4> QED BY <1>0, <1>2, <1>3, <2>4, Constants, SMT
    <3>2. Cong(Power(e + N), f * (Q - 1))
      <4>1. Cong(Power(e + N), Power(e) * Power(N))
        BY <1>0, <1>2, PowerSum
      <4> QED BY <1>3, <4>1
    <3>3. Cong(f * (Q - 1), -f)
      BY <1>3, <3>1 DEF Cong
    <3>4. Power(e + N) \in Int
      BY <1>0, <1>2, PowerType
    <3> HIDE DEF f
    <3>5. Cong(Power(e + N), -f)
      BY <3>1, <3>2, <3>3, <3>4, CongTrans
    <3> QED BY <2>2, <3>1, <3>5
  <2> QED BY <1>0, <2>3, <2>4
<1>9. ASSUME NEW t \in Nat
      PROVE  Cong(Root(i, l + t), Sign(l, i) * f * Root(i, t))
  <2> DEFINE u == Power(x * l)
             v == Power(x * t)
             y == Root(i, l + t)
             s == 1 - 2 * h
  <2>0. l + t \in Nat /\ x * l \in Nat /\ x * t \in Nat /\ x * (l + t) = x * l + x * t
    BY <1>0, SMT
  <2>1. Cong(y, u * v)
    <3>1. y = Power(x * l + x * t)
      BY <1>5, <2>0
    <3> QED BY <2>0, <3>1, PowerSum
  <2>2. u \in Int /\ v \in Int /\ y \in Int /\ v = Root(i, t) /\ s \in Int
    <3>1. u \in Int /\ v \in Int
      BY <2>0, PowerType
    <3> QED BY <1>0, <1>5, <2>0, <3>1, SMT
  <2> HIDE DEF u, v, y, s, f
  <2>3. s * f \in Int /\ u * v \in Int /\ (s * f) * v \in Int
    BY <1>3, <2>2, SMT
  <2>4. Cong(u * v, (s * f) * v)
    <3>1. Cong(v, v)
      BY <2>2, CongEqual
    <3>2. Cong(u, s * f)
      BY <1>8 DEF u, s
    <3> QED BY <2>2, <2>3, <3>1, <3>2, CongProduct
  <2>5. Cong(y, (s * f) * v)
    BY <2>1, <2>2, <2>3, <2>4, CongTrans
  <2>6. Sign(l, i) = s
    BY <1>7 DEF s
  <2> QED BY <2>2, <2>5, <2>6 DEF y
<1> QED BY <1>3, <1>4, <1>5, <1>6, <1>7, <1>9
        DEF BlockFactor, InverseFactor, f, g, e

-----------------------------------------------------------------------------
(* The butterflies of one block.                                           *)

(* The pairs of a block, and the half of one that leaf i is under.         *)
LEMMA PairFacts ==
  ASSUME NEW l \in Lengths, NEW i \in Index, NEW t \in 0 .. l - 1
  PROVE  LET x == Base(l, i) + t
         IN  /\ x \in Index /\ x + l \in Index /\ x \in Int /\ (x + l) - l = x /\ x + l >= l
             /\ x \in NttField!Pairs(l) /\ x + l \notin NttField!Pairs(l)
             /\ x >= l => x - l \notin NttField!Pairs(l)
             /\ NttField!NodeOf(l, x) = NttField!NodeOf(l, i)
             /\ Own(l, i) + t = IF HalfOf(l, i) = 0 THEN x ELSE x + l
             /\ HalfOf(l, i) \in {0, 1}
             /\ t \in Nat
<1> DEFINE n == 2 * l
           b == BlockOf(l, i)
           x == Base(l, i) + t
           h == HalfOf(l, i)
<1>1. /\ l \in Int /\ l >= 1 /\ N \in Int /\ b \in Int /\ 0 <= b * n /\ b * n + n <= N
      /\ h \in {0, 1} /\ b * n \in Int
  BY BlockFacts, Sizes DEF Base
<1>2. t \in Int /\ 0 <= t /\ t < l
  BY <1>1, SMT
<1>3. x = b * n + t
  BY DEF Base
<1>4. NttField!NodeOf(l, i) = N \div n + b
  BY DEF NttField!NodeOf, BlockOf
<1>5. Own(l, i) = b * n + h * l
  BY DEF Own, Base
<1>6. NttField!Index = Index /\ \A y : y \in NttField!Pairs(l) <=> (y \in Index /\ y % n < l)
  BY DEF NttField!Index, Index, NttField!Pairs
<1>7. n = l + l /\ n \in Nat /\ n > 0
  BY <1>1, SMT
<1> HIDE DEF x, b, h, n
<1>8. /\ x \in Int /\ x \in Index /\ x + l \in Index /\ (x + l) - l = x /\ x + l >= l
  BY <1>1, <1>2, <1>3, <1>7, SMT DEF Index
<1>9. x % n = t /\ x \div n = b
  <2>1. (b * n + t) % n = t /\ (b * n + t) \div n = b
    BY <1>1, <1>2, <1>7, DivUnique, SMT
  <2> QED BY <1>3, <2>1
<1>10. (x + l) % n = t + l
  <2>1. x + l = b * n + (t + l) /\ t + l \in Int /\ 0 <= t + l /\ t + l < n
    BY <1>1, <1>2, <1>3, <1>7, SMT
  <2>2. (b * n + (t + l)) % n = t + l
    BY <1>1, <1>7, <2>1, DivUnique
  <2> QED BY <2>1, <2>2
<1>11. (x - l) % n = t + l
  <2>1. t + l \in Int /\ 0 <= t + l /\ t + l < n /\ b - 1 \in Int
        /\ (b - 1) * n = b * n - n
    BY <1>1, <1>2, <1>7, SMT
  <2>2. x - l = (b - 1) * n + (t + l)
    BY <1>1, <1>2, <1>3, <1>7, <2>1, SMT
  <2>3. ((b - 1) * n + (t + l)) % n = t + l
    BY <1>7, <2>1, DivUnique
  <2> QED BY <2>2, <2>3
<1>12. NttField!NodeOf(l, x) = N \div n + b
  BY <1>9 DEF NttField!NodeOf, n
<1>13. Own(l, i) + t = IF h = 0 THEN x ELSE x + l
  <2>1. CASE h = 0
    <3>1. h * l = 0
      BY <1>1, <2>1, SMT
    <3> QED BY <1>1, <1>2, <1>3, <1>5, <2>1, <3>1, SMT
  <2>2. CASE h = 1
    <3>1. h * l = l
      BY <1>1, <2>2, SMT
    <3> QED BY <1>1, <1>2, <1>3, <1>5, <2>2, <3>1, SMT
  <2> QED BY <1>1, <2>1, <2>2
<1>14. t < l /\ ~(t + l < l) /\ t \in Nat
  BY <1>1, <1>2, SMT
<1> QED BY <1>1, <1>4, <1>6, <1>8, <1>9, <1>10, <1>11, <1>12, <1>13, <1>14 DEF x, h

(* What some butterflies of a layer make of a pair.                        *)
LEMMA PairWork ==
  ASSUME NEW l \in Lengths, NEW i \in Index, NEW t \in 0 .. l - 1, NEW f,
         NEW S, S \subseteq NttField!Pairs(l)
  PROVE  LET x == Base(l, i) + t
             u == NttField!Forward(f, l, S)
             v == NttField!Inverse(f, l, S)
         IN  /\ u[x] = IF x \in S THEN (f[x] + BlockFactor(l, i) * f[x + l]) % Q
                                  ELSE f[x]
             /\ u[x + l] = IF x \in S THEN (f[x] - BlockFactor(l, i) * f[x + l]) % Q
                                      ELSE f[x + l]
             /\ v[x] = IF x \in S THEN (f[x] + f[x + l]) % Q ELSE f[x]
             /\ v[x + l] = IF x \in S THEN (InverseFactor(l, i) * (f[x] - f[x + l])) % Q
                                      ELSE f[x + l]
<1> DEFINE x == Base(l, i) + t
<1>1. /\ x \in Index /\ x + l \in Index /\ x \in Int /\ (x + l) - l = x /\ x + l >= l
      /\ x + l \notin NttField!Pairs(l)
      /\ x >= l => x - l \notin NttField!Pairs(l)
      /\ NttField!NodeOf(l, x) = NttField!NodeOf(l, i)
  BY PairFacts
<1>2. l # N /\ NttField!Index = Index
  BY LengthFacts, Sizes, SMT DEF NttField!Index, Index
<1> HIDE DEF x
<1>3. BlockFactor(l, i) = Powers[NttField!Exponent[NttField!NodeOf(l, x)]]
      /\ InverseFactor(l, i) = Powers[2 * N - NttField!Exponent[NttField!NodeOf(l, x)]]
  BY <1>1 DEF BlockFactor, InverseFactor
<1>4. x + l \notin S /\ (x >= l => x - l \notin S)
  BY <1>1
<1> DEFINE u == NttField!Forward(f, l, S)
           v == NttField!Inverse(f, l, S)
<1>5. u[x] = IF x \in S THEN (f[x] + BlockFactor(l, i) * f[x + l]) % Q ELSE f[x]
  BY <1>1, <1>2, <1>3, <1>4 DEF NttField!Forward
<1> DEFINE y == x + l
<1>y. y \in Index /\ y >= l /\ y - l = x /\ y \notin S /\ x + l = y
  <2>1. x + l >= l /\ (x + l) - l = x /\ x + l \in Index
    BY <1>1
  <2>2. x + l \notin S
    BY <1>4
  <2>3. x + l = y
    OBVIOUS
  <2> HIDE DEF y
  <2>4. y - l = x
    BY <2>1, <2>3
  <2>5. y >= l
    BY <2>1, <2>3
  <2>6. y \in Index
    BY <2>1, <2>3
  <2>7. y \notin S
    BY <2>2, <2>3
  <2> QED BY <2>3, <2>4, <2>5, <2>6, <2>7
<1> HIDE DEF y
<1>6. u[x + l] = IF x \in S THEN (f[x] - BlockFactor(l, i) * f[x + l]) % Q ELSE f[x + l]
  <2>1. u[y] = IF y - l \in S
               THEN (f[y - l] - Powers[NttField!Exponent[NttField!NodeOf(l, y - l)]] * f[y]) % Q
               ELSE f[y]
    BY <1>2, <1>y DEF NttField!Forward
  <2> HIDE DEF u
  <2> QED BY <1>3, <1>y, <2>1
<1>7. v[x] = IF x \in S THEN (f[x] + f[x + l]) % Q ELSE f[x]
  BY <1>1, <1>2, <1>3, <1>4 DEF NttField!Inverse
<1>8. v[x + l] = IF x \in S THEN (InverseFactor(l, i) * (f[x] - f[x + l])) % Q ELSE f[x + l]
  <2>1. v[y] = IF y - l \in S
               THEN (Powers[2 * N - NttField!Exponent[NttField!NodeOf(l, y - l)]]
                       * (f[y - l] - f[y])) % Q
               ELSE f[y]
    BY <1>2, <1>y DEF NttField!Inverse
  <2> HIDE DEF v
  <2> QED BY <1>3, <1>y, <2>1
<1> QED BY <1>5, <1>6, <1>7, <1>8 DEF x

(* A half after a butterfly, at a root: both halves before it.             *)
LEMMA SplitTerm ==
  ASSUME NEW p \in Int, NEW q \in Int, NEW f \in Int, NEW s \in {-1, 1},
         NEW r \in Int, NEW r2 \in Int, Cong(r2, s * f * r)
  PROVE  LET y == (IF s = 1 THEN p + f * q ELSE p - f * q) % Q
         IN  y * r \in Int /\ Cong(y * r, p * r + q * r2)
<1> DEFINE c == IF s = 1 THEN p + f * q ELSE p - f * q
           y == c % Q
           d == s * f * r
<1>1. c = p + s * (f * q) /\ c \in Int /\ f * q \in Int
  BY SMT
<1>2. y \in Int /\ Cong(y, c)
  <2> HIDE DEF c
  <2> QED BY <1>1, CongEqual
<1>3. c * r = p * r + q * d /\ d \in Int /\ q * d \in Int /\ p * r \in Int /\ c * r \in Int
      /\ q * r2 \in Int
  <2>1. (p + s * (f * q)) * r = p * r + q * (s * f * r)
    BY SMT
  <2>2. d \in Int /\ p * r \in Int /\ q * r2 \in Int
    BY SMT
  <2> HIDE DEF c, d
  <2>3. q * d \in Int /\ c * r \in Int
    BY <1>1, <2>2, SMT
  <2> QED BY <1>1, <2>1, <2>2, <2>3 DEF d
<1>4. Cong(r2, d)
  OBVIOUS
<1> HIDE DEF y, c, d
<1>5. Cong(y * r, c * r) /\ y * r \in Int
  <2>1. Cong(r, r)
    BY CongEqual
  <2> QED BY <1>1, <1>2, <2>1, CongProduct, SMT
<1>6. Cong(p * r + q * r2, p * r + q * d)
  <2>1. Cong(q, q) /\ Cong(p * r, p * r)
    BY <1>3, CongEqual
  <2>2. Cong(q * r2, q * d)
    BY <1>3, <1>4, <2>1, CongProduct
  <2> QED BY <1>3, <2>1, <2>2, CongSum
<1>7. p * r + q * r2 \in Int /\ p * r + q * d \in Int
  BY <1>3, SMT
<1>8. Cong(p * r + q * d, p * r + q * r2)
  BY <1>6, <1>7, CongSym
<1>9. Cong(y * r, p * r + q * r2)
  BY <1>3, <1>5, <1>7, <1>8, CongTrans
<1> QED BY <1>5, <1>9 DEF y, c

(* Both halves after a butterfly going back: twice one of them before it.  *)
LEMMA JoinTerm ==
  ASSUME NEW p \in Int, NEW q \in Int, NEW f \in Int, NEW g \in Int, NEW s \in {-1, 1},
         NEW r \in Int, NEW r2 \in Int, Cong(r2, s * f * r), Cong(g * f, 1)
  PROVE  LET y == ((p + q) % Q) * r + ((g * (p - q)) % Q) * r2
             o == IF s = 1 THEN p ELSE q
         IN  y \in Int /\ 2 * o * r \in Int /\ Cong(y, 2 * o * r)
<1> DEFINE c == p + q
           d == p - q
           y1 == c % Q
           y2 == (g * d) % Q
           w2 == s * f * r
           o == IF s = 1 THEN p ELSE q
<1>1. c \in Int /\ d \in Int /\ o \in Int /\ w2 \in Int /\ 2 * o * r = c * r + s * (d * r)
      /\ 2 * o * r \in Int
  <2>1. CASE s = 1
    BY <2>1, SMT
  <2>2. CASE s = -1
    BY <2>2, SMT
  <2> QED BY <2>1, <2>2
<1>2. Cong(r2, w2) /\ Cong(r, r)
  BY CongEqual
<1> HIDE DEF c, d, o
<1>3. g * d \in Int
  BY <1>1, SMT
<1>4. y1 \in Int /\ Cong(y1, c) /\ y2 \in Int /\ Cong(y2, g * d)
  BY <1>1, <1>3, CongEqual
<1> HIDE DEF y1, y2
<1>5. Cong(y1 * r, c * r)
  BY <1>1, <1>2, <1>4, CongProduct
<1>6. Cong(y2 * r2, (g * d) * w2)
  <2> HIDE DEF w2
  <2> QED BY <1>1, <1>2, <1>3, <1>4, CongProduct
<1>7. /\ (g * d) * w2 = (g * f) * (s * (d * r)) /\ s * (d * r) \in Int /\ g * f \in Int
      /\ (g * f) * (s * (d * r)) \in Int /\ y1 * r \in Int /\ y2 * r2 \in Int /\ c * r \in Int
  <2>1. d * r \in Int
    BY <1>1, SMT
  <2>2. s * (d * r) \in Int
    BY <2>1, SMT
  <2>3. g * f \in Int
    BY SMT
  <2>4. \A z \in Int : (g * z) * (s * f * r) = (g * f) * (s * (z * r))
    BY SMT
  <2>5. (g * f) * (s * (d * r)) \in Int
    BY <2>2, <2>3, SMT
  <2>6. y1 * r \in Int /\ y2 * r2 \in Int /\ c * r \in Int
    BY <1>1, <1>4, SMT
  <2> QED BY <1>1, <2>2, <2>3, <2>4, <2>5, <2>6
<1> DEFINE z == s * (d * r)
<1>8. Cong((g * f) * z, 1 * z) /\ 1 * z = z
  <2>0. z \in Int /\ 1 \in Int
    BY <1>7
  <2> HIDE DEF z
  <2>1. Cong(z, z) /\ 1 * z = z
    BY <2>0, CongEqual
  <2> QED BY <1>7, <2>0, <2>1, CongProduct
<1>9. Cong(y2 * r2, z)
  <2>1. z \in Int /\ (g * f) * z \in Int
    BY <1>7
  <2>2. Cong(y2 * r2, (g * f) * z) /\ Cong((g * f) * z, z)
    BY <1>6, <1>7, <1>8
  <2> HIDE DEF z
  <2> QED BY <1>7, <2>1, <2>2, CongTrans
<1>10. Cong(y1 * r + y2 * r2, c * r + z)
  <2>1. z \in Int
    BY <1>7
  <2> HIDE DEF z
  <2> QED BY <1>5, <1>7, <1>9, <2>1, CongSum
<1>11. y1 * r + y2 * r2 \in Int
  BY <1>7, SMT
<1> QED BY <1>1, <1>10, <1>11 DEF y1, y2, c, d, o

-----------------------------------------------------------------------------
(* The value at a leaf of an array in the middle of a transform.           *)

(* In a layer of length l with the butterflies T still to do, the block    *)
(* of leaf i is a polynomial of 2*l coefficients; a pair that is done has  *)
(* only the half that leaf i is under.                                     *)
ForwardTerm(v, l, T, i, t) ==
  IF Base(l, i) + t \in T
  THEN v[Base(l, i) + t] * Root(i, t) + v[(Base(l, i) + t) + l] * Root(i, l + t)
  ELSE v[Own(l, i) + t] * Root(i, t)

ForwardValue(v, l, T, i) == SumTo([t \in 0 .. l - 1 |-> ForwardTerm(v, l, T, i, t)], l)

(* Going back, twice the value: a pair still to do has it in its own half. *)
InverseTerm(v, l, T, i, t) ==
  IF Base(l, i) + t \in T
  THEN 2 * v[Own(l, i) + t] * Root(i, t)
  ELSE v[Base(l, i) + t] * Root(i, t) + v[(Base(l, i) + t) + l] * Root(i, l + t)

InverseValue(v, l, T, i) == SumTo([t \in 0 .. l - 1 |-> InverseTerm(v, l, T, i, t)], l)

(* In the last loop: the value with the factor on every coefficient.       *)
ScaleTerm(v, T, i, t) ==
  (IF t \in T THEN v[t] * (((R % Q) * NInv) % Q) ELSE v[t]) * Root(i, t)

ScaleValue(v, T, i) == SumTo([t \in Index |-> ScaleTerm(v, T, i, t)], N)

(* What they are made of.                                                  *)
LEMMA TermFacts ==
  ASSUME NEW l \in Lengths, NEW i \in Index, NEW t \in 0 .. l - 1,
         NEW v \in [Index -> Int]
  PROVE  LET x == Base(l, i) + t
         IN  /\ x \in Index /\ x + l \in Index /\ Own(l, i) + t \in Index
             /\ v[x] \in Int /\ v[x + l] \in Int
             /\ Root(i, t) \in Int /\ Root(i, l + t) \in Int
             /\ Own(l, i) + t = IF HalfOf(l, i) = 0 THEN x ELSE x + l
             /\ (HalfOf(l, i) = 0 /\ Sign(l, i) = 1) \/ (HalfOf(l, i) = 1 /\ Sign(l, i) = -1)
             /\ t \in Nat
<1> DEFINE x == Base(l, i) + t
<1>1. /\ x \in Index /\ x + l \in Index /\ t \in Nat
      /\ Own(l, i) + t = IF HalfOf(l, i) = 0 THEN x ELSE x + l
      /\ HalfOf(l, i) \in {0, 1}
  BY PairFacts
<1>2. (HalfOf(l, i) = 0 /\ Sign(l, i) = 1) \/ (HalfOf(l, i) = 1 /\ Sign(l, i) = -1)
  BY <1>1, SMT DEF Sign
<1>3. Root(i, t) \in Int /\ Root(i, l + t) \in Int
  <2>1. l \in Nat
    BY LengthFacts, SMT
  <2>2. l + t \in Nat
    BY <1>1, <2>1
  <2> QED BY <1>1, <2>2, RootSplits
<1> HIDE DEF x
<1> QED BY <1>1, <1>2, <1>3 DEF x

(* Forward butterflies keep the value.                                     *)
LEMMA ForwardTermKept ==
  ASSUME NEW l \in Lengths, NEW i \in Index, NEW t \in 0 .. l - 1,
         NEW v \in [Index -> Int],
         NEW T, T \subseteq NttField!Pairs(l), NEW S, S \subseteq T
  PROVE  LET y == ForwardTerm(NttField!Forward(v, l, S), l, T \ S, i, t)
             z == ForwardTerm(v, l, T, i, t)
         IN  y \in Int /\ z \in Int /\ Cong(y, z)
<1> DEFINE x == Base(l, i) + t
           u == NttField!Forward(v, l, S)
           f == BlockFactor(l, i)
           r == Root(i, t)
           r2 == Root(i, l + t)
           h == HalfOf(l, i)
           s == Sign(l, i)
           own == Own(l, i) + t
           p == v[x]
           q == v[x + l]
<1>1. /\ p \in Int /\ q \in Int /\ r \in Int /\ r2 \in Int /\ t \in Nat
      /\ own = IF h = 0 THEN x ELSE x + l
      /\ (h = 0 /\ s = 1) \/ (h = 1 /\ s = -1)
  BY TermFacts
<1>2. S \subseteq NttField!Pairs(l)
  OBVIOUS
<1>3. /\ u[x] = IF x \in S THEN (p + f * q) % Q ELSE p
      /\ u[x + l] = IF x \in S THEN (p - f * q) % Q ELSE q
  BY <1>2, PairWork
<1>4. f \in Int /\ Cong(r2, s * f * r)
  BY <1>1, RootSplits
<1>5. /\ ForwardTerm(u, l, T \ S, i, t)
           = IF x \in T \ S THEN u[x] * r + u[x + l] * r2 ELSE u[own] * r
      /\ ForwardTerm(v, l, T, i, t)
           = IF x \in T THEN p * r + q * r2 ELSE v[own] * r
  BY DEF ForwardTerm
<1>6. v[own] = IF h = 0 THEN p ELSE q
  BY <1>1
<1>7. u[own] = IF h = 0 THEN u[x] ELSE u[x + l]
  BY <1>1
<1>8. p * r \in Int /\ q * r \in Int /\ q * r2 \in Int
  <2> HIDE DEF p, q, r, r2
  <2> QED BY <1>1, SMT
<1> HIDE DEF x, u, f, r, r2, h, s, own, p, q
<1>9. CASE x \in S
  <2>1. u[own] = (IF s = 1 THEN p + f * q ELSE p - f * q) % Q
    BY <1>1, <1>3, <1>7, <1>9
  <2>2. s \in {-1, 1}
    BY <1>1
  <2> DEFINE y == (IF s = 1 THEN p + f * q ELSE p - f * q) % Q
  <2>3. y * r \in Int /\ Cong(y * r, p * r + q * r2)
    BY <1>1, <1>4, <2>2, SplitTerm
  <2>6. u[own] = y
    BY <2>1
  <2> HIDE DEF y
  <2>4. ForwardTerm(u, l, T \ S, i, t) = u[own] * r
        /\ ForwardTerm(v, l, T, i, t) = p * r + q * r2
    BY <1>5, <1>9
  <2>5. p * r + q * r2 \in Int
    BY <1>8
  <2> QED BY <2>3, <2>4, <2>5, <2>6 DEF u
<1>10. CASE x \notin S
  <2>1. ForwardTerm(u, l, T \ S, i, t) = ForwardTerm(v, l, T, i, t)
    BY <1>1, <1>3, <1>5, <1>6, <1>7, <1>10
  <2>2. ForwardTerm(v, l, T, i, t) \in Int
    <3>1. p * r + q * r2 \in Int /\ v[own] * r \in Int
      BY <1>6, <1>8
    <3> QED BY <1>5, <3>1
  <2> QED BY <2>1, <2>2, CongEqual DEF u
<1> QED BY <1>9, <1>10

(* Any set of the butterflies of a layer, done from any vector, leaves the *)
(* value of the polynomial at a leaf as it was modulo Q: the pairs done are*)
(* read as the two halves, the others as the block they came from.         *)
LEMMA ForwardKept ==
  ASSUME NEW l \in Lengths, NEW i \in Index, NEW v \in [Index -> Int],
         NEW T, T \subseteq NttField!Pairs(l), NEW S, S \subseteq T
  PROVE  LET y == ForwardValue(NttField!Forward(v, l, S), l, T \ S, i)
             z == ForwardValue(v, l, T, i)
         IN  y \in Int /\ z \in Int /\ Cong(y, z)
<1> DEFINE u == NttField!Forward(v, l, S)
           f == [t \in 0 .. l - 1 |-> ForwardTerm(u, l, T \ S, i, t)]
           h == [t \in 0 .. l - 1 |-> ForwardTerm(v, l, T, i, t)]
<1>1. l \in Nat
  BY LengthFacts, SMT
<1>2. \A t \in 0 .. l - 1 : f[t] \in Int /\ h[t] \in Int /\ Cong(f[t], h[t])
  BY ForwardTermKept
<1>3. ForwardValue(u, l, T \ S, i) = SumTo(f, l) /\ ForwardValue(v, l, T, i) = SumTo(h, l)
  BY DEF ForwardValue
<1> HIDE DEF f, h
<1>4. Ints(f, l) /\ Ints(h, l)
  BY <1>2 DEF Ints
<1> QED BY <1>1, <1>2, <1>3, <1>4, SumCong

(* Butterflies going back keep twice the value.                            *)
LEMMA InverseTermKept ==
  ASSUME NEW l \in Lengths, NEW i \in Index, NEW t \in 0 .. l - 1,
         NEW v \in [Index -> Int],
         NEW T, T \subseteq NttField!Pairs(l), NEW S, S \subseteq T
  PROVE  LET y == InverseTerm(NttField!Inverse(v, l, S), l, T \ S, i, t)
             z == InverseTerm(v, l, T, i, t)
         IN  y \in Int /\ z \in Int /\ Cong(y, z)
<1> DEFINE x == Base(l, i) + t
           u == NttField!Inverse(v, l, S)
           f == BlockFactor(l, i)
           g == InverseFactor(l, i)
           r == Root(i, t)
           r2 == Root(i, l + t)
           h == HalfOf(l, i)
           s == Sign(l, i)
           own == Own(l, i) + t
           p == v[x]
           q == v[x + l]
<1>1. /\ p \in Int /\ q \in Int /\ r \in Int /\ r2 \in Int /\ t \in Nat
      /\ own = IF h = 0 THEN x ELSE x + l
      /\ (h = 0 /\ s = 1) \/ (h = 1 /\ s = -1)
  BY TermFacts
<1>2. S \subseteq NttField!Pairs(l)
  OBVIOUS
<1>3. /\ u[x] = IF x \in S THEN (p + q) % Q ELSE p
      /\ u[x + l] = IF x \in S THEN (g * (p - q)) % Q ELSE q
  BY <1>2, PairWork
<1>4. f \in Int /\ g \in Int /\ Cong(g * f, 1) /\ Cong(r2, s * f * r)
  BY <1>1, RootSplits
<1>5. /\ InverseTerm(u, l, T \ S, i, t)
           = IF x \in T \ S THEN 2 * u[own] * r ELSE u[x] * r + u[x + l] * r2
      /\ InverseTerm(v, l, T, i, t)
           = IF x \in T THEN 2 * v[own] * r ELSE p * r + q * r2
  BY DEF InverseTerm
<1>6. v[own] = IF h = 0 THEN p ELSE q
  BY <1>1
<1>7. u[own] = IF h = 0 THEN u[x] ELSE u[x + l]
  BY <1>1
<1>8. p * r \in Int /\ q * r2 \in Int /\ 2 * p * r \in Int /\ 2 * q * r \in Int
  <2> HIDE DEF p, q, r, r2
  <2> QED BY <1>1, SMT
<1> HIDE DEF x, u, f, g, r, r2, h, s, own, p, q
<1>9. CASE x \in S
  <2>1. v[own] = IF s = 1 THEN p ELSE q
    BY <1>1, <1>6
  <2>2. s \in {-1, 1}
    BY <1>1
  <2> DEFINE y == ((p + q) % Q) * r + ((g * (p - q)) % Q) * r2
  <2>3. y \in Int /\ 2 * v[own] * r \in Int /\ Cong(y, 2 * v[own] * r)
    BY <1>1, <1>4, <2>1, <2>2, JoinTerm
  <2>4. InverseTerm(u, l, T \ S, i, t) = y
        /\ InverseTerm(v, l, T, i, t) = 2 * v[own] * r
    BY <1>3, <1>5, <1>9
  <2> HIDE DEF y
  <2> QED BY <2>3, <2>4 DEF u
<1>10. CASE x \notin S
  <2>1. InverseTerm(u, l, T \ S, i, t) = InverseTerm(v, l, T, i, t)
    BY <1>1, <1>3, <1>5, <1>6, <1>7, <1>10
  <2>2. InverseTerm(v, l, T, i, t) \in Int
    <3>1. p * r + q * r2 \in Int /\ 2 * v[own] * r \in Int
      BY <1>6, <1>8
    <3> QED BY <1>5, <3>1
  <2> QED BY <2>1, <2>2, CongEqual DEF u
<1> QED BY <1>9, <1>10

(* Any set of the inverse butterflies of a layer, done from any vector,    *)
(* leaves twice the value at a leaf as it was modulo Q.                    *)
LEMMA InverseKept ==
  ASSUME NEW l \in Lengths, NEW i \in Index, NEW v \in [Index -> Int],
         NEW T, T \subseteq NttField!Pairs(l), NEW S, S \subseteq T
  PROVE  LET y == InverseValue(NttField!Inverse(v, l, S), l, T \ S, i)
             z == InverseValue(v, l, T, i)
         IN  y \in Int /\ z \in Int /\ Cong(y, z)
<1> DEFINE u == NttField!Inverse(v, l, S)
           f == [t \in 0 .. l - 1 |-> InverseTerm(u, l, T \ S, i, t)]
           h == [t \in 0 .. l - 1 |-> InverseTerm(v, l, T, i, t)]
<1>1. l \in Nat
  BY LengthFacts, SMT
<1>2. \A t \in 0 .. l - 1 : f[t] \in Int /\ h[t] \in Int /\ Cong(f[t], h[t])
  BY InverseTermKept
<1>3. InverseValue(u, l, T \ S, i) = SumTo(f, l) /\ InverseValue(v, l, T, i) = SumTo(h, l)
  BY DEF InverseValue
<1> HIDE DEF f, h
<1>4. Ints(f, l) /\ Ints(h, l)
  BY <1>2 DEF Ints
<1> QED BY <1>1, <1>2, <1>3, <1>4, SumCong

(* The last loop keeps the value with the factor.                          *)
LEMMA ScaleKept ==
  ASSUME NEW i \in Index, NEW v \in [Index -> Int],
         NEW T, T \subseteq Index, NEW S, S \subseteq T
  PROVE  LET y == ScaleValue(NttField!Inverse(v, N, S), T \ S, i)
             z == ScaleValue(v, T, i)
         IN  y \in Int /\ z \in Int /\ Cong(y, z)
<1> DEFINE u == NttField!Inverse(v, N, S)
           f == [t \in Index |-> ScaleTerm(u, T \ S, i, t)]
           h == [t \in Index |-> ScaleTerm(v, T, i, t)]
           c == ((R % Q) * NInv) % Q
<1>0. N \in Nat /\ Index = 0 .. N - 1 /\ 1 \in Lengths
  BY NttAssumption DEF Index
<1>1. c \in Int
  <2>1. R % Q \in Int /\ NInv \in Int
    BY Constants, CongEqual, FieldAssumption
  <2>2. (R % Q) * NInv \in Int
    <3> DEFINE y == R % Q
    <3>1. y \in Int
      BY <2>1
    <3> HIDE DEF y
    <3> QED BY <2>1, <3>1, SMT DEF y
  <2> QED BY <2>2, CongEqual
<1> HIDE DEF c
<1>2. ASSUME NEW t \in Index
      PROVE  f[t] \in Int /\ h[t] \in Int /\ Cong(f[t], h[t])
  <2> DEFINE r == Root(i, t)
             p == v[t]
  <2>1. p \in Int /\ t \in Nat
    BY <1>0
  <2>2. r \in Int
    BY <1>0, <2>1, RootSplits
  <2>3. u[t] = IF t \in S THEN (p * c) % Q ELSE p
    BY DEF NttField!Inverse, NttField!Index, Index, c
  <2>4. f[t] = (IF t \in T \ S THEN u[t] * c ELSE u[t]) * r
        /\ h[t] = (IF t \in T THEN p * c ELSE p) * r
    BY DEF ScaleTerm, c
  <2> HIDE DEF u, f, h, r, p
  <2>5. p * c \in Int /\ (p * c) * r \in Int /\ p * r \in Int
    BY <1>1, <2>1, <2>2, SMT
  <2>6. CASE t \in S
    <3>1. f[t] = ((p * c) % Q) * r /\ h[t] = (p * c) * r
      BY <2>3, <2>4, <2>6
    <3> DEFINE y == p * c
    <3>2. y \in Int
      BY <2>5
    <3> HIDE DEF y
    <3>3. Cong(y % Q, y) /\ y % Q \in Int /\ Cong(r, r)
      BY <2>2, <3>2, CongEqual
    <3> DEFINE m == y % Q
    <3> HIDE DEF m
    <3>4. Cong(m * r, y * r) /\ m * r \in Int
      <4>1. Cong(m, y) /\ m \in Int
        BY <3>3 DEF m
      <4>2. Cong(m * r, y * r)
        BY <2>2, <3>2, <3>3, <4>1, CongProduct
      <4> QED BY <2>2, <4>1, <4>2, SMT
    <3> QED BY <2>5, <3>1, <3>4 DEF y, m
  <2>7. CASE t \notin S
    <3>1. f[t] = h[t] /\ h[t] \in Int
      BY <2>3, <2>4, <2>5, <2>7
    <3> QED BY <3>1, CongEqual
  <2> QED BY <2>6, <2>7
<1>3. ScaleValue(u, T \ S, i) = SumTo(f, N) /\ ScaleValue(v, T, i) = SumTo(h, N)
  BY DEF ScaleValue
<1> HIDE DEF f, h
<1>4. Ints(f, N) /\ Ints(h, N)
  BY <1>0, <1>2 DEF Ints
<1> QED BY <1>0, <1>2, <1>3, <1>4, SumCong

-----------------------------------------------------------------------------
(* Where the layers meet.                                                  *)

(* The polynomial of the n coefficients from b on, at leaf i; and the      *)
(* whole array.                                                            *)
BlockValue(v, b, n, i) == SumTo([t \in 0 .. n - 1 |-> v[b + t] * Root(i, t)], n)

Value(v, i) == SumTo([t \in Index |-> v[t] * Root(i, t)], N)

(* A block is the pairs of its halves.                                     *)
LEMMA HalvesJoined ==
  ASSUME NEW l \in Lengths, NEW i \in Index, NEW v \in [Index -> Int],
         NEW h, \A t \in 0 .. l - 1 :
           h[t] = v[Base(l, i) + t] * Root(i, t)
                    + v[(Base(l, i) + t) + l] * Root(i, l + t)
  PROVE  SumTo(h, l) = BlockValue(v, Base(l, i), 2 * l, i)
<1> DEFINE b == Base(l, i)
           f == [t \in 0 .. 2 * l - 1 |-> v[b + t] * Root(i, t)]
<1>1. l \in Nat /\ N \in Nat /\ b \in Int /\ 0 <= b /\ b + 2 * l <= N
  <2>1. l \in Int /\ l >= 1
    BY BlockFacts
  <2> QED BY <2>1, BlockFacts, Sizes, SMT
<1>2. ASSUME NEW t \in 0 .. 2 * l - 1 PROVE f[t] = v[b + t] * Root(i, t) /\ f[t] \in Int
  <2> DEFINE x == b + t
             r == Root(i, t)
  <2>1. x \in Index /\ t \in Nat
    <3> HIDE DEF b
    <3> QED BY <1>1, SMT DEF Index
  <2>2. v[x] \in Int /\ r \in Int
    BY <2>1, RootSplits
  <2>3. f[t] = v[x] * r
    OBVIOUS
  <2> HIDE DEF x, r, f
  <2>4. v[x] * r \in Int
    BY <2>2, SMT
  <2> QED BY <2>3, <2>4 DEF x, r
<1>3. ASSUME NEW t \in 0 .. l - 1 PROVE h[t] = f[t] + f[l + t]
  <2>1. t \in 0 .. 2 * l - 1 /\ l + t \in 0 .. 2 * l - 1 /\ (b + t) + l = b + (l + t)
    <3> HIDE DEF b
    <3> QED BY <1>1, SMT
  <2> HIDE DEF f
  <2>2. f[t] = v[b + t] * Root(i, t) /\ f[l + t] = v[b + (l + t)] * Root(i, l + t)
    BY <1>2, <2>1
  <2>3. h[t] = v[b + t] * Root(i, t) + v[(b + t) + l] * Root(i, l + t)
    OBVIOUS
  <2> QED BY <2>1, <2>2, <2>3
<1>4. BlockValue(v, b, 2 * l, i) = SumTo(f, 2 * l)
  BY DEF BlockValue
<1> HIDE DEF f, b
<1>5. Ints(f, 2 * l)
  BY <1>2 DEF Ints
<1>6. SumTo(h, l) = SumTo(f, 2 * l)
  BY <1>1, <1>3, <1>5, SumOfHalves
<1> QED BY <1>4, <1>6 DEF b

(* The value when a layer starts and when it ends, forward.                *)
LEMMA ForwardEnds ==
  ASSUME NEW l \in Lengths, NEW i \in Index, NEW v \in [Index -> Int]
  PROVE  /\ ForwardValue(v, l, NttField!Pairs(l), i) = BlockValue(v, Base(l, i), 2 * l, i)
         /\ ForwardValue(v, l, {}, i) = BlockValue(v, Own(l, i), l, i)
<1> DEFINE h == [t \in 0 .. l - 1 |-> ForwardTerm(v, l, NttField!Pairs(l), i, t)]
<1>1. \A t \in 0 .. l - 1 :
        h[t] = v[Base(l, i) + t] * Root(i, t) + v[(Base(l, i) + t) + l] * Root(i, l + t)
  <2>1. \A t \in 0 .. l - 1 : Base(l, i) + t \in NttField!Pairs(l)
    BY PairFacts
  <2> QED BY <2>1 DEF ForwardTerm
<1>2. ForwardValue(v, l, NttField!Pairs(l), i) = SumTo(h, l)
  BY DEF ForwardValue
<1> HIDE DEF h
<1>3. SumTo(h, l) = BlockValue(v, Base(l, i), 2 * l, i)
  BY <1>1, HalvesJoined
<1>4. [t \in 0 .. l - 1 |-> ForwardTerm(v, l, {}, i, t)]
        = [t \in 0 .. l - 1 |-> v[Own(l, i) + t] * Root(i, t)]
  BY DEF ForwardTerm
<1> QED BY <1>2, <1>3, <1>4 DEF ForwardValue, BlockValue

(* And going back.                                                         *)
LEMMA InverseEnds ==
  ASSUME NEW l \in Lengths, NEW i \in Index, NEW v \in [Index -> Int]
  PROVE  /\ InverseValue(v, l, {}, i) = BlockValue(v, Base(l, i), 2 * l, i)
         /\ InverseValue(v, l, NttField!Pairs(l), i) = 2 * BlockValue(v, Own(l, i), l, i)
<1> DEFINE h == [t \in 0 .. l - 1 |-> InverseTerm(v, l, {}, i, t)]
           g == [t \in 0 .. l - 1 |-> InverseTerm(v, l, NttField!Pairs(l), i, t)]
           f == [t \in 0 .. l - 1 |-> v[Own(l, i) + t] * Root(i, t)]
<1>1. \A t \in 0 .. l - 1 :
        h[t] = v[Base(l, i) + t] * Root(i, t) + v[(Base(l, i) + t) + l] * Root(i, l + t)
  BY DEF InverseTerm
<1>2. InverseValue(v, l, {}, i) = SumTo(h, l)
  BY DEF InverseValue
<1>3. InverseValue(v, l, NttField!Pairs(l), i) = SumTo(g, l)
  BY DEF InverseValue
<1>4. BlockValue(v, Own(l, i), l, i) = SumTo(f, l)
  BY DEF BlockValue
<1>5. ASSUME NEW t \in 0 .. l - 1 PROVE f[t] \in Int /\ g[t] = 2 * f[t]
  <2> DEFINE x == Own(l, i) + t
             r == Root(i, t)
  <2>1. x \in Index /\ r \in Int /\ Base(l, i) + t \in NttField!Pairs(l)
    BY TermFacts, PairFacts
  <2>2. v[x] \in Int
    BY <2>1
  <2>3. f[t] = v[x] * r /\ g[t] = 2 * v[x] * r
    BY <2>1 DEF InverseTerm
  <2> HIDE DEF x, r, f, g
  <2>4. v[x] * r \in Int /\ 2 * v[x] * r = 2 * (v[x] * r)
    BY <2>1, <2>2, SMT
  <2> QED BY <2>3, <2>4
<1> HIDE DEF h, g, f
<1>6. SumTo(h, l) = BlockValue(v, Base(l, i), 2 * l, i)
  BY <1>1, HalvesJoined
<1>7. SumTo(g, l) = 2 * SumTo(f, l)
  <2>1. l \in Nat
    BY LengthFacts, SMT
  <2>2. Ints(f, l)
    BY <1>5 DEF Ints
  <2> QED BY <1>5, <2>1, <2>2, SumScaled
<1> QED BY <1>2, <1>3, <1>4, <1>6, <1>7

(* The blocks of the first layer, of one layer and the next, and of the    *)
(* last one.                                                               *)
LEMMA BlocksMeet ==
  ASSUME NEW i \in Index, NEW v \in [Index -> Int]
  PROVE  /\ \A l \in Lengths : 2 * l = N =>
              BlockValue(v, Base(l, i), 2 * l, i) = Value(v, i)
         /\ \A l \in Lengths : 2 * l \in Lengths =>
              BlockValue(v, Own(2 * l, i), 2 * l, i) = BlockValue(v, Base(l, i), 2 * l, i)
         /\ BlockValue(v, Own(1, i), 1, i) = v[i]
         /\ Value(v, i) \in Int
<1>0. N \in Nat /\ 1 \in Lengths /\ Index = 0 .. N - 1
  BY NttAssumption DEF Index
<1>1. ASSUME NEW l \in Lengths, 2 * l = N
      PROVE  BlockValue(v, Base(l, i), 2 * l, i) = Value(v, i)
  <2>1. Base(l, i) = 0
    <3>1. Base(l, i) \in Int /\ 0 <= Base(l, i) /\ Base(l, i) + 2 * l <= N
      BY BlockFacts
    <3>2. \A x \in Int : (0 <= x /\ x + 2 * l <= N) => x = 0
      BY <1>0, <1>1, SMT
    <3> QED BY <3>1, <3>2
  <2>2. \A t \in Index : 0 + t = t
    BY <1>0, SMT
  <2>3. [t \in 0 .. N - 1 |-> v[0 + t] * Root(i, t)] = [t \in Index |-> v[t] * Root(i, t)]
    BY <1>0, <2>2
  <2> QED BY <1>1, <2>1, <2>3 DEF BlockValue, Value
<1>2. ASSUME NEW l \in Lengths, 2 * l \in Lengths
      PROVE  BlockValue(v, Own(2 * l, i), 2 * l, i) = BlockValue(v, Base(l, i), 2 * l, i)
  BY <1>2, NodeAbove
<1>3. BlockValue(v, Own(1, i), 1, i) = v[i]
  <2> DEFINE f == [t \in 0 .. 1 - 1 |-> v[Own(1, i) + t] * Root(i, t)]
  <2>1. Own(1, i) = i /\ i \in Int
    <3>1. Base(1, i) \in Int /\ i = Base(1, i) + (i % (2 * 1)) /\ i \in Int
          /\ i % (2 * 1) \in Int /\ 0 <= i % (2 * 1) /\ i % (2 * 1) < 2 * 1
      BY <1>0, BlockFacts
    <3> DEFINE m == i % (2 * 1)
    <3>2. HalfOf(1, i) = IF m < 1 THEN 0 ELSE 1
      BY DEF HalfOf
    <3>3. m \in Int /\ 0 <= m /\ m < 2 /\ i = Base(1, i) + m
      BY <3>1, SMT
    <3> HIDE DEF m
    <3>4. HalfOf(1, i) * 1 = m
      BY <3>2, <3>3, SMT
    <3> QED BY <3>1, <3>3, <3>4 DEF Own
  <2>2. Root(i, 0) = 1 /\ v[i] \in Int
    BY <1>0, RootSplits
  <2>3. f[0] = v[i]
    <3>1. 0 \in 0 .. 1 - 1 /\ Own(1, i) + 0 = i /\ v[i] * 1 = v[i]
      BY <2>1, <2>2, SMT
    <3>2. f[0] = v[Own(1, i) + 0] * Root(i, 0)
      BY <3>1
    <3> HIDE DEF f
    <3> QED BY <2>2, <3>1, <3>2
  <2>4. BlockValue(v, Own(1, i), 1, i) = SumTo(f, 1)
    BY DEF BlockValue
  <2> HIDE DEF f
  <2>5. SumTo(f, 0) = 0 /\ SumTo(f, 0 + 1) = SumTo(f, 0) + f[0]
    BY SumStep
  <2>6. 0 + 1 = 1 /\ 0 + v[i] = v[i]
    BY <2>2, SMT
  <2> QED BY <2>3, <2>4, <2>5, <2>6
<1>4. Value(v, i) \in Int
  <2> DEFINE f == [t \in Index |-> v[t] * Root(i, t)]
  <2>1. ASSUME NEW t \in Index PROVE f[t] \in Int
    <3> DEFINE r == Root(i, t)
    <3>1. t \in Nat
      BY <1>0
    <3>2. r \in Int /\ v[t] \in Int
      BY <1>0, <3>1, RootSplits
    <3>3. f[t] = v[t] * r
      OBVIOUS
    <3> HIDE DEF f, r
    <3>4. v[t] * r \in Int
      BY <3>2, SMT
    <3> QED BY <3>3, <3>4
  <2>2. Value(v, i) = SumTo(f, N)
    BY DEF Value
  <2> HIDE DEF f
  <2>3. Ints(f, N) /\ N \in 0 .. N
    BY <1>0, <2>1 DEF Ints
  <2> QED BY <1>0, <2>2, <2>3, SumInt
<1> QED BY <1>1, <1>2, <1>3, <1>4

(* The last loop.                                                          *)
LEMMA ScaleEnds ==
  ASSUME NEW i \in Index, NEW v \in [Index -> Int]
  PROVE  LET c == ((R % Q) * NInv) % Q
         IN  /\ c \in Int
             /\ ScaleValue(v, Index, i) = c * Value(v, i)
             /\ ScaleValue(v, {}, i) = Value(v, i)
<1> DEFINE c == ((R % Q) * NInv) % Q
           h == [t \in Index |-> ScaleTerm(v, Index, i, t)]
           f == [t \in Index |-> v[t] * Root(i, t)]
<1>0. N \in Nat /\ 1 \in Lengths /\ Index = 0 .. N - 1
  BY NttAssumption DEF Index
<1>1. c \in Int
  <2> DEFINE y == R % Q
  <2>1. y \in Int /\ NInv \in Int
    BY Constants, CongEqual, FieldAssumption
  <2> HIDE DEF y
  <2>2. y * NInv \in Int
    BY <2>1, SMT
  <2> QED BY <2>2, CongEqual DEF y
<1>2. ScaleValue(v, Index, i) = SumTo(h, N) /\ Value(v, i) = SumTo(f, N)
  BY DEF ScaleValue, Value
<1>3. ScaleValue(v, {}, i) = Value(v, i)
  BY DEF ScaleValue, ScaleTerm, Value
<1>4. ASSUME NEW t \in Index PROVE f[t] \in Int /\ h[t] = c * f[t]
  <2> DEFINE r == Root(i, t)
  <2>1. t \in Nat
    BY <1>0
  <2>2. r \in Int /\ v[t] \in Int
    BY <1>0, <2>1, RootSplits
  <2>3. f[t] = v[t] * r /\ h[t] = (v[t] * c) * r
    BY DEF ScaleTerm
  <2> HIDE DEF f, h, r, c
  <2>4. v[t] * r \in Int /\ (v[t] * c) * r = c * (v[t] * r)
    BY <1>1, <2>2, SMT
  <2> QED BY <2>3, <2>4
<1> HIDE DEF f, h, c
<1>5. SumTo(h, N) = c * SumTo(f, N)
  <2>1. Ints(f, N)
    BY <1>0, <1>4 DEF Ints
  <2> QED BY <1>0, <1>1, <1>4, <2>1, SumScaled
<1> QED BY <1>1, <1>2, <1>3, <1>5 DEF c

(* The value of an array of integers and that of its residues.             *)
LEMMA ValueOfResidues ==
  ASSUME NEW i \in Index, NEW v \in [Index -> Int]
  PROVE  LET u == [x \in Index |-> v[x] % Q]
         IN  /\ u \in [Index -> Int] /\ Value(u, i) \in Int /\ Value(v, i) \in Int
             /\ Cong(Value(u, i), Value(v, i))
<1> DEFINE u == [x \in Index |-> v[x] % Q]
           f == [t \in Index |-> u[t] * Root(i, t)]
           h == [t \in Index |-> v[t] * Root(i, t)]
<1>0. N \in Nat /\ 1 \in Lengths /\ Index = 0 .. N - 1
  BY NttAssumption DEF Index
<1>1. ASSUME NEW t \in Index PROVE u[t] \in Int /\ Cong(u[t], v[t])
  <2>1. v[t] \in Int
    OBVIOUS
  <2>2. v[t] % Q \in Int /\ Cong(v[t] % Q, v[t])
    BY <2>1, CongEqual
  <2> QED BY <2>2
<1>2. u \in [Index -> Int]
  BY <1>1
<1>3. Value(u, i) = SumTo(f, N) /\ Value(v, i) = SumTo(h, N)
  BY DEF Value
<1>4. ASSUME NEW t \in Index PROVE f[t] \in Int /\ h[t] \in Int /\ Cong(f[t], h[t])
  <2> DEFINE r == Root(i, t)
  <2>1. t \in Nat
    BY <1>0
  <2>2. r \in Int /\ v[t] \in Int /\ Cong(r, r)
    BY <1>0, <2>1, RootSplits, CongEqual
  <2>3. f[t] = u[t] * r /\ h[t] = v[t] * r
    OBVIOUS
  <2>4. u[t] \in Int /\ Cong(u[t], v[t])
    BY <1>1
  <2> HIDE DEF f, h, r, u
  <2>5. u[t] * r \in Int /\ v[t] * r \in Int
    BY <2>2, <2>4, SMT
  <2>6. Cong(u[t] * r, v[t] * r)
    BY <2>2, <2>4, CongProduct
  <2> QED BY <2>3, <2>5, <2>6
<1> HIDE DEF f, h, u
<1>5. Ints(f, N) /\ Ints(h, N)
  BY <1>0, <1>4 DEF Ints
<1>6. SumTo(f, N) \in Int /\ SumTo(h, N) \in Int /\ Cong(SumTo(f, N), SumTo(h, N))
  BY <1>0, <1>4, <1>5, SumCong
<1> QED BY <1>2, <1>3, <1>6 DEF u

-----------------------------------------------------------------------------
(* What the arrays stand for while a product is made.                      *)

(* The transform of a column carries its value at every leaf to the entry  *)
(* of that leaf.                                                           *)
Transformed ==
  (pc \in {"vector", "scalar"}) =>
    \A i \in Index : Cong(ForwardValue(fieldVec, len, fieldTodo, i),
                          EvaluateAt(job.cols[col], i))

Multiplied ==
  (pc = "pointwise") => \A i \in Index : Cong(a[i], EvaluateAt(job.cols[col], i))

(* R times the sum is that of the products so far, and in the end of all.  *)
Summed ==
  /\ (pc \in {"load", "vector", "scalar", "pointwise"} /\ col > 1) =>
       \A i \in Index : Cong(R * w[i], RowSum(col - 1, i))
  /\ (pc \in {"reduce", "inverse", "scale", "done"}) =>
       \A i \in Index : Cong(R * w[i], RowSum(Len(job.cols), i))

(* The inverse transform doubles the value in every layer, and the factor  *)
(* of the last loop turns N into R.                                        *)
Returned ==
  /\ (pc = "inverse") =>
       \A i \in Index : Cong(InverseValue(fieldVec, len, fieldTodo, i), 2 * len * w[i])
  /\ (pc = "scale") => \A i \in Index : Cong(ScaleValue(fieldVec, fieldTodo, i), R * w[i])
  /\ (pc = "done") => \A i \in Index : Cong(Value(fieldVec, i), R * w[i])

Carried == Transformed /\ Multiplied /\ Summed /\ Returned

-----------------------------------------------------------------------------
(* The array modulo Q, with the value of what it is made of.               *)
LEMMA Residues ==
  ASSUME NEW v \in [Index -> Int32], NEW u, u = [i \in Index |-> v[i] % Q]
  PROVE  /\ u \in [Index -> Int] /\ v \in [Index -> Int]
         /\ \A i \in Index : /\ u[i] = v[i] % Q /\ Cong(u[i], v[i])
                             /\ Value(u, i) \in Int /\ Value(v, i) \in Int
                             /\ Cong(Value(u, i), Value(v, i))
<1>1. v \in [Index -> Int]
  BY Width
<1>2. ASSUME NEW i \in Index
      PROVE  /\ u \in [Index -> Int] /\ Value(u, i) \in Int /\ Value(v, i) \in Int
             /\ Cong(Value(u, i), Value(v, i)) /\ Cong(u[i], v[i])
  <2>1. v[i] \in Int
    BY <1>1
  <2>2. Cong(v[i] % Q, v[i])
    BY <2>1, CongEqual
  <2> QED BY <1>1, <2>2, ValueOfResidues
<1>3. u \in [Index -> Int]
  <2>1. \A i \in Index : v[i] % Q \in Int
    BY <1>1, CongEqual
  <2> QED BY <2>1
<1> QED BY <1>1, <1>2, <1>3

(* An entry of a column, a row and a sum.                                  *)
LEMMA EntryTypes ==
  ASSUME Shape, NEW i \in Index
  PROVE  /\ \A c \in 1 .. Len(job.cols) :
              /\ job.cols[c] \in [Index -> Int] /\ job.rows[c][i] \in Int
              /\ EvaluateAt(job.cols[c], i) \in Int
              /\ EvaluateAt(job.cols[c], i) = Value(job.cols[c], i) % Q
              /\ Cong(Value(job.cols[c], i), EvaluateAt(job.cols[c], i))
              /\ Value(job.cols[c], i) \in Int
         /\ w[i] \in Int /\ a[i] \in Int
         /\ Len(job.cols) \in Nat /\ col \in 1 .. Len(job.cols)
<1>1. /\ Len(job.cols) \in Nat /\ col \in 1 .. Len(job.cols)
      /\ a \in [Index -> Int32] /\ w \in [Index -> Int32]
      /\ \A c \in 1 .. Len(job.cols) :
           /\ job.cols[c] \in [Index -> -Q .. Q]
           /\ job.rows[c] \in [Index -> -Grown(Depth[0]) .. Grown(Depth[0])]
  BY DEF Shape, JobOK
<1>2. (\A x \in -Q .. Q : x \in Int)
      /\ \A x \in -Grown(Depth[0]) .. Grown(Depth[0]) : x \in Int
  BY Sizes, SMT
<1>3. w[i] \in Int /\ a[i] \in Int
  BY <1>1, Width
<1>4. ASSUME NEW c \in 1 .. Len(job.cols)
      PROVE  /\ job.cols[c] \in [Index -> Int] /\ job.rows[c][i] \in Int
             /\ EvaluateAt(job.cols[c], i) \in Int
             /\ EvaluateAt(job.cols[c], i) = Value(job.cols[c], i) % Q
             /\ Cong(Value(job.cols[c], i), EvaluateAt(job.cols[c], i))
             /\ Value(job.cols[c], i) \in Int
  <2> DEFINE p == job.cols[c]
  <2>1. p \in [Index -> Int] /\ job.rows[c][i] \in Int
    BY <1>1, <1>2
  <2>2. EvaluateAt(p, i) = Value(p, i) % Q
    BY DEF EvaluateAt, Value
  <2> HIDE DEF p
  <2>3. Value(p, i) \in Int
    BY <2>1, BlocksMeet
  <2>4. Value(p, i) % Q \in Int /\ Cong(Value(p, i), Value(p, i) % Q)
    BY <2>3, CongEqual
  <2> QED BY <2>1, <2>2, <2>3, <2>4 DEF p
<1> QED BY <1>1, <1>3, <1>4

(* The sum of the products, a column at a time.                            *)
LEMMA RowSums ==
  ASSUME Shape, NEW i \in Index
  PROVE  /\ RowSum(0, i) = 0
         /\ \A c \in 1 .. Len(job.cols) :
              /\ RowSum(c - 1, i) \in Int /\ RowSum(c, i) \in Int
              /\ job.rows[c][i] * EvaluateAt(job.cols[c], i) \in Int
              /\ RowSum(c, i) = RowSum(c - 1, i) + job.rows[c][i] * EvaluateAt(job.cols[c], i)
<1> DEFINE n == Len(job.cols)
           T(c) == job.rows[c][i] * EvaluateAt(job.cols[c], i)
           f == [c \in 0 .. n - 1 |-> T(c + 1)]
<1>1. n \in Nat /\ \A c \in 1 .. n : T(c) \in Int
  <2>1. n \in Nat /\ \A c \in 1 .. n : job.rows[c][i] \in Int /\ EvaluateAt(job.cols[c], i) \in Int
    BY EntryTypes
  <2>2. \A x, y \in Int : x * y \in Int
    BY SMT
  <2> QED BY <2>1, <2>2
<1>2. \A m : RowSum(m, i) = SumTo(f, m)
  BY DEF RowSum
<1> HIDE DEF n, T
<1>3. \A c \in 0 .. n - 1 : f[c] = T(c + 1) /\ c + 1 \in 1 .. n
  BY <1>1, SMT
<1> HIDE DEF f
<1>4. Ints(f, n)
  BY <1>1, <1>3 DEF Ints
<1>5. \A m \in 0 .. n : SumTo(f, m) \in Int
  BY <1>1, <1>4, SumInt
<1>6. ASSUME NEW c \in 1 .. n
      PROVE  /\ RowSum(c - 1, i) \in Int /\ RowSum(c, i) \in Int /\ T(c) \in Int
             /\ RowSum(c, i) = RowSum(c - 1, i) + T(c)
  <2>1. /\ c - 1 \in Nat /\ (c - 1) + 1 = c /\ c - 1 \in 0 .. n - 1
        /\ c - 1 \in 0 .. n /\ c \in 0 .. n
    BY <1>1, SMT
  <2>2. SumTo(f, (c - 1) + 1) = SumTo(f, c - 1) + f[c - 1]
    BY <2>1, SumStep
  <2>3. f[c - 1] = T(c)
    BY <1>3, <2>1
  <2> QED BY <1>1, <1>2, <1>5, <2>1, <2>2, <2>3
<1>7. RowSum(0, i) = 0
  BY <1>2, SumStep
<1> QED BY <1>6, <1>7 DEF n, T

(* The dispatch starts with the value of the column.                       *)
LEMMA NTTCarries ==
  ASSUME IInv, IInv', NTT
  PROVE  Transformed'
<1> SUFFICES ASSUME NEW i \in Index
             PROVE  Cong(ForwardValue(fieldVec, len, fieldTodo, i)',
                         EvaluateAt(job.cols[col], i)')
  BY DEF Transformed
<1> DEFINE l == N \div 2
           u == fieldVec'
           p == job.cols[col]
<1>1. l \in Lengths /\ 2 * l = N
  BY NttAssumption, SMT
<1>2. /\ len' = l /\ a' = p /\ job' = job /\ col' = col /\ j' = 0
      /\ pc' \in {"vector", "scalar"}
  BY DEF NTT
<1>3. fieldTodo' = NttField!Pairs(l)
  BY <1>2, TodoStarts DEF fieldTodo, Transforming
<1>4. a' \in [Index -> Int32] /\ u = [x \in Index |-> a'[x] % Q]
  BY DEF IInv, Shape, fieldVec
<1>5. /\ EvaluateAt(p, i) \in Int /\ Cong(Value(p, i), EvaluateAt(p, i))
      /\ Value(p, i) \in Int
  BY EntryTypes DEF IInv
<1> HIDE DEF l, u, p
<1>6. u \in [Index -> Int] /\ Value(u, i) \in Int /\ Cong(Value(u, i), Value(p, i))
  BY <1>2, <1>4, Residues
<1>7. ForwardValue(u, l, NttField!Pairs(l), i) = Value(u, i)
  BY <1>1, <1>6, ForwardEnds, BlocksMeet
<1>8. Cong(Value(u, i), EvaluateAt(p, i))
  BY <1>5, <1>6, CongTrans
<1>9. Cong(ForwardValue(u, len', fieldTodo', i), EvaluateAt(p, i))
  BY <1>2, <1>3, <1>7, <1>8
<1> QED BY <1>2, <1>9 DEF u, p

(* What is still to do are butterflies of the layer.                       *)
LEMMA TodoWithin ==
  ASSUME NEW l, NEW p
  PROVE  StillToDo(l, p) \subseteq NttField!Pairs(l)
BY DEF StillToDo, NttField!Pairs, NttField!Index, Index

(* Forward butterflies carry the value on, and the last ones leave it at   *)
(* the leaf.                                                               *)
LEMMA ForwardCarries ==
  ASSUME IInv, IInv', FieldWork, Transformed, pc \in {"vector", "scalar"},
         job' = job, col' = col,
         pc' \in {"vector", "scalar"} \/ (len <= 1 /\ pc' = "pointwise")
  PROVE  Transformed' /\ Multiplied'
<1> SUFFICES ASSUME NEW i \in Index
             PROVE  /\ (pc' \in {"vector", "scalar"}) =>
                         Cong(ForwardValue(fieldVec', len', fieldTodo', i),
                              EvaluateAt(job.cols[col], i))
                    /\ (pc' = "pointwise") => Cong(a'[i], EvaluateAt(job.cols[col], i))
  BY DEF Transformed, Multiplied
<1> DEFINE u == fieldVec'
           v == fieldVec
           T == fieldTodo
           T2 == fieldTodo'
           e == EvaluateAt(job.cols[col], i)
<1>1. len \in Lengths /\ len \in Int /\ len >= 1 /\ N \in Int
  BY Counters, Sizes DEF IInv, Looping
<1>2. T \subseteq NttField!Pairs(len)
  BY TodoWithin DEF fieldTodo
<1>3. v \in [Index -> Int]
  <2>1. a \in [Index -> Int32]
    BY DEF IInv, Shape
  <2> QED BY <2>1, Residues DEF fieldVec
<1>4. u \in [Index -> Int] /\ u[i] \in Int /\ a'[i] \in Int /\ Cong(u[i], a'[i])
  <2>1. a' \in [Index -> Int32] /\ u = [x \in Index |-> a'[x] % Q]
    BY DEF IInv, Shape, fieldVec
  <2> HIDE DEF u
  <2>2. u \in [Index -> Int] /\ a' \in [Index -> Int] /\ Cong(u[i], a'[i])
    BY <2>1, Residues
  <2> QED BY <2>2
<1>5. e \in Int
  BY EntryTypes DEF IInv
<1>6. Cong(ForwardValue(v, len, T, i), e)
  BY DEF Transformed
<1>7. fieldDir = "forward" /\ fieldLen = len /\ fieldLen' = len'
  BY DEF fieldDir, fieldLen
<1> HIDE DEF e
<1>8. CASE NttField!Within
  <2>1. /\ T2 \subseteq T /\ T2 # {} /\ fieldLen' = fieldLen
        /\ u = NttField!Forward(v, len, T \ T2)
    BY <1>7, <1>8 DEF NttField!Within, NttField!Work
  <2>2. pc' # "pointwise"
    BY <2>1 DEF fieldTodo, Transforming
  <2> HIDE DEF u, v, T, T2
  <2>3. T \ (T \ T2) = T2 /\ T \ T2 \subseteq T
    BY <2>1
  <2> DEFINE y == ForwardValue(NttField!Forward(v, len, T \ T2), len, T \ (T \ T2), i)
             z == ForwardValue(v, len, T, i)
  <2>4. y \in Int /\ z \in Int /\ Cong(y, z)
    BY <1>1, <1>2, <1>3, <2>3, ForwardKept
  <2>5. y = ForwardValue(u, len', T2, i) /\ Cong(z, e)
    BY <1>6, <1>7, <2>1, <2>3
  <2> HIDE DEF y, z
  <2>6. Cong(y, e)
    BY <1>5, <2>4, <2>5, CongTrans
  <2> QED BY <2>2, <2>5, <2>6 DEF u, T2, e
<1>9. CASE NttField!Complete
  <2>1. /\ u = NttField!Forward(v, len, T) /\ len' = len \div 2
        /\ T2 = IF fieldLen' \in 1 .. N THEN NttField!Pairs(len') ELSE {}
    BY <1>7, <1>9 DEF NttField!Complete, NttField!Work
  <2>2. (pc' \in {"vector", "scalar"}) => (len' \in Lengths /\ len' \in Int /\ len' >= 1)
    <3>1. (pc' \in {"vector", "scalar"}) => len' \in Lengths
      BY DEF IInv, LoopShape, Looping
    <3> QED BY <3>1, LengthFacts
  <2> HIDE DEF u, v, T
  <2>3. T \ T = {} /\ T \subseteq T
    OBVIOUS
  <2> DEFINE y == ForwardValue(NttField!Forward(v, len, T), len, T \ T, i)
             z == ForwardValue(v, len, T, i)
             b == BlockValue(u, Own(len, i), len, i)
  <2>4. y \in Int /\ z \in Int /\ Cong(y, z)
    BY <1>1, <1>2, <1>3, <2>3, ForwardKept
  <2>5. y = b /\ Cong(z, e)
    BY <1>1, <1>4, <1>6, <2>1, <2>3, ForwardEnds
  <2> HIDE DEF y, z
  <2>6. Cong(b, e) /\ b \in Int
    BY <1>5, <2>4, <2>5, CongTrans
  <2>7. CASE pc' \in {"vector", "scalar"}
    <3>1. len = 2 * len' /\ len' \in Lengths /\ 2 * len' \in Lengths /\ len' \in 1 .. N
      <4>1. len' \in Lengths /\ len' \in Int /\ len' >= 1
        BY <2>2, <2>7
      <4>2. len > 1 /\ len' <= N
        BY <1>1, <2>1, <4>1, LengthFacts, SMT
      <4>3. len = 2 * len'
        BY <1>1, <2>1, <4>2, NttAssumption
      <4>4. 2 * len' \in Lengths
        BY <1>1, <4>3
      <4> QED BY <1>1, <4>1, <4>2, <4>3, <4>4
    <3>2. T2 = NttField!Pairs(len')
      BY <1>7, <2>1, <3>1
    <3> HIDE DEF b, T2
    <3> DEFINE l == len'
    <3>3. l \in Lengths /\ 2 * l \in Lengths /\ len = 2 * l
      BY <3>1
    <3>4. b = BlockValue(u, Own(2 * l, i), 2 * l, i)
      BY <3>3 DEF b
    <3> HIDE DEF l
    <3>5. ForwardValue(u, l, NttField!Pairs(l), i) = b
      BY <1>4, <3>3, <3>4, ForwardEnds, BlocksMeet
    <3> QED BY <2>6, <2>7, <3>2, <3>5 DEF l, u, T2, e
  <2>8. CASE len <= 1 /\ pc' = "pointwise"
    <3>1. len = 1
      BY <1>1, <2>8, SMT
    <3>2. b = u[i]
      BY <1>4, <3>1, BlocksMeet
    <3>3. Cong(u[i], e)
      BY <2>6, <3>2
    <3>4. Cong(a'[i], u[i])
      BY <1>4, CongSym
    <3>5. Cong(a'[i], e)
      BY <1>4, <1>5, <3>3, <3>4, CongTrans
    <3> QED BY <2>8, <3>5 DEF e
  <2> QED BY <2>7, <2>8
<1> QED BY <1>8, <1>9 DEF FieldWork

(* The products: R times a reduced one is the product.                     *)
LEMMA ReducedEntry ==
  ASSUME IInv, pc = "pointwise", NEW i \in Index
  PROVE  LET x == job.rows[col][i] * a[i]
             p == montgomeryReduce(x)
         IN  /\ p \in Int /\ Within(p, Q) /\ x \in Int /\ Cong(R * p, x)
<1> DEFINE x == job.rows[col][i] * a[i]
           p == montgomeryReduce(x)
           g == Grown(Depth[0])
<1>0. Q \in Int /\ Half \in Int /\ R \in Int /\ g \in Int /\ g * g <= Half * Q
  BY Constants, Sizes, WidthAssumption
<1>1. job.rows[col][i] \in Int /\ Within(job.rows[col][i], g)
  BY JobFacts DEF IInv
<1>2. a[i] \in Int /\ Within(a[i], g)
  BY Width DEF IInv, Growth, Shape
<1> HIDE DEF g
<1>3. x \in Int /\ -(g * g) <= x /\ x <= g * g
  BY <1>0, <1>1, <1>2, ProductWithin
<1> HIDE DEF x
<1>4. -(Half * Q) <= x /\ x <= Half * Q
  <2>1. g * g \in Int /\ Half * Q \in Int
    BY <1>0, SMT
  <2> QED BY <1>0, <1>3, <2>1, SMT
<1>5. p \in Int /\ Within(p, Q) /\ \E t \in Int : p * R = x - t * Q
  BY <1>3, <1>4, MontgomeryCorrect DEF Within
<1> HIDE DEF p
<1>6. Cong(R * p, x)
  <2>1. PICK t \in Int : p * R = x - t * Q
    BY <1>5
  <2>2. (-t) * Q = -(t * Q) /\ t * Q \in Int /\ -t \in Int /\ R * p = p * R
    BY <1>0, <1>5, SMT
  <2>3. R * p = x + (-t) * Q
    BY <1>3, <2>1, <2>2, SMT
  <2> QED BY <2>2, <2>3 DEF Cong
<1> QED BY <1>3, <1>5, <1>6 DEF x, p

(* One pass of the pointwise loop keeps the accumulator the sum of the     *)
(* products of the columns so far.                                         *)
LEMMA PointwiseCarries ==
  ASSUME IInv, Pointwise, Multiplied, Summed
  PROVE  Summed'
<1> DEFINE n == Len(job.cols)
<1>0. pc = "pointwise"
  BY DEF Pointwise, PointwiseInto
<1>1. /\ n \in Int /\ n >= 1 /\ col \in Int /\ 1 <= col /\ col <= n
      /\ n * Q \in Int /\ n * Q < Half - RedUnit
  BY JobFacts DEF IInv
<1>2. Q \in Int /\ Q > 0 /\ Half \in Int /\ R \in Int /\ RedUnit \in Int /\ RedUnit > 0
  BY Constants
<1>3. ASSUME NEW i \in Index
      PROVE  Cong(R * w'[i], RowSum(col, i))
  <2> DEFINE r == job.rows[col][i]
             e == EvaluateAt(job.cols[col], i)
             p == montgomeryReduce(r * a[i])
             s == RowSum(col - 1, i)
  <2>1. r \in Int /\ e \in Int /\ a[i] \in Int /\ w[i] \in Int
    BY EntryTypes DEF IInv
  <2>2. p \in Int /\ Within(p, Q) /\ r * a[i] \in Int /\ Cong(R * p, r * a[i])
    BY <1>0, ReducedEntry
  <2>3. Cong(a[i], e)
    BY <1>0 DEF Multiplied
  <2>4. /\ s \in Int /\ r * e \in Int /\ RowSum(col, i) = s + r * e /\ RowSum(0, i) = 0
        /\ RowSum(col, i) \in Int
    BY RowSums DEF IInv, Shape
  <2>5. w'[i] = IF col = 1 THEN p ELSE add(w[i], p)
    BY DEF Pointwise, PointwiseInto
  <2>6. col > 1 => (Within(w[i], (col - 1) * Q) /\ Cong(R * w[i], s))
    BY <1>0 DEF IInv, Accumulated, Summed
  <2> HIDE DEF r, e, p
  <2>7. Cong(R * p, r * e)
    <3>1. Cong(r, r)
      BY <2>1, CongEqual
    <3>2. Cong(r * a[i], r * e)
      BY <2>1, <2>3, <3>1, CongProduct
    <3>3. R * p \in Int
      BY <1>2, <2>2, SMT
    <3> QED BY <2>2, <2>4, <3>2, <3>3, CongTrans
  <2>8. CASE col = 1
    <3>1. RowSum(col, i) = r * e
      <4>1. s = 0
        <5>1. col - 1 = 0
          BY <2>8, SMT
        <5> QED BY <2>4, <5>1
      <4> HIDE DEF s
      <4> QED BY <2>4, <4>1, SMT
    <3> QED BY <2>5, <2>7, <2>8, <3>1
  <2>9. CASE col # 1
    <3>1. col > 1
      BY <1>1, <2>9, SMT
    <3>2. Within(w[i], (col - 1) * Q) /\ Cong(R * w[i], s)
      BY <2>6, <3>1
    <3>3. add(w[i], p) = w[i] + p
      <4>1. col * Q <= n * Q /\ col * Q \in Int
        BY <1>1, <1>2, Monotone, SMT
      <4>2. (col - 1) * Q = col * Q - Q /\ (col - 1) * Q \in Int
        BY <1>1, <1>2, SMT
      <4>3. (col - 1) * Q + Q < Half
        BY <1>1, <1>2, <4>1, <4>2, SMT
      <4> QED BY <2>1, <2>2, <3>2, <4>2, <4>3, ButterflyValues
    <3> HIDE DEF s
    <3>4. R * (w[i] + p) = R * w[i] + R * p /\ R * w[i] \in Int /\ R * p \in Int
      BY <1>2, <2>1, <2>2, SMT
    <3>5. Cong(R * w[i] + R * p, s + r * e)
      BY <2>4, <2>7, <3>2, <3>4, CongSum
    <3> QED BY <2>4, <2>5, <2>9, <3>3, <3>4, <3>5
  <2> QED BY <2>8, <2>9
<1>4. /\ job' = job
      /\ \/ col < n /\ col' = col + 1 /\ pc' = "load"
         \/ ~(col < n) /\ pc' = "reduce" /\ col' = col
  BY DEF Pointwise, PointwiseInto
<1>6. CASE col < n /\ col' = col + 1 /\ pc' = "load"
  <2>1. col' - 1 = col
    BY <1>1, <1>6, SMT
  <2>2. \A i \in Index : RowSum(col - 1, i)' = RowSum(col, i)
    BY <1>4, <2>1 DEF RowSum
  <2> QED BY <1>3, <1>6, <2>2 DEF Summed
<1>7. CASE ~(col < n) /\ pc' = "reduce" /\ col' = col
  <2>1. col = n
    BY <1>1, <1>7, SMT
  <2>2. \A i \in Index : RowSum(Len(job.cols), i)' = RowSum(col, i)
    BY <1>4, <2>1 DEF RowSum
  <2> QED BY <1>3, <1>7, <2>2 DEF Summed
<1> QED BY <1>4, <1>6, <1>7

(* Reduce, where it is called, keeps the residues of the sum, with which   *)
(* the inverse transform starts.                                           *)
LEMMA ReducedSum ==
  ASSUME IInv, pc = "reduce", job.reduce, NEW i \in Index
  PROVE  reduce32(w[i]) \in Int /\ Cong(reduce32(w[i]), w[i])
<1> DEFINE n == Len(job.cols)
<1>1. n \in Int /\ n >= 1 /\ n * Q \in Int /\ n * Q < Half - RedUnit
  BY JobFacts DEF IInv
<1>2. /\ Q \in Int /\ Q > 0 /\ Half \in Int /\ RedUnit \in Int /\ RedUnit > 0
      /\ RedUnit \div 2 \in Int /\ RedUnit = 2 * (RedUnit \div 2)
  BY Constants
<1>3. w[i] \in Int /\ Within(w[i], n * Q)
  BY Width DEF IInv, Shape, Accumulated
<1> HIDE DEF n
<1>4. w[i] \in Int /\ -Half <= w[i] /\ w[i] + RedUnit \div 2 < Half
  <2>1. w[i] \in Int /\ -(n * Q) <= w[i] /\ w[i] <= n * Q
    BY <1>3 DEF Within
  <2> QED BY <1>1, <1>2, <2>1, SMT
<1>5. \E e \in Nat : Q - RedUnit <= e /\ RedUnit - Q <= e /\ Reach(e) <= Q
  <2>1. \A e \in {Q - RedUnit, RedUnit - Q} : Reach(e) <= Q
    BY WidthAssumption DEF Reach
  <2>2. CASE Q >= RedUnit
    <3>1. Q - RedUnit \in Nat /\ RedUnit - Q <= Q - RedUnit /\ Q - RedUnit <= Q - RedUnit
      BY <1>2, <2>2, SMT
    <3> QED BY <2>1, <3>1
  <2>3. CASE ~(Q >= RedUnit)
    <3>1. RedUnit - Q \in Nat /\ Q - RedUnit <= RedUnit - Q /\ RedUnit - Q <= RedUnit - Q
      BY <1>2, <2>3, SMT
    <3> QED BY <2>1, <3>1
  <2> QED BY <2>2, <2>3
<1>6. reduce32(w[i]) \in Int /\ \E t \in Int : reduce32(w[i]) = w[i] - t * Q
  BY <1>4, <1>5, ReduceCorrect
<1>7. PICK t \in Int : reduce32(w[i]) = w[i] - t * Q
  BY <1>6
<1>8. (-t) * Q = -(t * Q) /\ t * Q \in Int /\ -t \in Int
  BY <1>2, SMT
<1>9. reduce32(w[i]) = w[i] + (-t) * Q
  BY <1>3, <1>7, <1>8, SMT
<1> QED BY <1>6, <1>8, <1>9 DEF Cong

(* The start of the inverse transform: its input is the sum just reduced,  *)
(* so the value at every leaf is that sum.                                 *)
LEMMA InvNTTCarries ==
  ASSUME IInv, IInv', InvNTT
  PROVE  Returned'
<1>0. /\ pc = "reduce" /\ pc' = "inverse" /\ len' = 1 /\ j' = 0 /\ w' = w /\ job' = job
      /\ a' = IF job.reduce THEN [i \in Index |-> reduce32(w[i])] ELSE w
  BY DEF InvNTT, InvNTTAfter
<1> SUFFICES ASSUME NEW i \in Index
             PROVE  Cong(InverseValue(fieldVec', len', fieldTodo', i), 2 * len' * w'[i])
  BY <1>0 DEF Returned
<1> DEFINE u == fieldVec'
<1>1. fieldTodo' = NttField!Pairs(1)
  BY <1>0, TodoStarts DEF fieldTodo, Transforming
<1>2. w[i] \in Int /\ 1 \in Lengths
  BY EntryTypes, NttAssumption DEF IInv
<1>3. Cong(a'[i], w[i])
  <2>1. CASE job.reduce
    BY <1>0, <2>1, ReducedSum
  <2>2. CASE ~job.reduce
    BY <1>0, <1>2, <2>2, CongEqual
  <2> QED BY <2>1, <2>2
<1>4. u \in [Index -> Int] /\ u[i] \in Int /\ a'[i] \in Int /\ Cong(u[i], a'[i])
  <2>1. a' \in [Index -> Int32] /\ u = [x \in Index |-> a'[x] % Q]
    BY DEF IInv, Shape, fieldVec
  <2> HIDE DEF u
  <2>2. u \in [Index -> Int] /\ a' \in [Index -> Int] /\ Cong(u[i], a'[i])
    BY <2>1, Residues
  <2> QED BY <2>2
<1> HIDE DEF u
<1>5. InverseValue(u, 1, NttField!Pairs(1), i) = 2 * u[i]
  <2>1. InverseValue(u, 1, NttField!Pairs(1), i) = 2 * BlockValue(u, Own(1, i), 1, i)
    BY <1>2, <1>4, InverseEnds
  <2>2. BlockValue(u, Own(1, i), 1, i) = u[i]
    BY <1>4, BlocksMeet
  <2> QED BY <2>1, <2>2
<1>6. Cong(2 * u[i], 2 * w[i])
  <2>1. Cong(u[i], w[i])
    BY <1>2, <1>3, <1>4, CongTrans
  <2>2. Cong(2, 2) /\ 2 \in Int
    BY CongEqual
  <2> QED BY <1>2, <1>4, <2>1, <2>2, CongProduct
<1>7. 2 * 1 = 2
  OBVIOUS
<1> QED BY <1>0, <1>1, <1>5, <1>6, <1>7 DEF u

(* The factors of the last loop and of the layers make R.                  *)
LEMMA FactorsCancel ==
  ASSUME NEW y \in Int, NEW x \in Int, Cong(x, N * y)
  PROVE  LET c == ((R % Q) * NInv) % Q
         IN  c * x \in Int /\ Cong(c * x, R * y)
<1> DEFINE g == R % Q
           c == (g * NInv) % Q
<1>0. NInv \in Int /\ N \in Int /\ R \in Int /\ Q \in Nat /\ Q > 0 /\ N * NInv \in Int
  BY Constants, Sizes, FieldAssumption, SMT
<1>1. g \in Int /\ Cong(g, R)
  BY <1>0, CongEqual
<1> HIDE DEF g
<1>2. g * NInv \in Int
  BY <1>0, <1>1, SMT
<1>3. c \in Int /\ Cong(c, g * NInv)
  <2> DEFINE z == g * NInv
  <2>1. z \in Int
    BY <1>2
  <2> HIDE DEF z
  <2>2. z % Q \in Int /\ Cong(z % Q, z)
    BY <2>1, CongEqual
  <2> QED BY <2>2 DEF z
<1> HIDE DEF c
<1>4. Cong(N * NInv, 1)
  <2>1. (N * NInv) % Q = 1
    BY FieldAssumption
  <2> DEFINE z == N * NInv
  <2>2. z \in Int /\ z % Q = 1
    BY <1>0, <2>1
  <2> HIDE DEF z
  <2>3. Cong(z, z % Q)
    BY <2>2, CongEqual
  <2> QED BY <2>2, <2>3 DEF z
<1>5. /\ c * x \in Int /\ N * y \in Int /\ c * (N * y) \in Int
      /\ (g * NInv) * (N * y) = (N * NInv) * (g * y) /\ g * y \in Int /\ R * y \in Int
      /\ (N * NInv) * (g * y) \in Int /\ 1 * (g * y) = g * y
  <2>1. /\ c * x \in Int /\ N * y \in Int /\ g * y \in Int /\ R * y \in Int
        /\ (g * NInv) * (N * y) = (N * NInv) * (g * y)
    BY <1>0, <1>1, <1>3, SMT
  <2>2. c * (N * y) \in Int /\ (N * NInv) * (g * y) \in Int /\ 1 * (g * y) = g * y
    <3> DEFINE m == N * y
               d == g * y
               e == N * NInv
    <3>1. m \in Int /\ d \in Int /\ e \in Int
      BY <1>0, <2>1
    <3> HIDE DEF m, d, e
    <3>2. c * m \in Int /\ e * d \in Int /\ 1 * d = d
      BY <1>3, <3>1, SMT
    <3> QED BY <3>2 DEF m, d, e
  <2> QED BY <2>1, <2>2
<1>6. Cong(c * x, c * (N * y))
  <2>1. Cong(c, c)
    BY <1>3, CongEqual
  <2> QED BY <1>3, <1>5, <2>1, CongProduct
<1>7. Cong(c * (N * y), (N * NInv) * (g * y))
  <2>1. Cong(N * y, N * y)
    BY <1>5, CongEqual
  <2>2. Cong(c * (N * y), (g * NInv) * (N * y))
    BY <1>2, <1>3, <1>5, <2>1, CongProduct
  <2> QED BY <1>5, <2>2
<1>8. Cong((N * NInv) * (g * y), g * y)
  <2>1. Cong(g * y, g * y)
    BY <1>5, CongEqual
  <2>2. Cong((N * NInv) * (g * y), 1 * (g * y))
    BY <1>0, <1>4, <1>5, <2>1, CongProduct
  <2> QED BY <1>5, <2>2
<1>9. Cong(g * y, R * y)
  <2>1. Cong(y, y)
    BY CongEqual
  <2> QED BY <1>0, <1>1, <2>1, CongProduct
<1> DEFINE t1 == c * x
           t2 == c * (N * y)
           t3 == (N * NInv) * (g * y)
           t4 == g * y
           t5 == R * y
<1>10. /\ Cong(t1, t2) /\ Cong(t2, t3) /\ Cong(t3, t4) /\ Cong(t4, t5)
       /\ t1 \in Int /\ t2 \in Int /\ t3 \in Int /\ t4 \in Int /\ t5 \in Int
  BY <1>5, <1>6, <1>7, <1>8, <1>9
<1> HIDE DEF t1, t2, t3, t4, t5
<1>11. Cong(t1, t3)
  BY <1>10, CongTrans
<1>12. Cong(t3, t5)
  BY <1>10, CongTrans
<1>13. Cong(t1, t5)
  BY <1>10, <1>11, <1>12, CongTrans
<1> QED BY <1>10, <1>13 DEF t1, t5, c, g

(* The layers going back.                                                  *)
LEMMA InverseCarries ==
  ASSUME IInv, IInv', LastLayer', FieldWork, Returned, pc = "inverse", w' = w,
         pc' \in {"inverse", "scale"}
  PROVE  Returned'
<1> SUFFICES ASSUME NEW i \in Index
             PROVE  /\ (pc' = "inverse") =>
                         Cong(InverseValue(fieldVec', len', fieldTodo', i), 2 * len' * w[i])
                    /\ (pc' = "scale") =>
                         Cong(ScaleValue(fieldVec', fieldTodo', i), R * w[i])
  BY DEF Returned
<1> DEFINE u == fieldVec'
           v == fieldVec
           T == fieldTodo
           T2 == fieldTodo'
           y == w[i]
           e == 2 * len * y
<1>1. len \in Lengths /\ len \in Int /\ len >= 1 /\ N \in Int /\ 2 * len <= N /\ len # N
  <2>1. len \in Lengths /\ len \in Int /\ len >= 1 /\ N \in Int /\ 2 * len <= N
    BY Counters, Sizes, LengthFacts DEF IInv, Looping
  <2>2. len # N
    BY <2>1, SMT
  <2> QED BY <2>1, <2>2
<1>2. T \subseteq NttField!Pairs(len)
  BY TodoWithin DEF fieldTodo
<1>3. v \in [Index -> Int]
  <2>1. a \in [Index -> Int32]
    BY DEF IInv, Shape
  <2> QED BY <2>1, Residues DEF fieldVec
<1>4. u \in [Index -> Int]
  <2>1. a' \in [Index -> Int32] /\ u = [x \in Index |-> a'[x] % Q]
    BY DEF IInv, Shape, fieldVec
  <2> HIDE DEF u
  <2> QED BY <2>1, Residues
<1>5. y \in Int
  BY EntryTypes DEF IInv
<1>6. Cong(InverseValue(v, len, T, i), e)
  BY DEF Returned
<1>7. fieldDir = "inverse" /\ fieldLen = len /\ fieldLen' = len'
  BY DEF fieldDir, fieldLen
<1> HIDE DEF y
<1>8. e \in Int
  BY <1>1, <1>5, SMT
<1>9. CASE NttField!Within
  <2>1. /\ T2 \subseteq T /\ T2 # {} /\ len' = len
        /\ u = NttField!Inverse(v, len, T \ T2)
    BY <1>7, <1>9 DEF NttField!Within, NttField!Work
  <2>2. pc' # "scale"
    BY <1>1, <2>1 DEF LastLayer
  <2> HIDE DEF u, v, T, T2, e
  <2>3. T \ (T \ T2) = T2 /\ T \ T2 \subseteq T
    BY <2>1
  <2> DEFINE z2 == InverseValue(NttField!Inverse(v, len, T \ T2), len, T \ (T \ T2), i)
             z == InverseValue(v, len, T, i)
  <2>4. z2 \in Int /\ z \in Int /\ Cong(z2, z)
    BY <1>1, <1>2, <1>3, <2>3, InverseKept
  <2>5. z2 = InverseValue(u, len', T2, i) /\ Cong(z, e)
    BY <1>6, <2>1, <2>3
  <2> HIDE DEF z2, z
  <2>6. Cong(z2, e)
    BY <1>8, <2>4, <2>5, CongTrans
  <2>7. Cong(InverseValue(u, len', T2, i), 2 * len' * y)
    BY <2>1, <2>5, <2>6 DEF e
  <2> QED BY <2>2, <2>7 DEF u, T2, y
<1>10. CASE NttField!Complete
  <2>1. /\ u = NttField!Inverse(v, len, T) /\ len' = 2 * len
        /\ T2 = IF len' \in 1 .. N THEN NttField!Pairs(len') ELSE {}
    BY <1>7, <1>10 DEF NttField!Complete, NttField!Work
  <2>2. len' \in 1 .. N
    BY <1>1, <2>1, SMT
  <2>3. T2 = NttField!Pairs(len')
    BY <2>1, <2>2
  <2> HIDE DEF u, v, T, T2, e
  <2>4. T \ T = {} /\ T \subseteq T
    OBVIOUS
  <2> DEFINE z2 == InverseValue(NttField!Inverse(v, len, T), len, T \ T, i)
             z == InverseValue(v, len, T, i)
             b == BlockValue(u, Base(len, i), 2 * len, i)
  <2>5. z2 \in Int /\ z \in Int /\ Cong(z2, z)
    BY <1>1, <1>2, <1>3, <2>4, InverseKept
  <2>6. z2 = b /\ Cong(z, e)
    BY <1>1, <1>4, <1>6, <2>1, <2>4, InverseEnds
  <2> HIDE DEF z2, z
  <2>7. Cong(b, e) /\ b \in Int
    BY <1>8, <2>5, <2>6, CongTrans
  <2>8. CASE pc' = "inverse"
    <3>1. len' \in Lengths /\ 2 * len \in Lengths
      <4>1. len' \in Lengths
        BY <2>8 DEF IInv, LoopShape, Looping
      <4> QED BY <2>1, <4>1
    <3>2. InverseValue(u, 2 * len, NttField!Pairs(2 * len), i) = 2 * b
      <4>1. InverseValue(u, 2 * len, NttField!Pairs(2 * len), i)
              = 2 * BlockValue(u, Own(2 * len, i), 2 * len, i)
        BY <1>4, <3>1, InverseEnds
      <4>2. BlockValue(u, Own(2 * len, i), 2 * len, i) = b
        BY <1>1, <1>4, <3>1, BlocksMeet
      <4> QED BY <4>1, <4>2
    <3>3. Cong(2 * b, 2 * e)
      <4>1. Cong(2, 2) /\ 2 \in Int
        BY CongEqual
      <4> QED BY <1>8, <2>7, <4>1, CongProduct
    <3>4. 2 * e = 2 * len' * y
      BY <1>1, <1>5, <2>1, SMT DEF e
    <3>5. Cong(InverseValue(u, len', T2, i), 2 * len' * y)
      BY <2>1, <2>3, <3>2, <3>3, <3>4
    <3> QED BY <2>8, <3>5 DEF u, T2, y
  <2>9. CASE pc' = "scale"
    <3>1. 2 * len = N /\ len' = N
      BY <2>1, <2>9 DEF LastLayer
    <3>2. T2 = Index
      <4>1. \A x \in Index : x % (2 * N) < N
        BY <1>1, SMT DEF Index
      <4> QED BY <2>3, <3>1, <4>1 DEF NttField!Pairs, NttField!Index, Index
    <3>3. b = Value(u, i)
      BY <1>1, <1>4, <3>1, BlocksMeet
    <3>4. e = N * y
      BY <3>1 DEF e
    <3> DEFINE c == ((R % Q) * NInv) % Q
    <3>5. ScaleValue(u, Index, i) = c * Value(u, i)
      BY <1>4, ScaleEnds
    <3> HIDE DEF b, c
    <3>6. Cong(c * b, R * y)
      BY <1>5, <2>7, <3>4, FactorsCancel DEF c
    <3>7. Cong(ScaleValue(u, T2, i), R * y)
      BY <3>2, <3>3, <3>5, <3>6
    <3> QED BY <2>9, <3>7 DEF u, T2, y
  <2> QED BY <2>8, <2>9
<1> QED BY <1>9, <1>10 DEF FieldWork

(* The last loop.                                                          *)
LEMMA ScaleCarries ==
  ASSUME IInv, IInv', LastLayer, FieldWork, Returned, Scale
  PROVE  Returned'
<1>0. pc = "scale" /\ pc' \in {"scale", "done"} /\ w' = w /\ len' = len /\ len = N
  BY DEF Scale, LastLayer
<1> SUFFICES ASSUME NEW i \in Index
             PROVE  /\ (pc' = "scale") => Cong(ScaleValue(fieldVec', fieldTodo', i), R * w[i])
                    /\ (pc' = "done") => Cong(Value(fieldVec', i), R * w[i])
  BY <1>0 DEF Returned
<1> DEFINE u == fieldVec'
           v == fieldVec
           T == fieldTodo
           T2 == fieldTodo'
           e == R * w[i]
<1>1. T \subseteq Index
  BY DEF fieldTodo, StillToDo
<1>2. v \in [Index -> Int]
  <2>1. a \in [Index -> Int32]
    BY DEF IInv, Shape
  <2> QED BY <2>1, Residues DEF fieldVec
<1>3. u \in [Index -> Int]
  <2>1. a' \in [Index -> Int32] /\ u = [x \in Index |-> a'[x] % Q]
    BY DEF IInv, Shape, fieldVec
  <2> HIDE DEF u
  <2> QED BY <2>1, Residues
<1>4. e \in Int /\ N \in Int /\ N >= 2
  <2>1. w[i] \in Int /\ R \in Int
    BY EntryTypes, Constants DEF IInv
  <2> QED BY <2>1, Sizes, SMT
<1>5. Cong(ScaleValue(v, T, i), e)
  BY <1>0 DEF Returned
<1>6. fieldDir = "inverse" /\ fieldLen = N /\ (pc' = "scale" => fieldLen' = N)
  BY <1>0 DEF fieldDir, fieldLen
<1>7. CASE NttField!Within
  <2>1. /\ T2 \subseteq T /\ T2 # {}
        /\ u = NttField!Inverse(v, N, T \ T2)
    BY <1>6, <1>7 DEF NttField!Within, NttField!Work
  <2>2. pc' # "done"
    BY <2>1 DEF fieldTodo, Transforming
  <2> HIDE DEF u, v, T, T2, e
  <2>3. T \ (T \ T2) = T2 /\ T \ T2 \subseteq T
    BY <2>1
  <2> DEFINE z2 == ScaleValue(NttField!Inverse(v, N, T \ T2), T \ (T \ T2), i)
             z == ScaleValue(v, T, i)
  <2>4. z2 \in Int /\ z \in Int /\ Cong(z2, z)
    BY <1>1, <1>2, <2>3, ScaleKept
  <2>5. z2 = ScaleValue(u, T2, i) /\ Cong(z, e)
    BY <1>5, <2>1, <2>3
  <2> HIDE DEF z2, z
  <2>6. Cong(z2, e)
    BY <1>4, <2>4, <2>5, CongTrans
  <2> QED BY <2>2, <2>5, <2>6 DEF u, T2, e
<1>8. CASE NttField!Complete
  <2>1. u = NttField!Inverse(v, N, T) /\ fieldLen' = 2 * N
    BY <1>6, <1>8 DEF NttField!Complete, NttField!Work
  <2>2. pc' # "scale"
    <3>1. 2 * N # N
      BY <1>4, SMT
    <3> QED BY <1>6, <2>1, <3>1
  <2> HIDE DEF u, v, T, T2, e
  <2>3. T \ T = {} /\ T \subseteq T
    OBVIOUS
  <2> DEFINE z2 == ScaleValue(NttField!Inverse(v, N, T), T \ T, i)
             z == ScaleValue(v, T, i)
  <2>4. z2 \in Int /\ z \in Int /\ Cong(z2, z)
    BY <1>1, <1>2, <2>3, ScaleKept
  <2>5. z2 = Value(u, i) /\ Cong(z, e)
    BY <1>3, <1>5, <2>1, <2>3, ScaleEnds
  <2> HIDE DEF z2, z
  <2>6. Cong(z2, e)
    BY <1>4, <2>4, <2>5, CongTrans
  <2> QED BY <2>2, <2>5, <2>6 DEF u, e
<1> QED BY <1>7, <1>8 DEF FieldWork

(* Every step carries on what the arrays stand for.                        *)
LEMMA CarriedOn ==
  ASSUME IInv, IInv', LastLayer, LastLayer', Carried, [Next]_vars
  PROVE  Carried'
<1> USE DEF Carried
<1>1. CASE NTT
  <2>1. Transformed'
    BY <1>1, NTTCarries
  <2>2. /\ pc = "load" /\ pc' \in {"vector", "scalar"} /\ job' = job /\ col' = col /\ w' = w
    BY <1>1 DEF NTT
  <2>3. Summed'
    BY <2>2 DEF Summed, RowSum
  <2>4. Multiplied' /\ Returned'
    BY <2>2 DEF Multiplied, Returned
  <2> QED BY <2>1, <2>3, <2>4
<1>2. CASE Butterfly \/ VectorButterfly
  <2>1. /\ pc \in {"vector", "scalar"} /\ job' = job /\ col' = col /\ w' = w
        /\ pc' \in {"vector", "scalar"} \/ (len <= 1 /\ pc' = "pointwise")
    BY <1>2 DEF Butterfly, VectorButterfly, VectorThenScalar
  <2>2. FieldWork
    BY <1>2, FieldOfButterfly, FieldOfVectorButterfly
  <2>3. Transformed' /\ Multiplied'
    BY <2>1, <2>2, ForwardCarries
  <2>4. Summed'
    BY <2>1 DEF Summed, RowSum
  <2>5. Returned'
    BY <2>1 DEF Returned
  <2> QED BY <2>3, <2>4, <2>5
<1>3. CASE Pointwise
  <2>1. Summed'
    BY <1>3, PointwiseCarries
  <2>2. pc' \in {"load", "reduce"}
    BY <1>3 DEF Pointwise, PointwiseInto
  <2> QED BY <2>1, <2>2 DEF Transformed, Multiplied, Returned
<1>4. CASE InvNTT
  <2>1. Returned'
    BY <1>4, InvNTTCarries
  <2>2. pc = "reduce" /\ pc' = "inverse" /\ job' = job /\ w' = w
    BY <1>4 DEF InvNTT, InvNTTAfter
  <2>3. Summed'
    BY <2>2 DEF Summed, RowSum
  <2> QED BY <2>1, <2>2, <2>3 DEF Transformed, Multiplied
<1>5. CASE InverseButterfly
  <2>1. pc = "inverse" /\ pc' \in {"inverse", "scale"} /\ job' = job /\ w' = w
    BY <1>5 DEF InverseButterfly, InverseBelow
  <2>2. Returned'
    BY <1>5, <2>1, FieldOfInverseButterfly, InverseCarries
  <2>3. Summed'
    BY <2>1 DEF Summed, RowSum
  <2> QED BY <2>1, <2>2, <2>3 DEF Transformed, Multiplied
<1>6. CASE Scale
  <2>1. pc = "scale" /\ pc' \in {"scale", "done"} /\ job' = job /\ w' = w
    BY <1>6 DEF Scale
  <2>2. Returned'
    BY <1>6, FieldOfScale, ScaleCarries
  <2>3. Summed'
    BY <2>1 DEF Summed, RowSum
  <2> QED BY <2>1, <2>2, <2>3 DEF Transformed, Multiplied
<1>7. CASE UNCHANGED vars
  <2>1. /\ UNCHANGED <<job, pc, col, a, w, len, j>> /\ fieldVec' = fieldVec
        /\ fieldTodo' = fieldTodo
    BY <1>7 DEF vars, fieldVec, fieldTodo, Transforming
  <2> QED BY <2>1 DEF Transformed, Multiplied, Summed, Returned, RowSum
<1> QED BY <1>1, <1>2, <1>3, <1>4, <1>5, <1>6, <1>7 DEF Next

(* At the end the array has the values of the sum of products.             *)
LEMMA CarriedToEnd ==
  ASSUME IInv, Carried
  PROVE  RowProduct
<1> SUFFICES ASSUME pc = "done", NEW i \in Index
             PROVE  EvaluateAt(a, i) = RowSum(Len(job.cols), i) % Q
  BY DEF RowProduct
<1> DEFINE u == fieldVec
           n == Len(job.cols)
           s == RowSum(n, i)
           e == R * w[i]
<1>1. Cong(Value(u, i), e) /\ Cong(e, s)
  BY DEF Carried, Summed, Returned
<1>2. /\ Value(u, i) \in Int /\ Value(a, i) \in Int /\ Cong(Value(u, i), Value(a, i))
  <2>1. a \in [Index -> Int32]
    BY DEF IInv, Shape
  <2> QED BY <2>1, Residues DEF fieldVec
<1>3. e \in Int /\ s \in Int
  <2>1. w[i] \in Int /\ R \in Int /\ n \in Nat /\ col \in 1 .. n
    BY EntryTypes, Constants DEF IInv
  <2>2. n \in 1 .. n
    BY <2>1, SMT
  <2>3. s \in Int
    BY <2>2, RowSums DEF IInv
  <2> QED BY <2>1, <2>3, SMT
<1> HIDE DEF u, s, e
<1>4. Cong(Value(u, i), s)
  BY <1>1, <1>2, <1>3, CongTrans
<1>5. Cong(Value(a, i), Value(u, i))
  BY <1>2, CongSym
<1>6. Cong(Value(a, i), s)
  BY <1>2, <1>3, <1>4, <1>5, CongTrans
<1>7. Value(a, i) % Q = s % Q
  BY <1>2, <1>3, <1>6, CongEqual
<1>8. EvaluateAt(a, i) = Value(a, i) % Q
  BY DEF EvaluateAt, Value
<1> QED BY <1>7, <1>8 DEF s

(* What the caller gets is, at every root, the product of the columns with *)
(* the rows, for every size, table, job and representative, with and       *)
(* without the vector code.                                                *)
THEOREM ProductsOfRows == Spec => []RowProduct
<1>1. Init => Carried
  <2> SUFFICES ASSUME Init PROVE Carried
    OBVIOUS
  <2>1. pc = "load" /\ ~(col > 1)
    BY SMT DEF Init
  <2> QED BY <2>1 DEF Carried, Transformed, Multiplied, Summed, Returned
<1>2. IInv /\ IInv' /\ LastLayer /\ LastLayer' /\ Carried /\ [Next]_vars => Carried'
  BY CarriedOn
<1>3. IInv /\ Carried => RowProduct
  BY CarriedToEnd
<1> QED BY <1>1, <1>2, <1>3, Invariance, LastLength, PTL DEF Spec
=============================================================================
