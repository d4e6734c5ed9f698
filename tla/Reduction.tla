------------------------------ MODULE Reduction ------------------------------
(***************************************************************************)
(* reduce.go at the width of its integers.  R is the number of values of   *)
(* an int32, 2^32 in the code; every sum, difference and product that the  *)
(* code keeps in an int32 is brought back to that width by int32.  The     *)
(* int64 products are taken as integers: two factors of an int32 each      *)
(* cannot leave an int64.                                                  *)
(***************************************************************************)
EXTENDS Integers

CONSTANTS
  Q,         \* the modulus, 8380417
  R,         \* the number of values of an int32, 2^32
  QInv,      \* QINV, the inverse of Q modulo R
  RedUnit    \* 1 << 23: the power of two reduce32 divides by

Half == R \div 2

ASSUME ReductionAssumption ==
  /\ Q \in Nat \ {0} /\ R \in Nat \ {0} /\ QInv \in Nat
  /\ RedUnit \in Nat \ {0}
  /\ R = 2 * Half /\ RedUnit = 2 * (RedUnit \div 2)
  /\ Q < Half /\ QInv < Half
  /\ \E c \in 0 .. Q : Q * QInv = 1 + c * R

Int32 == -Half .. Half - 1

(* The conversion int32(x), and what an int32 operation leaves of x.       *)
int32(x) == ((x + Half) % R) - Half

montgomeryReduce(a) ==
  LET t == int32(int32(a) * QInv)
  IN  int32((a - t * Q) \div R)

reduce32(a) ==
  LET t == int32(a + RedUnit \div 2) \div RedUnit
  IN  int32(a - int32(t * Q))
=============================================================================
