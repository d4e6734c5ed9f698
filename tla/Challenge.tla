------------------------------ MODULE Challenge ------------------------------
(***************************************************************************)
(* PolyChallenge: an inside-out shuffle that places Tau signs in N         *)
(* coefficients, N being called Size here.  The bytes of SHAKE256(seed)    *)
(* are external: any bytes, the first eight as the sign bits.  A byte has  *)
(* Size values, as it has in the code, where N is 256.                     *)
(***************************************************************************)
EXTENDS Integers, FiniteSets

CONSTANTS
  Size,       \* coefficients of a polynomial
  Tau,        \* mode.Tau()
  SignBits    \* 64: the width of signs

ASSUME ChallengeAssumption ==
  /\ Size \in Nat /\ Tau \in Nat \ {0} /\ Tau <= Size
  /\ SignBits \in Nat /\ Tau <= SignBits

VARIABLES
  stage,    \* "seed", "shuffle" or "ready"
  i,        \* the index of the loop
  signs,    \* the sign bits left
  c         \* the coefficients

ball == <<stage, i, signs, c>>

Index == 0 .. Size - 1

ChallengeInit == stage = "seed" /\ i = 0 /\ signs = 0 /\ c = [n \in Index |-> 0]

Seed ==
  /\ stage = "seed"
  /\ signs' \in 0 .. 2 ^ SignBits - 1
  /\ c' = [n \in Index |-> 0]
  /\ i' = Size - Tau /\ stage' = "shuffle"

(* Mutant: an entry cannot stay where it is.                               *)
Accepts_Strict(b, at) == b < at

Accepts(b, at) == b <= at

Sign(bits) == 1 - 2 * (bits % 2)

(* Mutant: the sign is written before the old value is moved.              *)
Place_SignFirst(p, at, b, bits) ==
  [p EXCEPT ![b] = Sign(bits), ![at] = Sign(bits)]

Place(p, at, b, bits) == [p EXCEPT ![at] = p[b], ![b] = Sign(bits)]

(* A byte above i is thrown away; the first other one is the place.        *)
Shuffle ==
  /\ stage = "shuffle"
  /\ \E b \in Index :
       /\ Accepts(b, i)
       /\ c' = Place(c, i, b, signs)
  /\ signs' = signs \div 2
  /\ i' = i + 1
  /\ stage' = IF i + 1 < Size THEN "shuffle" ELSE "ready"

ChallengeNext == Seed \/ Shuffle

ChallengeSpec == ChallengeInit /\ [][ChallengeNext]_ball

-----------------------------------------------------------------------------
NonZero == {n \in Index : c[n] # 0}

(* The loop moves a value before it overwrites it, so a sign placed is     *)
(* never lost, also when the byte is i itself: there are as many nonzero   *)
(* coefficients as rounds done, all below i, and Tau of them in the end    *)
(* (poly.go:254-265).                                                      *)
TernaryShape ==
  /\ c \in [Index -> {-1, 0, 1}]
  /\ (stage = "shuffle") =>
       /\ i \in Size - Tau .. Size - 1
       /\ NonZero \subseteq 0 .. i - 1
       /\ Cardinality(NonZero) = i - (Size - Tau)
  /\ (stage = "ready") => Cardinality(NonZero) = Tau

(* All choices of accepted places and of signs, and what they lead to.     *)
Choices ==
  {f \in [Size - Tau .. Size - 1 -> Index \X {0, 1}] :
     \A at \in Size - Tau .. Size - 1 : Accepts(f[at][1], at)}

Outcome(f) ==
  LET after[at \in Size - Tau .. Size] ==
        IF at = Size - Tau THEN [n \in Index |-> 0]
        ELSE Place(after[at - 1], at - 1, f[at - 1][1], f[at - 1][2])
  IN  after[Size]

Factorial[n \in Nat] == IF n = 0 THEN 1 ELSE n * Factorial[n - 1]

(* Every challenge the loop makes comes from the same number of choices,   *)
(* one for each order of its places, so each is as likely as any other.    *)
EquallyLikely ==
  (stage = "ready") =>
    Cardinality({f \in Choices : Outcome(f) = c}) = Factorial[Tau]
=============================================================================
