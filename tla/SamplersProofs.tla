---------------------------- MODULE SamplersProofs ----------------------------
(***************************************************************************)
(* PolyChallenge leaves Tau signs, whatever bytes it reads, and every      *)
(* challenge from the same number of choices, for every number of          *)
(* coefficients and every Tau; and the rejection loops of key              *)
(* generation stay inside polynomial and buffer, each on a stream of its   *)
(* own, and make what module Expansion promises, for every size of matrix, *)
(* block and polynomial.                                                   *)
(***************************************************************************)
EXTENDS Samplers, FiniteSetTheorems, SequenceTheorems, WellFoundedInduction, TLAPS

(* The constants and the index set.                                        *)
LEMMA Bounds ==
  /\ Size \in Nat /\ Tau \in Nat /\ 1 <= Tau /\ Tau <= Size /\ Size - Tau \in Int
  /\ \A n : n \in Index <=> (n \in Int /\ 0 <= n /\ n < Size)
BY ChallengeAssumption, SMT DEF Index

(* A sign is 1 or -1, never 0.                                             *)
LEMMA SignIsNotZero ==
  ASSUME NEW bits \in Nat
  PROVE  Sign(bits) \in {-1, 1} /\ bits \div 2 \in Nat
<1>1. (bits % 2) = 0 \/ (bits % 2) = 1
  BY SMT
<1>2. bits \div 2 \in Nat
  BY SMT
<1> QED BY <1>1, <1>2, SMT DEF Sign

(* The inductive invariant.                                                *)
CInv ==
  /\ stage \in {"seed", "shuffle", "ready"} /\ signs \in Nat
  /\ TernaryShape

(* The nonzero coefficients of any polynomial.                             *)
NonZeroOf(p) == {n \in Index : p[n] # 0}

(* q has one nonzero coefficient more than p, at `at` or below.            *)
AddsOne(p, q, at) ==
  /\ q \in [Index -> {-1, 0, 1}]
  /\ \E n \in 0 .. at :
       n \notin NonZeroOf(p) /\ NonZeroOf(q) = NonZeroOf(p) \cup {n}

(* What one place adds to the nonzero coefficients.                        *)
LEMMA PlaceAddsOne ==
  ASSUME NEW p \in [Index -> {-1, 0, 1}], NEW at \in Index, NEW b \in Index, b <= at,
         NEW bits \in Nat,
         NonZeroOf(p) \subseteq 0 .. at - 1
  PROVE  AddsOne(p, Place(p, at, b, bits), at)
<1> DEFINE nz == NonZeroOf(p)
           s == Sign(bits)
           q == Place(p, at, b, bits)
<1>1. s \in {-1, 1} /\ s # 0
  BY SignIsNotZero, SMT
<1>2. q = [p EXCEPT ![at] = p[b], ![b] = s]
  BY DEF Place
<1> HIDE DEF s, q
<1>3. q \in [Index -> {-1, 0, 1}]
  BY <1>1, <1>2
<1>4. at \notin nz /\ p[at] = 0 /\ at \in 0 .. at /\ b \in 0 .. at
  <2>1. at \notin 0 .. at - 1 /\ at \in 0 .. at /\ b \in 0 .. at
    BY Bounds, SMT
  <2> QED BY <2>1 DEF NonZeroOf
<1>5. q[b] = s /\ (at # b => q[at] = p[b]) /\ \A m \in Index : (m # at /\ m # b) => q[m] = p[m]
  BY <1>2
<1>6. CASE p[b] = 0
  <2>1. NonZeroOf(q) = nz \cup {b}
    BY <1>1, <1>4, <1>5, <1>6 DEF NonZeroOf
  <2>2. b \notin nz
    BY <1>6 DEF NonZeroOf
  <2> QED BY <1>3, <1>4, <2>1, <2>2 DEF AddsOne, q
<1>7. CASE p[b] # 0
  <2>1. at # b
    BY <1>4, <1>7
  <2>2. NonZeroOf(q) = nz \cup {at}
    BY <1>1, <1>4, <1>5, <1>7, <2>1 DEF NonZeroOf
  <2> QED BY <1>3, <1>4, <2>2 DEF AddsOne, q
<1> QED BY <1>6, <1>7

(* The seed, and the empty polynomial.                                     *)
LEMMA StepSeed ==
  ASSUME CInv, Seed
  PROVE  CInv'
<1>1. /\ stage' = "shuffle" /\ i' = Size - Tau /\ c' = [n \in Index |-> 0]
      /\ signs' \in 0 .. 2 ^ SignBits - 1
  BY DEF Seed
<1>2. signs' \in Nat
  BY <1>1, SMT
<1>3. NonZero' = {}
  BY <1>1 DEF NonZero
<1>4. Size - Tau \in Size - Tau .. Size - 1 /\ Size - Tau - (Size - Tau) = 0
  BY Bounds, SMT
<1>5. Cardinality({}) = 0
  BY FS_EmptySet
<1> QED BY <1>1, <1>2, <1>3, <1>4, <1>5 DEF CInv, TernaryShape

(* A round of the shuffle.                                                 *)
LEMMA StepShuffle ==
  ASSUME CInv, Shuffle
  PROVE  CInv'
<1>1. /\ i \in Size - Tau .. Size - 1 /\ NonZero \subseteq 0 .. i - 1 /\ signs \in Nat
      /\ Cardinality(NonZero) = i - (Size - Tau) /\ c \in [Index -> {-1, 0, 1}]
  BY DEF CInv, TernaryShape, Shuffle
<1>2. i \in Int /\ i \in Index /\ Size - Tau <= i /\ i < Size
  BY <1>1, Bounds, SMT
<1>3. PICK b \in Index : b <= i /\ c' = Place(c, i, b, signs)
  BY DEF Shuffle, Accepts
<1>4. /\ c' \in [Index -> {-1, 0, 1}]
      /\ \E n \in 0 .. i : n \notin NonZero /\ NonZero' = NonZero \cup {n}
  <2>1. NonZero = NonZeroOf(c) /\ NonZero' = NonZeroOf(c')
    BY DEF NonZero, NonZeroOf
  <2>2. NonZeroOf(c) \subseteq 0 .. i - 1
    BY <1>1, <2>1
  <2>3. AddsOne(c, Place(c, i, b, signs), i)
    BY <1>1, <1>2, <1>3, <2>2, PlaceAddsOne
  <2> QED BY <1>3, <2>1, <2>3 DEF AddsOne
<1>5. PICK n \in 0 .. i : n \notin NonZero /\ NonZero' = NonZero \cup {n}
  BY <1>4
<1>6. Cardinality(NonZero') = i + 1 - (Size - Tau)
  <2>1. IsFiniteSet(0 .. i - 1)
    BY <1>2, FS_Interval, SMT
  <2>2. IsFiniteSet(NonZero)
    BY <1>1, <2>1, FS_Subset
  <2>3. Cardinality(NonZero \cup {n}) = Cardinality(NonZero) + 1
    BY <1>5, <2>2, FS_AddElement
  <2>4. i - (Size - Tau) + 1 = i + 1 - (Size - Tau)
    BY <1>2, Bounds, SMT
  <2> QED BY <1>1, <1>5, <2>3, <2>4
<1>7. NonZero' \subseteq 0 .. i
  <2>1. 0 .. i - 1 \subseteq 0 .. i
    BY <1>2, SMT
  <2> QED BY <1>1, <1>5, <2>1
<1>8. signs' = signs \div 2 /\ signs' \in Nat /\ i' = i + 1
  BY <1>1, SignIsNotZero DEF Shuffle
<1>9. CASE i + 1 < Size
  <2>1. stage' = "shuffle"
    BY <1>9 DEF Shuffle
  <2>2. i + 1 \in Size - Tau .. Size - 1 /\ i + 1 - 1 = i
    BY <1>2, <1>9, Bounds, SMT
  <2>3. /\ i' \in Size - Tau .. Size - 1 /\ NonZero' \subseteq 0 .. i' - 1
        /\ Cardinality(NonZero') = i' - (Size - Tau)
    <3>1. i' - 1 = i /\ i' = i + 1
      BY <1>2, <1>8, SMT
    <3>2. 0 .. i' - 1 = 0 .. i /\ i' - (Size - Tau) = i + 1 - (Size - Tau)
      BY <1>2, <3>1, Bounds, SMT
    <3> QED BY <1>6, <1>7, <2>2, <3>1, <3>2
  <2>4. (Size - Tau)' = Size - Tau /\ (Size - Tau .. Size - 1)' = Size - Tau .. Size - 1
    OBVIOUS
  <2> QED BY <1>4, <1>8, <2>1, <2>3, <2>4 DEF CInv, TernaryShape
<1>10. CASE ~(i + 1 < Size)
  <2>1. stage' = "ready"
    BY <1>10 DEF Shuffle
  <2>2. i + 1 - (Size - Tau) = Tau
    BY <1>2, <1>10, Bounds, SMT
  <2> QED BY <1>4, <1>6, <1>8, <2>1, <2>2 DEF CInv, TernaryShape
<1> QED BY <1>9, <1>10

(* After every round there are as many signs as rounds, and Tau in the     *)
(* end: no sign is lost when the place drawn is taken or is i itself.      *)
THEOREM TauSigns == ChallengeSpec => []TernaryShape
<1>1. ChallengeInit => CInv
  <2> SUFFICES ASSUME ChallengeInit PROVE CInv
    OBVIOUS
  <2>1. c \in [Index -> {-1, 0, 1}] /\ stage = "seed" /\ signs \in Nat
    BY DEF ChallengeInit
  <2> QED BY <2>1 DEF CInv, TernaryShape
<1>2. CInv /\ [ChallengeNext]_ball => CInv'
  <2>1. ASSUME CInv, UNCHANGED ball PROVE CInv'
    BY <2>1 DEF CInv, TernaryShape, NonZero, ball
  <2> QED BY <2>1, StepSeed, StepShuffle DEF ChallengeNext
<1>3. CInv => TernaryShape
  BY DEF CInv
<1> QED BY <1>1, <1>2, <1>3, PTL DEF ChallengeSpec
-----------------------------------------------------------------------------
(* The polynomials of a key.                                               *)

(* The names of streams.                                                   *)
Name == [xof : {128, 256}, nonce : Nat]

(* The constants as inequalities.                                          *)
LEMMA Counts ==
  /\ K \in Nat /\ L \in Nat /\ K * L \in Nat /\ K * L >= 1
  /\ 1 <= K /\ K < 256 /\ 1 <= L /\ L < 256
  /\ N \in Nat /\ N >= 1 /\ Q \in Nat /\ Period \in Nat /\ Period >= 1
<1>1. /\ K \in Nat /\ L \in Nat /\ 1 <= K /\ K < 256 /\ 1 <= L /\ L < 256
      /\ N \in Nat /\ N >= 1 /\ Q \in Nat /\ Period \in Nat /\ Period >= 1
  BY SamplingAssumption, SMT
<1>2. K * L >= 1 /\ K * L \in Nat
  BY <1>1, SMT
<1> QED BY <1>1, <1>2

(* What count polynomials of PolyVecUniformEta are made from.              *)
LEMMA EtaPart ==
  ASSUME NEW count \in Nat, count < 256, NEW nonce \in Nat, nonce < 256
  PROVE  /\ UniformEta(count, nonce) \in Seq(Name)
         /\ Len(UniformEta(count, nonce)) = count
         /\ \A n \in 1 .. count :
              UniformEta(count, nonce)[n] = [xof |-> 256, nonce |-> nonce + (n - 1)]
<1> DEFINE e(n) == [xof |-> 256, nonce |-> uint16(nonce + uint16(n - 1))]
<1>1. \A n \in 1 .. count :
        uint16(nonce + uint16(n - 1)) = nonce + (n - 1)
        /\ nonce + (n - 1) \in Nat
  BY SMT DEF uint16
<1>2. \A n \in 1 .. count : e(n) \in Name
  BY <1>1 DEF Name
<1>3. UniformEta(count, nonce) = [n \in 1 .. count |-> e(n)]
  BY DEF UniformEta
<1>4. [n \in 1 .. count |-> e(n)] \in [1 .. count -> Name]
  BY <1>2
<1>5. UniformEta(count, nonce) \in Seq(Name)
  BY <1>3, <1>4, SeqDef
<1>6. Len(UniformEta(count, nonce)) = count
  BY <1>3, <1>5, LenProperties, SMT
<1> QED BY <1>1, <1>3, <1>5, <1>6

(* Element n of the matrix is on this row and in this column.              *)
Row(n) == (n - 1) \div L
Column(n) == (n - 1) % L

(* The polynomial at place n of the list of work is the one of its row and *)
(* column.                                                                 *)
LEMMA Places ==
  ASSUME NEW n \in 1 .. K * L
  PROVE  /\ Row(n) \in Nat /\ Row(n) < 256 /\ Column(n) \in Nat /\ Column(n) < 256
         /\ n - 1 = Row(n) * L + Column(n)
         /\ uint16(Row(n) * 256 + Column(n)) = Row(n) * 256 + Column(n)
<1>1. /\ Row(n) \in Int /\ Column(n) \in Int /\ n - 1 = L * Row(n) + Column(n)
      /\ 0 <= Column(n) /\ Column(n) < L
      /\ n \in Int /\ 0 <= n - 1 /\ n - 1 < K * L
  BY Counts, SMT DEF Row, Column
<1>2. 0 <= Row(n)
  <2> SUFFICES ASSUME Row(n) <= -1 PROVE FALSE
    BY <1>1, SMT
  <2>1. L * Row(n) <= -L
    BY <1>1, Counts, SMT
  <2> QED BY <1>1, <2>1, Counts, SMT
<1>3. Row(n) < K
  <2> SUFFICES ASSUME Row(n) >= K PROVE FALSE
    BY <1>1, Counts, SMT
  <2>1. L * Row(n) >= L * K /\ L * K = K * L
    BY <1>1, Counts, SMT
  <2> QED BY <1>1, <2>1, Counts, SMT
<1>4. uint16(Row(n) * 256 + Column(n)) = Row(n) * 256 + Column(n)
  <2> DEFINE x == Row(n) * 256 + Column(n)
  <2>1. x \in Nat /\ x < 65536
    BY <1>1, <1>2, <1>3, Counts, SMT
  <2> HIDE DEF x
  <2>2. x % 65536 = x
    BY <2>1, SMT
  <2> QED BY <2>2 DEF uint16, x
<1> QED BY <1>1, <1>2, <1>3, <1>4, Counts, SMT

(* The streams of the matrix: row and column are in the nonce.             *)
LEMMA MatrixPart ==
  /\ MatrixExpand \in Seq(Name) /\ Len(MatrixExpand) = K * L
  /\ \A n \in 1 .. K * L :
       MatrixExpand[n] = [xof |-> 128, nonce |-> Row(n) * 256 + Column(n)]
<1> DEFINE e(n) == [xof |-> 128, nonce |-> Row(n) * 256 + Column(n)]
<1>1. ASSUME NEW n \in 1 .. K * L
      PROVE  /\ e(n) \in Name
             /\ e(n) = [xof |-> 128,
                        nonce |-> uint16(((n - 1) \div L) * 256 + ((n - 1) % L))]
  <2>1. Row(n) * 256 + Column(n) \in Nat
    BY Places, SMT
  <2>2. Row(n) * 256 + Column(n) = uint16(((n - 1) \div L) * 256 + ((n - 1) % L))
    BY Places DEF Row, Column
  <2> QED BY <2>1, <2>2 DEF Name
<1>2. MatrixExpand = [n \in 1 .. K * L |-> e(n)]
  BY <1>1 DEF MatrixExpand
<1>3. [n \in 1 .. K * L |-> e(n)] \in [1 .. K * L -> Name]
  BY <1>1
<1>4. MatrixExpand \in Seq(Name)
  BY <1>2, <1>3, SeqDef, Counts
<1>5. Len(MatrixExpand) = K * L
  BY <1>2, <1>4, LenProperties, Counts, SMT
<1> QED BY <1>2, <1>4, <1>5

(* Two sequences of known length in a row.                                 *)
LEMMA Joined ==
  ASSUME NEW S, NEW p \in Seq(S), NEW q \in Seq(S),
         NEW m, NEW n, m = Len(p), n = Len(q)
  PROVE  /\ p \o q \in Seq(S) /\ Len(p \o q) = m + n
         /\ \A r \in 1 .. m + n : (p \o q)[r] = IF r <= m THEN p[r] ELSE q[r - m]
BY ConcatProperties

(* The order of Work: matrix, then the L + K polynomials of s1 and s2,     *)
(* whose nonces go on from one vector to the other.                        *)
LEMMA WorkOrder ==
  /\ Work \in Seq(Name) /\ Len(Work) = K * L + L + K
  /\ \A n \in 1 .. K * L : Work[n] = MatrixExpand[n]
  /\ \A n \in K * L + 1 .. K * L + L + K :
       Work[n] = [xof |-> 256, nonce |-> n - 1 - K * L]
<1> DEFINE A == MatrixExpand
           B == UniformEta(L, 0)
           C == UniformEta(K, L)
<1>0. 0 \in Nat /\ 0 < 256 /\ L \in Nat /\ L < 256 /\ K \in Nat /\ K < 256 /\ K * L \in Nat
  BY Counts, SMT
<1>1. /\ A \in Seq(Name) /\ Len(A) = K * L
      /\ \A n \in 1 .. K * L : A[n] = [xof |-> 128, nonce |-> Row(n) * 256 + Column(n)]
  BY MatrixPart
<1>2. /\ B \in Seq(Name) /\ Len(B) = L
      /\ \A n \in 1 .. L : B[n] = [xof |-> 256, nonce |-> 0 + (n - 1)]
  <2> SUFFICES ASSUME NEW z \in Nat, z = 0
               PROVE  /\ UniformEta(L, z) \in Seq(Name) /\ Len(UniformEta(L, z)) = L
                      /\ \A n \in 1 .. L :
                           UniformEta(L, z)[n] = [xof |-> 256, nonce |-> z + (n - 1)]
    OBVIOUS
  <2>1. z < 256
    BY <1>0
  <2> QED BY <1>0, <2>1, EtaPart
<1>3. /\ C \in Seq(Name) /\ Len(C) = K
      /\ \A n \in 1 .. K : C[n] = [xof |-> 256, nonce |-> L + (n - 1)]
  BY <1>0, EtaPart
<1> HIDE DEF A, B, C
<1>4. /\ A \o B \in Seq(Name) /\ Len(A \o B) = K * L + L
      /\ \A n \in 1 .. K * L + L : (A \o B)[n] = IF n <= K * L THEN A[n] ELSE B[n - K * L]
  BY <1>1, <1>2, Joined
<1>8. /\ (A \o B) \o C \in Seq(Name) /\ Len((A \o B) \o C) = K * L + L + K
      /\ \A n \in 1 .. K * L + L + K :
           ((A \o B) \o C)[n] = IF n <= K * L + L THEN (A \o B)[n] ELSE C[n - (K * L + L)]
  <2> DEFINE AB == A \o B
             n1 == K * L + L
  <2>1. AB \in Seq(Name) /\ Len(AB) = n1
    BY <1>4
  <2> HIDE DEF AB, n1
  <2>2. /\ AB \o C \in Seq(Name) /\ Len(AB \o C) = n1 + K
        /\ \A n \in 1 .. n1 + K : (AB \o C)[n] = IF n <= n1 THEN AB[n] ELSE C[n - n1]
    BY <1>3, <2>1, Joined
  <2> QED BY <2>2 DEF AB, n1
<1>5. Work = (A \o B) \o C
  <2>1. Work = (A \o B) \o C \/ Work = A \o (B \o C)
    BY DEF Work, A, B, C
  <2>2. (A \o B) \o C = A \o (B \o C)
    <3>1. A \in Seq(Name) /\ B \in Seq(Name) /\ C \in Seq(Name)
      BY <1>1, <1>2, <1>3
    <3> QED BY <3>1, ConcatAssociative
  <2> QED BY <2>1, <2>2
<1>6. ASSUME NEW n \in 1 .. K * L PROVE Work[n] = A[n]
  <2>1. n \in 1 .. K * L + L + K /\ n \in 1 .. K * L + L /\ n <= K * L + L /\ n <= K * L
    BY Counts, SMT
  <2> QED BY <1>4, <1>5, <1>8, <2>1
<1>7. ASSUME NEW n \in K * L + 1 .. K * L + L + K
      PROVE  Work[n] = [xof |-> 256, nonce |-> n - 1 - K * L]
  <2>1. n \in Int /\ n \in 1 .. K * L + L + K
    BY Counts, SMT
  <2>2. CASE n <= K * L + L
    <3>1. n \in 1 .. K * L + L /\ ~(n <= K * L) /\ n - K * L \in 1 .. L
          /\ 0 + ((n - K * L) - 1) = n - 1 - K * L
      BY <2>1, <2>2, Counts, SMT
    <3> QED BY <1>2, <1>4, <1>5, <1>8, <2>1, <2>2, <3>1
  <2>3. CASE ~(n <= K * L + L)
    <3>1. n - (K * L + L) \in 1 .. K /\ L + ((n - (K * L + L)) - 1) = n - 1 - K * L
      BY <2>1, <2>3, Counts, SMT
    <3> QED BY <1>3, <1>5, <1>8, <2>1, <2>3, <3>1
  <2> QED BY <2>2, <2>3
<1> QED BY <1>5, <1>6, <1>7, <1>8 DEF A

(* No two polynomials of a key are made from one stream.                   *)
LEMMA WorkDistinct ==
  ASSUME NEW m \in 1 .. Len(Work), NEW n \in 1 .. Len(Work), Work[m] = Work[n]
  PROVE  m = n
<1>0. m \in Int /\ n \in Int
  BY WorkOrder, Counts, SMT
<1>1. ASSUME NEW p \in 1 .. Len(Work), p > K * L
      PROVE  /\ Work[p] = [xof |-> 256, nonce |-> p - 1 - K * L]
             /\ Work[p].xof = 256 /\ Work[p].nonce = p - 1 - K * L
  <2>1. p \in K * L + 1 .. K * L + L + K
    BY <1>1, WorkOrder, Counts, SMT
  <2>2. Work[p] = [xof |-> 256, nonce |-> p - 1 - K * L]
    BY <2>1, WorkOrder
  <2> QED BY <2>2
<1>2. ASSUME NEW p \in 1 .. Len(Work), p <= K * L
      PROVE  /\ Work[p].xof = 128 /\ Work[p].nonce = Row(p) * 256 + Column(p)
             /\ p \in 1 .. K * L
  <2>1. p \in 1 .. K * L
    BY <1>2, WorkOrder, Counts, SMT
  <2>2. Work[p] = [xof |-> 128, nonce |-> Row(p) * 256 + Column(p)]
    BY <2>1, MatrixPart, WorkOrder
  <2> QED BY <2>1, <2>2
<1>3. CASE m <= K * L /\ n <= K * L
  <2>1. m \in 1 .. K * L /\ n \in 1 .. K * L
    BY <1>2, <1>3
  <2>2. Row(m) * 256 + Column(m) = Row(n) * 256 + Column(n)
    BY <1>2, <1>3
  <2>3. /\ Row(m) \in Nat /\ Column(m) \in Nat /\ Column(m) < 256
        /\ Row(n) \in Nat /\ Column(n) \in Nat /\ Column(n) < 256
        /\ m - 1 = Row(m) * L + Column(m) /\ n - 1 = Row(n) * L + Column(n)
    BY <2>1, Places
  <2>4. Row(m) = Row(n) /\ Column(m) = Column(n)
    BY <2>2, <2>3, SMT
  <2>5. m - 1 = n - 1
    BY <2>3, <2>4
  <2> QED BY <1>0, <2>5, SMT
<1>4. CASE m > K * L /\ n > K * L
  <2>1. Work[m].nonce = m - 1 - K * L
    BY <1>1, <1>4
  <2>2. Work[n].nonce = n - 1 - K * L
    BY <1>1, <1>4
  <2>3. m - 1 - K * L = n - 1 - K * L
    BY <2>1, <2>2
  <2> QED BY <1>0, <2>3, Counts, SMT
<1>5. CASE m <= K * L /\ n > K * L
  <2>1. Work[m].xof = 128
    BY <1>2, <1>5
  <2>2. Work[n].xof = 256
    BY <1>1, <1>5
  <2> QED BY <2>1, <2>2
<1>6. CASE m > K * L /\ n <= K * L
  <2>1. Work[m].xof = 256
    BY <1>1, <1>6
  <2>2. Work[n].xof = 128
    BY <1>2, <1>6
  <2> QED BY <2>1, <2>2
<1>7. (m <= K * L \/ m > K * L) /\ (n <= K * L \/ n > K * L)
  BY <1>0, Counts, SMT
<1> QED BY <1>3, <1>4, <1>5, <1>6, <1>7

(* The values a coefficient of the polynomial at work may take.            *)
Values == IF Current.xof = 128 THEN 0 .. Q - 1 ELSE -eta .. eta

(* What is written of the polynomial at work.                              *)
Written ==
  /\ a \in [0 .. N - 1 -> Int] /\ ctr \in 0 .. N
  /\ ctr > 0 => Len(opened) >= 1
  /\ \A n \in 0 .. ctr - 1 : a[n] \in Values

(* The streams opened are the first of Work, in order, one for every       *)
(* finished polynomial and one for the polynomial at work.                 *)
InOrder ==
  /\ pc \in {"open", "reject"}
  /\ opened \in Seq(Name) /\ polys \in Seq([1 .. N -> Int])
  /\ Len(opened) <= Len(Work)
  /\ \A n \in 1 .. Len(opened) : opened[n] = Work[n]
  /\ Len(opened) = Len(polys) + (IF pc = "reject" THEN 1 ELSE 0)

(* The bytes of the streams, and the buffer over them.                     *)
Buffered ==
  /\ eta \in {2, 4} /\ tapes \in [Streams -> [0 .. Period - 1 -> Byte]]
  /\ from \in 0 .. Period - 1 /\ size \in Nat /\ pos \in 0 .. size

(* The inductive invariant.                                                *)
SInv == InOrder /\ Buffered /\ Written

(* A byte of the stream at work.                                           *)
LEMMA BytesRead ==
  ASSUME SInv, pc = "reject", NEW p \in Nat
  PROVE  ByteAt(p) \in Byte /\ Current.xof \in {128, 256} /\ Len(opened) >= 1
<1>1. Len(opened) \in Nat /\ Len(opened) >= 1 /\ Len(opened) <= Len(Work) /\ Len(polys) \in Nat
  BY LenProperties DEF SInv, InOrder
<1>2. Len(opened) \in DOMAIN Work /\ Work \in Seq(Name) /\ Len(Work) \in Nat
  BY <1>1, WorkOrder, LenProperties
<1>3. Current \in Streams /\ Current \in Name
  BY <1>2, ElementOfSeq, LenProperties DEF Current, Streams
<1>4. (from + p) % Period \in 0 .. Period - 1
  BY Counts, SMT DEF SInv, Buffered
<1>5. ByteAt(p) \in Byte
  BY <1>3, <1>4 DEF ByteAt, SInv, Buffered
<1> QED BY <1>1, <1>3, <1>5 DEF Name

(* Writing values that are allowed, as many as there is room for.          *)
LEMMA WriteKeeps ==
  ASSUME NEW V, V \subseteq Int, NEW v \in Seq(V), Write(v), a \in [0 .. N - 1 -> Int],
         ctr \in 0 .. N, ctr + Len(v) <= N, \A n \in 0 .. ctr - 1 : a[n] \in V
  PROVE  /\ a' \in [0 .. N - 1 -> Int] /\ ctr' \in 0 .. N
         /\ \A n \in 0 .. ctr' - 1 : a'[n] \in V
<1>1. Len(v) \in Nat /\ \A n \in 1 .. Len(v) : v[n] \in V
  BY LenProperties, ElementOfSeq
<1>2. ctr' = ctr + Len(v) /\ ctr' \in 0 .. N
  BY <1>1, Counts, SMT DEF Write
<1>3. a' = [n \in 0 .. N - 1 |-> IF n >= ctr /\ n < ctr + Len(v)
                                 THEN v[n - ctr + 1] ELSE a[n]]
  BY DEF Write
<1>4. ASSUME NEW n \in 0 .. N - 1, n >= ctr, n < ctr + Len(v)
      PROVE  a'[n] \in V
  <2>1. n - ctr + 1 \in 1 .. Len(v)
    BY <1>1, <1>4, Counts, SMT
  <2>2. v[n - ctr + 1] \in V
    BY <1>1, <2>1
  <2> QED BY <1>3, <1>4, <2>2
<1>5. ASSUME NEW n \in 0 .. N - 1, ~(n >= ctr /\ n < ctr + Len(v))
      PROVE  a'[n] = a[n]
  BY <1>3, <1>5
<1>6. a' \in [0 .. N - 1 -> Int]
  <2>1. \A n \in 0 .. N - 1 : a'[n] \in Int
    BY <1>4, <1>5
  <2> QED BY <1>3, <2>1
<1>7. ASSUME NEW n \in 0 .. ctr' - 1 PROVE a'[n] \in V
  <2>1. n \in 0 .. N - 1 /\ n < ctr + Len(v) /\ (n >= ctr \/ n \in 0 .. ctr - 1)
        /\ (n \in 0 .. ctr - 1 => ~(n >= ctr))
    BY <1>1, <1>2, Counts, SMT
  <2>2. CASE n >= ctr
    BY <1>4, <2>1, <2>2
  <2>3. CASE n \in 0 .. ctr - 1
    BY <1>5, <2>1, <2>3
  <2> QED BY <2>1, <2>2, <2>3
<1> QED BY <1>2, <1>6, <1>7

(* The candidates of RejUniform are natural numbers.                       *)
LEMMA UniformInNat ==
  ASSUME NEW b0 \in Byte, NEW b1 \in Byte, NEW b2 \in Byte
  PROVE  UniformValue(b0, b1, b2) \in Nat
<1>1. b0 \in Nat /\ b1 \in Nat /\ b2 \in Nat
  BY SMT DEF Byte
<1>2. b0 + 256 * b1 + 65536 * b2 \in Nat
  BY <1>1, SMT
<1>3. \A x \in Nat : x % 8388608 \in Nat
  BY SMT
<1> QED BY <1>2, <1>3 DEF UniformValue

(* An accepted nibble stands for a coefficient in the range of eta.        *)
LEMMA EtaInRange ==
  ASSUME eta \in {2, 4}, NEW t \in Nat, EtaAccepts(t)
  PROVE  EtaValue(t) \in -eta .. eta
<1>1. CASE eta = 2
  <2> DEFINE d == (t * 205) \div 1024
             u == t - d * 4 - d
  <2>1. u \in Int
    BY SMT
  <2> HIDE DEF u
  <2>2. u % 5 \in Int /\ 0 <= u % 5 /\ u % 5 <= 4
    BY <2>1, SMT
  <2>3. 2 - (u % 5) \in -2 .. 2
    BY <2>2, SMT
  <2>4. EtaValue(t) = 2 - (u % 5)
    BY <1>1 DEF EtaValue, u
  <2> QED BY <1>1, <2>3, <2>4
<1>2. CASE eta = 4
  <2>1. t < 9
    BY <1>2 DEF EtaAccepts
  <2>2. 4 - t \in -4 .. 4
    BY <2>1, SMT
  <2> QED BY <1>2, <2>2 DEF EtaValue
<1> QED BY <1>1, <1>2

(* The second nibble is used only when there is room for it.               *)
LEMMA RoomForTwo ==
  ASSUME NEW m \in Nat, m < N, NEW l, l = 0 \/ l = 1,
         NEW h, h = 0 \/ (h = 1 /\ m + l < N)
  PROVE  m + (l + h) <= N
BY Counts, SMT

(* A byte gives at most two coefficients, and at most what there is room   *)
(* for.                                                                    *)
LEMMA EtaValuesFit ==
  ASSUME eta \in {2, 4}, NEW b \in Byte, ctr \in Nat, ctr < N
  PROVE  EtaValues(b) \in Seq(-eta .. eta) /\ ctr + Len(EtaValues(b)) <= N
<1> DEFINE R == -eta .. eta
           low == IF EtaAccepts(b % 16) THEN <<EtaValue(b % 16)>> ELSE <<>>
           high == IF EtaAccepts(b \div 16) /\ ctr + Len(low) < N
                   THEN <<EtaValue(b \div 16)>> ELSE <<>>
<1>1. b % 16 \in Nat /\ b \div 16 \in Nat
  BY SMT DEF Byte
<1>2. low \in Seq(R) /\ (Len(low) = 0 \/ Len(low) = 1)
  <2>1. CASE EtaAccepts(b % 16)
    <3>1. EtaValue(b % 16) \in R
      BY <1>1, <2>1, EtaInRange
    <3>2. low = <<EtaValue(b % 16)>>
      BY <2>1
    <3> HIDE DEF low, R
    <3> QED BY <3>1, <3>2
  <2>2. CASE ~EtaAccepts(b % 16)
    <3>1. low = <<>>
      BY <2>2
    <3> HIDE DEF low, R
    <3> QED BY <3>1, EmptySeq
  <2> QED BY <2>1, <2>2
<1>3. high \in Seq(R) /\ (Len(high) = 0 \/ (Len(high) = 1 /\ ctr + Len(low) < N))
  <2>1. CASE EtaAccepts(b \div 16) /\ ctr + Len(low) < N
    <3>1. EtaValue(b \div 16) \in R
      BY <1>1, <2>1, EtaInRange
    <3>2. high = <<EtaValue(b \div 16)>>
      BY <2>1
    <3> HIDE DEF low, high, R
    <3> QED BY <2>1, <3>1, <3>2
  <2>2. CASE ~(EtaAccepts(b \div 16) /\ ctr + Len(low) < N)
    <3>1. high = <<>>
      BY <2>2
    <3> HIDE DEF low, high, R
    <3> QED BY <3>1, EmptySeq
  <2> QED BY <2>1, <2>2
<1>4. EtaValues(b) = low \o high
  BY DEF EtaValues
<1> HIDE DEF low, high, R
<1>5. low \o high \in Seq(R) /\ Len(low \o high) = Len(low) + Len(high)
  BY <1>2, <1>3, ConcatProperties
<1>6. ctr + (Len(low) + Len(high)) <= N
  BY <1>2, <1>3, RoomForTwo
<1> QED BY <1>4, <1>5, <1>6 DEF R

(* Nothing is opened yet.                                                  *)
LEMMA SamplingStarts ==
  ASSUME Init
  PROVE  SInv
<1>1. /\ opened = <<>> /\ polys = <<>> /\ pc = "open" /\ a = [n \in 0 .. N - 1 |-> 0]
      /\ ctr = 0 /\ from = 0 /\ size = 0 /\ pos = 0 /\ eta \in Etas /\ tapes \in Tapes
  BY DEF Init
<1>2. InOrder
  <2>1. opened \in Seq(Name) /\ polys \in Seq([1 .. N -> Int]) /\ Len(opened) = 0 /\ Len(polys) = 0
    BY <1>1, EmptySeq
  <2>2. Len(Work) \in Nat /\ Len(opened) <= Len(Work) /\ 1 .. Len(opened) = {}
    BY <2>1, WorkOrder, LenProperties, SMT
  <2> QED BY <1>1, <2>1, <2>2 DEF InOrder
<1>3. Buffered
  <2>1. eta \in {2, 4} /\ tapes \in [Streams -> [0 .. Period - 1 -> Byte]]
    BY <1>1, SamplingAssumption, TapesAssumption
  <2>2. 0 \in 0 .. Period - 1 /\ 0 \in Nat /\ 0 \in 0 .. 0
    BY Counts, SMT
  <2> QED BY <1>1, <2>1, <2>2 DEF Buffered
<1>4. Written
  <2>1. 0 \in 0 .. N /\ 0 .. 0 - 1 = {} /\ ~(0 > 0)
    BY Counts, SMT
  <2>2. [n \in 0 .. N - 1 |-> 0] \in [0 .. N - 1 -> Int]
    OBVIOUS
  <2> QED BY <1>1, <2>1, <2>2 DEF Written
<1> QED BY <1>2, <1>3, <1>4 DEF SInv

(* A stream is opened: the next of Work.                                   *)
LEMMA StepOpen ==
  ASSUME SInv, Open
  PROVE  SInv'
<1> DEFINE nm == Work[Len(opened) + 1]
<1>1. /\ pc = "open" /\ Len(opened) < Len(Work) /\ opened' = Append(opened, nm)
      /\ size' = IF nm.xof = 128 THEN UniformBlocks * Block128 ELSE EtaBlocks * Block256
      /\ from' = 0 /\ pos' = 0 /\ ctr' = 0 /\ a' = [n \in 0 .. N - 1 |-> 0]
      /\ pc' = "reject" /\ eta' = eta /\ tapes' = tapes /\ polys' = polys
  BY DEF Open
<1>2. /\ opened \in Seq(Name) /\ polys \in Seq([1 .. N -> Int]) /\ Len(opened) = Len(polys)
      /\ Len(opened) \in Nat /\ Len(polys) \in Nat
      /\ \A n \in 1 .. Len(opened) : opened[n] = Work[n]
  <2>1. opened \in Seq(Name) /\ polys \in Seq([1 .. N -> Int])
        /\ \A n \in 1 .. Len(opened) : opened[n] = Work[n]
    BY DEF SInv, InOrder
  <2>2. Len(opened) \in Nat /\ Len(polys) \in Nat
    BY <2>1, LenProperties
  <2>3. Len(opened) = Len(polys) + 0
    BY <1>1 DEF SInv, InOrder
  <2> QED BY <2>1, <2>2, <2>3, SMT
<1>3. Len(Work) \in Nat /\ Len(opened) + 1 \in 1 .. Len(Work) /\ nm \in Name
  <2>1. Len(Work) \in Nat
    BY WorkOrder, LenProperties
  <2>2. Len(opened) + 1 \in 1 .. Len(Work)
    BY <1>1, <1>2, <2>1, SMT
  <2> QED BY <2>1, <2>2, WorkOrder, ElementOfSeq
<1> HIDE DEF nm
<1>4. /\ opened' \in Seq(Name) /\ Len(opened') = Len(opened) + 1
      /\ \A n \in 1 .. Len(opened) : opened'[n] = opened[n]
      /\ opened'[Len(opened) + 1] = nm
  BY <1>1, <1>2, <1>3, AppendProperties
<1>5. \A n \in 1 .. Len(opened') : opened'[n] = Work[n]
  <2> SUFFICES ASSUME NEW n \in 1 .. Len(opened) + 1 PROVE opened'[n] = Work[n]
    BY <1>4
  <2>1. n \in 1 .. Len(opened) \/ n = Len(opened) + 1
    BY <1>2, SMT
  <2>2. CASE n \in 1 .. Len(opened)
    BY <1>2, <1>4, <2>2
  <2>3. CASE n = Len(opened) + 1
    BY <1>4, <2>3 DEF nm
  <2> QED BY <2>1, <2>2, <2>3
<1>6. InOrder'
  <2>1. Len(opened') <= Len(Work) /\ Len(opened') = Len(polys') + 1
    BY <1>1, <1>2, <1>3, <1>4, SMT
  <2> QED BY <1>1, <1>2, <1>4, <1>5, <2>1 DEF InOrder
<1>7. Buffered'
  <2>1. 0 \in 0 .. Period - 1
    BY Counts, SMT
  <2>2. UniformBlocks * Block128 \in Nat /\ EtaBlocks * Block256 \in Nat
    <3>1. UniformBlocks \in Nat /\ Block128 \in Nat /\ EtaBlocks \in Nat /\ Block256 \in Nat
      BY SamplingAssumption DEF EtaBlocks
    <3> QED BY <3>1, SMT
  <2>3. size' \in Nat
    BY <1>1, <2>2
  <2>4. pos' \in 0 .. size'
    BY <1>1, <2>3, SMT
  <2> QED BY <1>1, <2>1, <2>3, <2>4 DEF SInv, Buffered
<1>8. Written'
  <2>1. 0 \in 0 .. N /\ 0 .. 0 - 1 = {} /\ ~(0 > 0)
    BY Counts, SMT
  <2>2. [n \in 0 .. N - 1 |-> 0] \in [0 .. N - 1 -> Int]
    OBVIOUS
  <2> QED BY <1>1, <2>1, <2>2 DEF Written
<1> QED BY <1>6, <1>7, <1>8 DEF SInv

(* A round of a rejection loop: it writes allowed values, for which there  *)
(* is room, and goes on in the buffer.                                     *)
LEMMA StepRound ==
  ASSUME SInv, pc = "reject", NEW v \in Seq(Values), Write(v), ctr + Len(v) <= N,
         NEW bytes \in Nat, Read(bytes), pos + bytes <= size
  PROVE  SInv'
<1>1. /\ pos' = pos + bytes /\ eta' = eta /\ tapes' = tapes /\ opened' = opened
      /\ polys' = polys /\ pc' = pc /\ from' = from /\ size' = size
  BY DEF Read
<1>2. InOrder'
  BY <1>1 DEF SInv, InOrder
<1>3. Buffered'
  <2>1. pos + bytes \in 0 .. size
    BY SMT DEF SInv, Buffered
  <2> QED BY <1>1, <2>1 DEF SInv, Buffered
<1>4. Values \subseteq Int /\ Values' = Values
  <2>1. 0 .. Q - 1 \subseteq Int /\ -eta .. eta \subseteq Int
    BY SMT
  <2> QED BY <1>1, <2>1 DEF Values, Current
<1>5. /\ a' \in [0 .. N - 1 -> Int] /\ ctr' \in 0 .. N
      /\ \A n \in 0 .. ctr' - 1 : a'[n] \in Values
  <2>1. /\ a \in [0 .. N - 1 -> Int] /\ ctr \in 0 .. N
        /\ \A n \in 0 .. ctr - 1 : a[n] \in Values
    BY DEF SInv, Written
  <2> QED BY <1>4, <2>1, WriteKeeps
<1>6. Len(opened) >= 1
  BY BytesRead
<1> QED BY <1>1, <1>2, <1>3, <1>4, <1>5, <1>6 DEF SInv, Written

(* A round of RejUniform.                                                  *)
LEMMA StepUniform ==
  ASSUME SInv, RejUniform
  PROVE  SInv'
<1> DEFINE t == UniformValue(ByteAt(pos), ByteAt(pos + 1), ByteAt(pos + 2))
           v == IF t < Q THEN <<t>> ELSE <<>>
<1>1. /\ pc = "reject" /\ Current.xof = 128 /\ ctr < N /\ pos + 3 <= size /\ Write(v)
      /\ Read(3)
  BY DEF RejUniform, RejUniformGoesOn
<1>2. t \in Nat
  <2>1. pos \in Nat /\ pos + 1 \in Nat /\ pos + 2 \in Nat
    BY SMT DEF SInv, Buffered
  <2> QED BY <1>1, <2>1, BytesRead, UniformInNat
<1>3. Values = 0 .. Q - 1
  BY <1>1 DEF Values
<1>4. v \in Seq(Values) /\ (Len(v) = 0 \/ Len(v) = 1)
  <2>1. CASE t < Q
    <3>1. t \in 0 .. Q - 1
      BY <1>2, <2>1, Counts, SMT
    <3>2. v = <<t>> /\ t \in Values
      BY <1>3, <2>1, <3>1
    <3> HIDE DEF v, t
    <3> QED BY <3>2
  <2>2. CASE ~(t < Q)
    <3>1. v = <<>>
      BY <2>2
    <3> HIDE DEF v, t
    <3> QED BY <3>1, EmptySeq
  <2> QED BY <2>1, <2>2
<1> HIDE DEF v, t
<1>5. ctr + Len(v) <= N
  <2>1. ctr \in Nat
    BY Counts, SMT DEF SInv, Written
  <2>2. ctr + 0 <= N /\ ctr + 1 <= N
    BY <1>1, <2>1, Counts, SMT
  <2> QED BY <1>4, <2>2
<1> QED BY <1>1, <1>4, <1>5, StepRound

(* A round of RejEta.                                                      *)
LEMMA StepEta ==
  ASSUME SInv, RejEta
  PROVE  SInv'
<1> DEFINE v == EtaValues(ByteAt(pos))
<1>1. /\ pc = "reject" /\ Current.xof = 256 /\ ctr < N /\ pos < size /\ Write(v) /\ Read(1)
  BY DEF RejEta, RejEtaGoesOn
<1>2. pos \in Nat /\ pos + 1 <= size /\ ctr \in Nat /\ eta \in {2, 4}
  <2>1. pos \in Nat /\ pos + 1 <= size
    BY <1>1, SMT DEF SInv, Buffered
  <2>2. ctr \in Nat
    BY Counts, SMT DEF SInv, Written
  <2> QED BY <2>1, <2>2 DEF SInv, Buffered
<1>3. Values = -eta .. eta
  BY <1>1 DEF Values
<1>4. v \in Seq(Values) /\ ctr + Len(v) <= N
  BY <1>1, <1>2, <1>3, BytesRead, EtaValuesFit
<1> HIDE DEF v
<1> QED BY <1>1, <1>2, <1>4, StepRound

(* Another block, or the next polynomial: nothing is written.              *)
LEMMA StepSqueeze ==
  ASSUME SInv, Squeeze
  PROVE  SInv'
<1>1. /\ (size' = Block128 \/ size' = Block256) /\ from' = (from + size) % Period
      /\ pos' = 0 /\ eta' = eta /\ tapes' = tapes /\ opened' = opened /\ polys' = polys
      /\ pc' = pc /\ a' = a /\ ctr' = ctr
  BY DEF Squeeze
<1>2. size' \in Nat /\ 0 \in 0 .. size'
  <2>1. Block128 \in Nat /\ Block256 \in Nat
    BY SamplingAssumption
  <2>2. size' \in Nat
    BY <1>1, <2>1
  <2> QED BY <2>2, SMT
<1>3. (from + size) % Period \in 0 .. Period - 1
  BY Counts, SMT DEF SInv, Buffered
<1>4. InOrder' /\ Buffered'
  BY <1>1, <1>2, <1>3 DEF SInv, InOrder, Buffered
<1>5. Written'
  BY <1>1 DEF SInv, Written, Values, Current
<1> QED BY <1>4, <1>5 DEF SInv

(* A polynomial filled, and the next one begun.                            *)
LEMMA StepFilled ==
  ASSUME SInv, Filled
  PROVE  SInv'
<1> DEFINE p == [n \in 1 .. N |-> a[n - 1]]
<1>1. /\ pc = "reject" /\ polys' = Append(polys, p) /\ pc' = "open" /\ eta' = eta
      /\ tapes' = tapes /\ opened' = opened /\ a' = a /\ ctr' = ctr /\ from' = from
      /\ size' = size /\ pos' = pos
  BY DEF Filled
<1>2. p \in [1 .. N -> Int]
  <2> SUFFICES ASSUME NEW n \in 1 .. N PROVE a[n - 1] \in Int
    OBVIOUS
  <2>1. n - 1 \in 0 .. N - 1
    BY Counts, SMT
  <2> QED BY <2>1 DEF SInv, Written
<1> HIDE DEF p
<1>3. polys' \in Seq([1 .. N -> Int]) /\ Len(polys') = Len(polys) + 1
  <2>1. polys \in Seq([1 .. N -> Int])
    BY DEF SInv, InOrder
  <2> QED BY <1>1, <1>2, <2>1, AppendProperties
<1>4. InOrder'
  <2>1. Len(opened) = Len(polys) + 1 /\ Len(polys) \in Nat
    BY <1>1, LenProperties DEF SInv, InOrder
  <2>2. Len(opened') = Len(polys') + 0
    BY <1>1, <1>3, <2>1, SMT
  <2> QED BY <1>1, <1>3, <2>2 DEF SInv, InOrder
<1>5. Buffered' /\ Written'
  BY <1>1 DEF SInv, Buffered, Written, Values, Current
<1> QED BY <1>4, <1>5 DEF SInv

(* Every step of the loops keeps the invariant.                            *)
LEMMA SamplingKeeps == SInv /\ [Next]_vars => SInv'
<1>1. ASSUME SInv, UNCHANGED vars PROVE SInv'
  BY <1>1 DEF SInv, InOrder, Buffered, Written, Values, Current, vars
<1> QED BY <1>1, StepOpen, StepUniform, StepEta, StepSqueeze, StepFilled DEF Next

(* What the invariant says of the loops and of the streams.                *)
LEMMA SamplingGives == SInv => TypeOK /\ StreamsDistinct
<1> SUFFICES ASSUME SInv PROVE TypeOK /\ StreamsDistinct
  OBVIOUS
<1>1. Len(polys) \in Nat /\ Len(opened) \in Nat /\ Len(Work) \in Nat
  BY WorkOrder, LenProperties DEF SInv, InOrder
<1>2. Len(polys) <= Len(opened)
  BY <1>1, SMT DEF SInv, InOrder
<1>3. TypeOK
  BY <1>2 DEF TypeOK, SInv, InOrder, Buffered, Written, Values
<1>4. ASSUME NEW m \in 1 .. Len(opened), NEW n \in 1 .. Len(opened), opened[m] = opened[n]
      PROVE  m = n
  <2>1. m \in 1 .. Len(Work) /\ n \in 1 .. Len(Work)
    <3>1. Len(opened) <= Len(Work)
      BY DEF SInv, InOrder
    <3> QED BY <1>1, <3>1, SMT
  <2>2. Work[m] = Work[n]
    BY <1>4 DEF SInv, InOrder
  <2> QED BY <2>1, <2>2, WorkDistinct
<1> QED BY <1>3, <1>4 DEF StreamsDistinct

(* With or without a call of PolyChallenge in its place.                   *)
LEMMA SamplersKeep ==
  /\ SamplersInit => SInv
  /\ SInv /\ [SamplersNext]_all => SInv'
<1>1. SamplersInit => SInv
  BY SamplingStarts DEF SamplersInit
<1>2. SInv /\ [SamplersNext]_all => [Next]_vars
  BY DEF SamplersNext, all
<1> QED BY <1>1, <1>2, SamplingKeeps

(* The rejection loops of Keypair stay inside polynomial and buffer and    *)
(* write coefficients in range, whatever bytes the streams hold.           *)
THEOREM LoopsInBounds == SamplersSpec => []TypeOK
<1>1. SInv => TypeOK
  BY SamplingGives
<1> QED BY <1>1, SamplersKeep, PTL DEF SamplersSpec

(* No two polynomials of a key come from one stream, for every size of     *)
(* matrix: the nonces of the matrix, s1 and s2 never meet.                 *)
THEOREM OneStreamEach == SamplersSpec => []StreamsDistinct
<1>1. SInv => StreamsDistinct
  BY SamplingGives
<1> QED BY <1>1, SamplersKeep, PTL DEF SamplersSpec

-----------------------------------------------------------------------------
(* What the loops make.                                                    *)

(* Induction, over the set of the naturals that have the property.         *)
LEMMA Induction ==
  ASSUME NEW S, S \subseteq Nat, 0 \in S, \A n \in S : n + 1 \in S
  PROVE  S = Nat
<1> SUFFICES ASSUME Nat \ S # {} PROVE FALSE
  OBVIOUS
<1>1. PICK n \in Nat \ S : \A m \in Nat \ S : ~(<<m, n>> \in OpToRel(<, Nat))
  <2> DEFINE T == Nat \ S
  <2>1. T \subseteq Nat /\ T # {}
    OBVIOUS
  <2> HIDE DEF T
  <2>2. \E n \in T : \A m \in T : ~(<<m, n>> \in OpToRel(<, Nat))
    BY <2>1, WFMin, NatLessThanWellFounded
  <2> QED BY <2>2 DEF T
<1>2. \A m \in Nat \ S : ~(m < n)
  BY <1>1 DEF OpToRel
<1>3. n # 0 /\ n - 1 \in Nat
  BY SMT
<1>4. n - 1 \in S
  <2>1. n - 1 < n
    BY SMT
  <2> QED BY <1>2, <1>3, <2>1
<1>5. (n - 1) + 1 = n
  BY SMT
<1> QED BY <1>4, <1>5

-----------------------------------------------------------------------------
(* A cycle of candidates: each stands for one coefficient or for none.     *)
Cycle(s) ==
  /\ s \in Seq(Seq(Int)) /\ Len(s) \in Nat /\ Len(s) >= 1
  /\ \A e \in 1 .. Len(s) : s[e] = <<>> \/ Len(s[e]) = 1

(* Candidate x of the stream that repeats it.                              *)
Turn(s, x) == s[((x - 1) % Len(s)) + 1]

(* f[x] is what the first x candidates give, for every x up to n.          *)
Collects(s, f, n) ==
  /\ f \in [0 .. n -> Seq(Int)] /\ f[0] = <<>>
  /\ \A x \in 1 .. n : f[x] = f[x - 1] \o Turn(s, x)

(* p begins q.                                                             *)
Begins(p, q) == Len(p) <= Len(q) /\ \A m \in 1 .. Len(p) : p[m] = q[m]

(* A candidate is at most one coefficient.                                 *)
LEMMA TurnFits ==
  ASSUME NEW s, Cycle(s), NEW x \in Nat, x >= 1
  PROVE  /\ Turn(s, x) \in Seq(Int) /\ (Turn(s, x) = <<>> \/ Len(Turn(s, x)) = 1)
         /\ Len(Turn(s, x)) \in Nat
<1>1. ((x - 1) % Len(s)) + 1 \in 1 .. Len(s)
  BY SMT DEF Cycle
<1>2. Turn(s, x) \in Seq(Int)
  BY <1>1, ElementOfSeq DEF Cycle, Turn
<1> QED BY <1>1, <1>2, LenProperties DEF Cycle, Turn

(* One more candidate.                                                     *)
LEMMA CollectsOneMore ==
  ASSUME NEW s, Cycle(s), NEW n \in Nat, NEW f, Collects(s, f, n)
  PROVE  \E g : Collects(s, g, n + 1) /\ g[n + 1] = f[n] \o Turn(s, n + 1)
<1> DEFINE t == Turn(s, n + 1)
           g == [x \in 0 .. n + 1 |-> IF x = n + 1 THEN f[n] \o t ELSE f[x]]
<1>1. t \in Seq(Int)
  <2>1. n + 1 \in Nat /\ n + 1 >= 1
    BY SMT
  <2> QED BY <2>1, TurnFits
<1>2. \A x \in 0 .. n : f[x] \in Seq(Int)
  BY DEF Collects
<1>3. /\ n \in 0 .. n /\ n + 1 \in 0 .. n + 1 /\ ~(n + 1 \in 0 .. n) /\ 0 \in 0 .. n
      /\ \A x \in 0 .. n + 1 : x = n + 1 \/ x \in 0 .. n
      /\ \A x \in 0 .. n : x \in 0 .. n + 1 /\ x # n + 1
      /\ \A x \in 1 .. n + 1 : \/ x = n + 1 /\ x - 1 = n
                               \/ x \in 1 .. n /\ x - 1 \in 0 .. n /\ x \in 0 .. n
  BY SMT
<1> HIDE DEF t
<1>4. f[n] \o t \in Seq(Int)
  BY <1>1, <1>2, <1>3, ConcatProperties
<1>5. g \in [0 .. n + 1 -> Seq(Int)]
  BY <1>2, <1>3, <1>4
<1>6. g[n + 1] = f[n] \o t /\ \A x \in 0 .. n : g[x] = f[x]
  BY <1>3
<1> HIDE DEF g
<1>7. ASSUME NEW x \in 1 .. n + 1 PROVE g[x] = g[x - 1] \o Turn(s, x)
  <2>1. CASE x = n + 1 /\ x - 1 = n
    BY <1>3, <1>6, <2>1 DEF t
  <2>2. CASE x \in 1 .. n /\ x - 1 \in 0 .. n /\ x \in 0 .. n
    BY <1>6, <2>2 DEF Collects
  <2> QED BY <1>3, <2>1, <2>2
<1>8. g[0] = <<>>
  BY <1>3, <1>6 DEF Collects
<1>9. Collects(s, g, n + 1)
  BY <1>5, <1>7, <1>8 DEF Collects
<1> QED BY <1>6, <1>9 DEF t

(* The stream goes on for ever.                                            *)
LEMMA CollectsAny ==
  ASSUME NEW s, Cycle(s), NEW n \in Nat
  PROVE  \E f : Collects(s, f, n)
<1> DEFINE S == {m \in Nat : \E f : Collects(s, f, m)}
<1>1. 0 \in S
  <2>1. [x \in 0 .. 0 |-> <<>>] \in [0 .. 0 -> Seq(Int)]
    BY EmptySeq
  <2>2. 0 \in 0 .. 0 /\ 1 .. 0 = {}
    BY SMT
  <2>3. Collects(s, [x \in 0 .. 0 |-> <<>>], 0)
    BY <2>1, <2>2 DEF Collects
  <2> QED BY <2>3
<1>2. ASSUME NEW m \in S PROVE m + 1 \in S
  <2>1. m \in Nat /\ m + 1 \in Nat
    BY SMT
  <2>2. PICK f : Collects(s, f, m)
    OBVIOUS
  <2> QED BY <2>1, <2>2, CollectsOneMore
<1>3. S = Nat
  <2>1. S \subseteq Nat
    OBVIOUS
  <2> HIDE DEF S
  <2> QED BY <1>1, <1>2, <2>1, Induction
<1> QED BY <1>3

(* What was collected stays.                                               *)
LEMMA CollectsGrows ==
  ASSUME NEW s, Cycle(s), NEW n \in Nat, NEW f, Collects(s, f, n),
         NEW x \in 0 .. n, NEW j \in 0 .. n, x <= j
  PROVE  Begins(f[x], f[j])
<1> DEFINE S == {d \in Nat : x + d <= n => Begins(f[x], f[x + d])}
<1>0. x \in Nat /\ j \in Nat /\ x + 0 = x /\ j - x \in Nat /\ x + (j - x) = j /\ j <= n
  BY SMT
<1>1. \A k \in 0 .. n : f[k] \in Seq(Int) /\ Len(f[k]) \in Nat
  BY LenProperties DEF Collects
<1>2. 0 \in S
  <2>1. Len(f[x]) <= Len(f[x])
    BY <1>1, SMT
  <2>2. Begins(f[x], f[x])
    BY <2>1 DEF Begins
  <2> QED BY <1>0, <2>2
<1>3. ASSUME NEW d \in S PROVE d + 1 \in S
  <2> SUFFICES ASSUME x + (d + 1) <= n PROVE Begins(f[x], f[x + (d + 1)])
    BY SMT
  <2> DEFINE k == x + d
             k1 == x + (d + 1)
  <2>1. k \in 0 .. n /\ k1 \in 1 .. n /\ k1 - 1 = k /\ k1 \in Nat /\ k1 >= 1 /\ x + d <= n
    BY <1>0, SMT
  <2>2. Begins(f[x], f[k])
    BY <2>1
  <2> HIDE DEF k, k1
  <2>3. f[k1] = f[k] \o Turn(s, k1)
    BY <2>1 DEF Collects
  <2>4. Turn(s, k1) \in Seq(Int) /\ Len(Turn(s, k1)) \in Nat
    BY <2>1, TurnFits
  <2>5. f[x] \in Seq(Int) /\ Len(f[x]) \in Nat /\ f[k] \in Seq(Int) /\ Len(f[k]) \in Nat
    BY <1>1, <2>1
  <2>6. /\ Len(f[k1]) = Len(f[k]) + Len(Turn(s, k1))
        /\ \A m \in 1 .. Len(f[k]) : f[k1][m] = f[k][m]
    <3> DEFINE p == f[k]
               q == Turn(s, k1)
    <3>1. p \in Seq(Int) /\ q \in Seq(Int) /\ Len(p) \in Nat /\ Len(q) \in Nat
      BY <2>4, <2>5
    <3> HIDE DEF p, q
    <3>2. Len(p \o q) = Len(p) + Len(q)
          /\ \A m \in 1 .. Len(p) + Len(q) :
               (p \o q)[m] = IF m <= Len(p) THEN p[m] ELSE q[m - Len(p)]
      BY <3>1, ConcatProperties
    <3>3. \A m \in 1 .. Len(p) : m \in 1 .. Len(p) + Len(q) /\ m <= Len(p)
      BY <3>1, SMT
    <3>4. \A m \in 1 .. Len(p) : (p \o q)[m] = p[m]
      BY <3>2, <3>3
    <3> QED BY <2>3, <3>2, <3>4 DEF p, q
  <2>7. Len(f[x]) <= Len(f[k]) /\ \A m \in 1 .. Len(f[x]) : f[x][m] = f[k][m]
    BY <2>2 DEF Begins
  <2>8. Len(f[x]) <= Len(f[k1]) /\ \A m \in 1 .. Len(f[x]) : m \in 1 .. Len(f[k])
    BY <2>4, <2>5, <2>6, <2>7, SMT
  <2>9. Begins(f[x], f[k1])
    BY <2>6, <2>7, <2>8 DEF Begins
  <2> QED BY <2>9 DEF k1
<1>4. S = Nat
  <2>1. S \subseteq Nat
    OBVIOUS
  <2> HIDE DEF S
  <2> QED BY <1>2, <1>3, <2>1, Induction
<1>5. j - x \in S
  BY <1>0, <1>4
<1> QED BY <1>0, <1>5

(* It does not depend on how far one looks.                                *)
LEMMA CollectsSame ==
  ASSUME NEW s, NEW n \in Nat, NEW f, Collects(s, f, n),
         NEW m \in Nat, NEW g, Collects(s, g, m), NEW k \in Nat, k <= n, k <= m
  PROVE  f[k] = g[k]
<1> DEFINE S == {x \in Nat : x <= n /\ x <= m => f[x] = g[x]}
<1>1. 0 \in S
  BY DEF Collects
<1>2. ASSUME NEW x \in S PROVE x + 1 \in S
  <2> SUFFICES ASSUME x + 1 <= n, x + 1 <= m PROVE f[x + 1] = g[x + 1]
    OBVIOUS
  <2>1. /\ x <= n /\ x <= m /\ x + 1 \in 1 .. n /\ x + 1 \in 1 .. m /\ (x + 1) - 1 = x
    BY SMT
  <2>2. f[x] = g[x]
    BY <2>1
  <2>3. f[x + 1] = f[x] \o Turn(s, x + 1)
    BY <2>1 DEF Collects
  <2>4. g[x + 1] = g[x] \o Turn(s, x + 1)
    BY <2>1 DEF Collects
  <2> QED BY <2>2, <2>3, <2>4
<1>3. S = Nat
  <2>1. S \subseteq Nat
    OBVIOUS
  <2> HIDE DEF S
  <2> QED BY <1>1, <1>2, <2>1, Induction
<1> QED BY <1>3

(* A remainder is what is left over a multiple.                            *)
LEMMA Leftover ==
  ASSUME NEW x \in Int, NEW n \in Nat, n > 0, NEW q \in Int, NEW r \in Int,
         x = n * q + r, 0 <= r, r < n
  PROVE  x % n = r
<1> DEFINE t == x \div n
           u == x % n
<1>1. t \in Int /\ u \in Int /\ x = n * t + u /\ 0 <= u /\ u < n
  BY SMT
<1> HIDE DEF t, u
<1>2. n * (t - q) = r - u
  BY <1>1, SMT
<1>3. ~(t - q >= 1)
  <2> SUFFICES ASSUME t - q >= 1 PROVE FALSE
    OBVIOUS
  <2>1. n * (t - q) >= n
    BY <1>1, SMT
  <2> QED BY <1>1, <1>2, <2>1, SMT
<1>4. ~(t - q <= -1)
  <2> SUFFICES ASSUME t - q <= -1 PROVE FALSE
    OBVIOUS
  <2>1. n * (t - q) <= -n
    BY <1>1, SMT
  <2> QED BY <1>1, <1>2, <2>1, SMT
<1>5. t = q
  BY <1>1, <1>3, <1>4, SMT
<1> QED BY <1>1, <1>2, <1>5, SMT DEF u

(* A cycle with a useful candidate gives at least one coefficient a turn.  *)
LEMMA OneATurn ==
  ASSUME NEW s, Cycle(s), NEW e \in 1 .. Len(s), s[e] # <<>>,
         NEW n \in Nat, NEW f, Collects(s, f, n), NEW m \in Nat, m * Len(s) <= n
  PROVE  Len(f[m * Len(s)]) >= m
<1> DEFINE M == Len(s)
           S == {d \in Nat : d * M <= n => Len(f[d * M]) >= d}
<1>0. M \in Nat /\ M >= 1 /\ e \in Nat /\ 1 <= e /\ e <= M
  BY SMT DEF Cycle
<1>1. \A x \in 0 .. n : f[x] \in Seq(Int) /\ Len(f[x]) \in Nat
  BY LenProperties DEF Collects
<1> HIDE DEF M
<1>2. 0 \in S
  <2>1. 0 * M = 0 /\ 0 \in 0 .. n
    BY <1>0, SMT
  <2>2. Len(f[0]) >= 0
    BY <1>1, <2>1, SMT
  <2> QED BY <2>1, <2>2
<1>3. ASSUME NEW d \in S PROVE d + 1 \in S
  <2> SUFFICES ASSUME (d + 1) * M <= n PROVE Len(f[(d + 1) * M]) >= d + 1
    BY SMT
  <2> DEFINE k0 == d * M
             k1 == d * M + (e - 1)
             k2 == d * M + e
             k3 == (d + 1) * M
  <2>1. d * M \in Nat /\ (d + 1) * M = d * M + M /\ d \in Nat
    BY <1>0, SMT
  <2>2. /\ k0 \in 0 .. n /\ k1 \in 0 .. n /\ k2 \in 1 .. n /\ k2 \in 0 .. n /\ k3 \in 0 .. n
        /\ k0 <= k1 /\ k2 <= k3 /\ k2 - 1 = k1 /\ k2 \in Nat /\ k2 >= 1 /\ k0 <= n
        /\ k1 \in Int /\ k1 = M * d + (e - 1) /\ 0 <= e - 1 /\ e - 1 < M
    BY <1>0, <2>1, SMT
  <2>3. Len(f[k0]) >= d
    BY <2>2
  <2> HIDE DEF k0, k1, k2, k3
  <2>4. k1 % M = e - 1
    <3>1. M > 0 /\ d \in Int /\ e - 1 \in Int
      BY <1>0, SMT
    <3> QED BY <1>0, <2>1, <2>2, <3>1, Leftover
  <2>5. Turn(s, k2) = s[e]
    <3>1. (k2 - 1) % Len(s) = e - 1 /\ (e - 1) + 1 = e
      BY <1>0, <2>2, <2>4, SMT DEF M
    <3> QED BY <3>1 DEF Turn
  <2>6. Len(Turn(s, k2)) = 1 /\ Turn(s, k2) \in Seq(Int)
    BY <2>2, <2>5, TurnFits
  <2>7. f[k2] = f[k1] \o Turn(s, k2)
    BY <2>2 DEF Collects
  <2>8. Len(f[k2]) = Len(f[k1]) + 1
    <3> DEFINE u == f[k1]
               v == Turn(s, k2)
    <3>1. u \in Seq(Int) /\ v \in Seq(Int) /\ Len(v) = 1
      BY <1>1, <2>2, <2>6
    <3> HIDE DEF u, v
    <3>2. Len(u \o v) = Len(u) + Len(v)
      BY <3>1, ConcatProperties
    <3> QED BY <2>7, <3>1, <3>2 DEF u, v
  <2>9. Len(f[k0]) <= Len(f[k1]) /\ Len(f[k2]) <= Len(f[k3])
    <3>1. Begins(f[k0], f[k1])
      BY <2>2, CollectsGrows
    <3>2. Begins(f[k2], f[k3])
      BY <2>2, CollectsGrows
    <3> QED BY <3>1, <3>2 DEF Begins
  <2>10. Len(f[k0]) \in Nat /\ Len(f[k1]) \in Nat /\ Len(f[k2]) \in Nat /\ Len(f[k3]) \in Nat
    BY <1>1, <2>2
  <2>11. Len(f[k3]) >= d + 1
    BY <2>1, <2>3, <2>8, <2>9, <2>10, SMT
  <2> QED BY <2>11 DEF k3
<1>4. S = Nat
  <2>1. S \subseteq Nat
    OBVIOUS
  <2> HIDE DEF S
  <2> QED BY <1>2, <1>3, <2>1, Induction
<1> QED BY <1>4 DEF M

(* A cycle without one gives none.                                         *)
LEMMA NoneAtAll ==
  ASSUME NEW s, Cycle(s), \A e \in 1 .. Len(s) : s[e] = <<>>,
         NEW n \in Nat, NEW f, Collects(s, f, n)
  PROVE  f[n] = <<>>
<1> DEFINE S == {d \in Nat : d <= n => f[d] = <<>>}
<1>1. 0 \in S
  BY DEF Collects
<1>2. ASSUME NEW d \in S PROVE d + 1 \in S
  <2> SUFFICES ASSUME d + 1 <= n PROVE f[d + 1] = <<>>
    BY SMT
  <2>1. d + 1 \in 1 .. n /\ (d + 1) - 1 = d /\ d <= n /\ (d + 1) - 1 \in Int
    BY SMT
  <2>2. (((d + 1) - 1) % Len(s)) + 1 \in 1 .. Len(s)
    BY <2>1, SMT DEF Cycle
  <2>3. Turn(s, d + 1) = <<>>
    BY <2>2 DEF Turn
  <2>4. f[d + 1] = f[d] \o Turn(s, d + 1)
    BY <2>1 DEF Collects
  <2>5. f[d] = <<>>
    BY <2>1
  <2>6. <<>> \o <<>> = <<>>
    <3>1. <<>> \in Seq(Int)
      BY EmptySeq
    <3> QED BY <3>1, ConcatEmptySeq
  <2> QED BY <2>3, <2>4, <2>5, <2>6
<1>3. S = Nat
  <2>1. S \subseteq Nat
    OBVIOUS
  <2> HIDE DEF S
  <2> QED BY <1>1, <1>2, <2>1, Induction
<1> QED BY <1>3

(* h is what FlattenSeq computes on the beginnings of q.                   *)
IsFlat(h, q) ==
  h = [x \in 1 .. Len(q) |-> IF x = 1 THEN q[x] ELSE h[x - 1] \o q[x]]

(* FlattenSeq has its result from such a function.                         *)
LEMMA FlatIsChosen ==
  ASSUME NEW q, Len(q) # 0
  PROVE  Promise!FlattenSeq(q) = (CHOOSE h : IsFlat(h, q))[Len(q)]
BY DEF Promise!FlattenSeq, IsFlat

(* It is what is collected.                                                *)
LEMMA Flattened ==
  ASSUME NEW s, Cycle(s), NEW n \in Nat, n >= 1, NEW f, Collects(s, f, n)
  PROVE  Promise!FlattenSeq([x \in 1 .. n |-> Turn(s, x)]) = f[n]
<1> DEFINE q == [x \in 1 .. n |-> Turn(s, x)]
           g == [x \in 1 .. n |-> f[x]]
           h == CHOOSE hh : IsFlat(hh, q)
<1>1. \A x \in 1 .. n : q[x] \in Seq(Int) /\ x \in Nat /\ x >= 1 /\ q[x] = Turn(s, x)
  <2>1. \A x \in 1 .. n : x \in Nat /\ x >= 1
    BY SMT
  <2> QED BY <2>1, TurnFits
<1>2. q \in Seq(Seq(Int)) /\ Len(q) = n
  <2>1. q \in [1 .. n -> Seq(Int)]
    BY <1>1
  <2>2. DOMAIN q = 1 .. n
    OBVIOUS
  <2> HIDE DEF q
  <2>3. q \in Seq(Seq(Int))
    BY <2>1, SeqDef
  <2>4. Len(q) \in Nat /\ DOMAIN q = 1 .. Len(q)
    BY <2>3, LenProperties
  <2> QED BY <2>2, <2>3, <2>4, SMT
<1>3. /\ \A x \in 0 .. n : f[x] \in Seq(Int)
      /\ f[0] = <<>>
      /\ \A x \in 1 .. n : f[x] = f[x - 1] \o Turn(s, x)
  BY DEF Collects
<1>4. IsFlat(g, q)
  <2>1. ASSUME NEW x \in 1 .. n
        PROVE  f[x] = IF x = 1 THEN q[x] ELSE g[x - 1] \o q[x]
    <3>1. CASE x = 1
      <4>0. x - 1 = 0
        BY <3>1
      <4>1. f[x] = f[x - 1] \o Turn(s, x)
        BY <1>3
      <4>2. f[x] = <<>> \o q[x]
        BY <1>1, <1>3, <4>0, <4>1
      <4> QED BY <1>1, <3>1, <4>2, ConcatEmptySeq
    <3>2. CASE x # 1
      <4>1. x - 1 \in 1 .. n
        BY <3>2, SMT
      <4> QED BY <1>1, <1>3, <3>2, <4>1
    <3> QED BY <3>1, <3>2
  <2>2. g = [x \in 1 .. n |-> IF x = 1 THEN q[x] ELSE g[x - 1] \o q[x]]
    BY <2>1
  <2> HIDE DEF g, q
  <2> QED BY <1>2, <2>2 DEF IsFlat
<1>5. IsFlat(h, q)
  <2> HIDE DEF g, q
  <2> QED BY <1>4
<1> HIDE DEF h
<1>6. \A x \in 1 .. n : h[x] = IF x = 1 THEN q[x] ELSE h[x - 1] \o q[x]
  BY <1>2, <1>5 DEF IsFlat
<1>7. \A x \in 1 .. n : g[x] = IF x = 1 THEN q[x] ELSE g[x - 1] \o q[x]
  BY <1>2, <1>4 DEF IsFlat
<1> HIDE DEF g, q
<1> DEFINE S == {d \in Nat : d + 1 <= n => h[d + 1] = g[d + 1]}
<1>8. 0 \in S
  <2>1. 0 + 1 = 1 /\ 1 \in 1 .. n
    BY SMT
  <2> QED BY <1>6, <1>7, <2>1
<1>9. ASSUME NEW d \in S PROVE d + 1 \in S
  <2> SUFFICES ASSUME (d + 1) + 1 <= n PROVE h[(d + 1) + 1] = g[(d + 1) + 1]
    BY SMT
  <2>1. /\ d + 1 <= n /\ (d + 1) + 1 \in 1 .. n /\ (d + 1) + 1 # 1
        /\ ((d + 1) + 1) - 1 = d + 1
    BY SMT
  <2>2. h[d + 1] = g[d + 1]
    BY <2>1
  <2> DEFINE y == (d + 1) + 1
  <2>3. y \in 1 .. n /\ y # 1 /\ h[y - 1] = g[y - 1]
    BY <2>1, <2>2
  <2> HIDE DEF y
  <2>4. h[y] = g[y]
    BY <1>6, <1>7, <2>3
  <2> QED BY <2>4 DEF y
<1>10. S = Nat
  <2>1. S \subseteq Nat
    OBVIOUS
  <2> HIDE DEF S
  <2> QED BY <1>8, <1>9, <2>1, Induction
<1>11. h[n] = g[n]
  <2>1. n - 1 \in Nat /\ (n - 1) + 1 = n /\ (n - 1) + 1 <= n
    BY SMT
  <2>2. n - 1 \in S
    BY <1>10, <2>1
  <2> QED BY <2>1, <2>2
<1>12. g[n] = f[n]
  BY SMT DEF g
<1>13. Promise!FlattenSeq(q) = h[n]
  <2>1. Len(q) # 0
    BY <1>2, SMT
  <2> QED BY <1>2, <2>1, FlatIsChosen DEF h
<1> QED BY <1>11, <1>12, <1>13 DEF q

(* When N coefficients are collected, the first N are what the promise     *)
(* says, however many candidates were looked at.                           *)
LEMMA FirstOnes ==
  ASSUME NEW s, Cycle(s), NEW n \in Nat, NEW f, Collects(s, f, n), Len(f[n]) >= N
  PROVE  /\ Promise!Useful(s)
         /\ Promise!FirstAccepted(s) = [x \in 1 .. N |-> f[n][x]]
<1>0. N \in Nat /\ N >= 1 /\ Len(s) \in Nat /\ Len(s) >= 1
  BY Counts DEF Cycle
<1>1. \E e \in 1 .. Len(s) : s[e] # <<>>
  <2> SUFFICES ASSUME \A e \in 1 .. Len(s) : s[e] = <<>> PROVE FALSE
    OBVIOUS
  <2>1. f[n] = <<>>
    BY NoneAtAll
  <2>2. Len(f[n]) = 0
    BY <2>1, EmptySeq
  <2> QED BY <1>0, <2>2, SMT
<1>2. Promise!Useful(s)
  <2>1. DOMAIN s = 1 .. Len(s)
    BY LenProperties DEF Cycle
  <2> QED BY <1>1, <2>1 DEF Promise!Useful
<1> DEFINE T == N * Len(s)
<1>3. T \in Nat /\ T >= 1
  BY <1>0, SMT
<1> HIDE DEF T
<1>4. PICK g : Collects(s, g, T)
  BY <1>3, CollectsAny
<1>5. Len(g[T]) >= N
  <2>1. PICK e \in 1 .. Len(s) : s[e] # <<>>
    BY <1>1
  <2>2. N * Len(s) <= T
    BY <1>3, SMT DEF T
  <2> QED BY <1>0, <1>3, <1>4, <2>1, <2>2, OneATurn DEF T
<1>6. f[n] \in Seq(Int) /\ Len(f[n]) \in Nat /\ g[T] \in Seq(Int) /\ Len(g[T]) \in Nat
  <2>1. n \in 0 .. n /\ T \in 0 .. T
    BY <1>3, SMT
  <2>2. f[n] \in Seq(Int) /\ g[T] \in Seq(Int)
    BY <1>4, <2>1 DEF Collects
  <2> QED BY <2>2, LenProperties
<1>7. \A x \in 1 .. N : f[n][x] = g[T][x]
  <2>1. CASE n <= T
    <3>1. n \in 0 .. T /\ T \in 0 .. T /\ n <= n
      BY <1>3, <2>1, SMT
    <3>2. f[n] = g[n]
      BY <1>3, <1>4, <2>1, <3>1, CollectsSame
    <3>3. Begins(g[n], g[T])
      BY <1>3, <1>4, <2>1, <3>1, CollectsGrows
    <3>4. \A x \in 1 .. N : x \in 1 .. Len(f[n])
      BY <1>0, <1>6, SMT
    <3> QED BY <3>2, <3>3, <3>4 DEF Begins
  <2>2. CASE T <= n
    <3>1. T \in 0 .. n /\ n \in 0 .. n /\ T <= T
      BY <1>3, <2>2, SMT
    <3>2. f[T] = g[T]
      BY <1>3, <1>4, <2>2, <3>1, CollectsSame
    <3>3. Begins(f[T], f[n])
      BY <1>3, <2>2, <3>1, CollectsGrows
    <3>4. \A x \in 1 .. N : x \in 1 .. Len(f[T])
      BY <1>0, <1>5, <1>6, <3>2, SMT
    <3> QED BY <3>2, <3>3, <3>4 DEF Begins
  <2>3. n <= T \/ T <= n
    BY <1>3, SMT
  <2> QED BY <2>1, <2>2, <2>3
<1>8. Promise!FirstAccepted(s) = SubSeq(g[T], 1, N)
  <2>1. Promise!FlattenSeq([x \in 1 .. T |-> Turn(s, x)]) = g[T]
    BY <1>3, <1>4, Flattened
  <2>2. Promise!FirstAccepted(s) =
          SubSeq(Promise!FlattenSeq([x \in 1 .. T |-> Turn(s, x)]), 1, N)
    BY DEF Promise!FirstAccepted, T, Turn
  <2> QED BY <2>1, <2>2
<1>9. SubSeq(g[T], 1, N) = [x \in 1 .. N |-> g[T][x]]
  <2> DEFINE p == g[T]
             r == SubSeq(p, 1, N)
  <2>1. \A x \in 1 .. N : p[x] \in Int /\ 1 + x - 1 = x
    <3>1. \A x \in 1 .. N : x \in 1 .. Len(p) /\ 1 + x - 1 = x
      BY <1>0, <1>5, <1>6, SMT
    <3> QED BY <1>6, <3>1, ElementOfSeq
  <2> HIDE DEF p
  <2>2. /\ r \in Seq(Int) /\ Len(r) = (IF 1 <= N THEN N - 1 + 1 ELSE 0)
        /\ \A x \in 1 .. N - 1 + 1 : r[x] = p[1 + x - 1]
    <3>1. 1 \in Int /\ N \in Int
      BY <1>0, SMT
    <3> QED BY <2>1, <3>1, SubSeqProperties
  <2> HIDE DEF r
  <2>3. Len(r) = N /\ N - 1 + 1 = N
    BY <1>0, <2>2, SMT
  <2>4. r \in [1 .. N -> Int]
    BY <2>2, <2>3, LenProperties
  <2>5. \A x \in 1 .. N : r[x] = p[x]
    BY <2>1, <2>2, <2>3
  <2>6. r = [x \in 1 .. N |-> p[x]]
    BY <2>4, <2>5
  <2> QED BY <2>6 DEF p, r
<1>10. [x \in 1 .. N |-> g[T][x]] = [x \in 1 .. N |-> f[n][x]]
  BY <1>7
<1> QED BY <1>2, <1>8, <1>9, <1>10

-----------------------------------------------------------------------------
(* The streams of the samplers as cycles of candidates.                    *)

(* A nibble as a candidate.                                                *)
Small(t) == IF EtaAccepts(t) THEN <<EtaValue(t)>> ELSE <<>>

Uniform(t) == IF t < Q THEN <<t>> ELSE <<>>

(* The arithmetic of RejEta is the table of the standard.                  *)
LEMMA SmallIsStandard ==
  ASSUME eta \in {2, 4}, NEW t \in Nat
  PROVE  Small(t) = CASE eta = 2 /\ t < 15 -> <<2 - (t % 5)>>
                      [] eta = 4 /\ t < 9  -> <<4 - t>>
                      [] OTHER -> <<>>
<1>1. CASE eta = 2 /\ t < 15
  <2>1. \A y \in Nat : y < 15 =>
          (y - ((y * 205) \div 1024) * 4 - (y * 205) \div 1024) % 5 = y % 5
    BY SMT
  <2>2. EtaValue(t) = 2 - (t % 5)
    BY <1>1, <2>1 DEF EtaValue
  <2>3. EtaAccepts(t)
    BY <1>1 DEF EtaAccepts
  <2>4. Small(t) = <<2 - (t % 5)>>
    BY <2>2, <2>3 DEF Small
  <2>5. ~(eta = 4)
    BY <1>1
  <2> QED BY <1>1, <2>4, <2>5
<1>2. CASE eta = 4 /\ t < 9
  <2>1. ~(eta = 2)
    BY <1>2
  <2>2. EtaAccepts(t) /\ EtaValue(t) = 4 - t
    BY <1>2, <2>1 DEF EtaAccepts, EtaValue
  <2> QED BY <1>2, <2>1, <2>2 DEF Small
<1>3. CASE ~(eta = 2 /\ t < 15) /\ ~(eta = 4 /\ t < 9)
  <2>1. ~EtaAccepts(t)
    BY <1>3 DEF EtaAccepts
  <2> QED BY <1>3, <2>1 DEF Small
<1> QED BY <1>1, <1>2, <1>3

(* A stream of bytes.                                                      *)
Tape(s) == s \in Streams /\ tapes[s] \in [0 .. Period - 1 -> Byte] /\ s.xof \in {128, 256}

Triple(s, n) ==
  UniformValue(tapes[s][(3 * n) % Period], tapes[s][(3 * n + 1) % Period],
               tapes[s][(3 * n + 2) % Period])

Half(s, n) ==
  IF n % 2 = 0 THEN tapes[s][(n \div 2) % Period] % 16
               ELSE tapes[s][(n \div 2) % Period] \div 16

(* Three bytes with the top bit cleared are a number.                      *)
LEMMA TripleInNat ==
  ASSUME NEW s, Tape(s), NEW n \in Nat
  PROVE  Triple(s, n) \in Nat
<1>1. /\ (3 * n) % Period \in 0 .. Period - 1
      /\ (3 * n + 1) % Period \in 0 .. Period - 1
      /\ (3 * n + 2) % Period \in 0 .. Period - 1
  BY Counts, SMT
<1>2. \A x \in 0 .. Period - 1 : tapes[s][x] \in Byte
  BY DEF Tape
<1> DEFINE b0 == tapes[s][(3 * n) % Period]
           b1 == tapes[s][(3 * n + 1) % Period]
           b2 == tapes[s][(3 * n + 2) % Period]
<1>3. b0 \in Byte /\ b1 \in Byte /\ b2 \in Byte
  BY <1>1, <1>2
<1>4. Triple(s, n) = UniformValue(b0, b1, b2)
  BY DEF Triple
<1> HIDE DEF b0, b1, b2
<1> QED BY <1>3, <1>4, UniformInNat

(* A nibble is one.                                                        *)
LEMMA HalfInNat ==
  ASSUME NEW s, Tape(s), NEW n \in Nat
  PROVE  Half(s, n) \in Nat
<1>1. (n \div 2) % Period \in 0 .. Period - 1
  BY Counts, SMT
<1>2. tapes[s][(n \div 2) % Period] \in Byte
  <2>1. \A x \in 0 .. Period - 1 : tapes[s][x] \in Byte
    BY DEF Tape
  <2> QED BY <1>1, <2>1
<1>3. \A b \in Byte : b % 16 \in Nat /\ b \div 16 \in Nat
  BY SMT DEF Byte
<1> QED BY <1>2, <1>3 DEF Half

(* A candidate of the matrix is at most one coefficient.                   *)
LEMMA UniformFits ==
  ASSUME NEW t \in Nat
  PROVE  Uniform(t) \in Seq(Int) /\ (Uniform(t) = <<>> \/ Len(Uniform(t)) = 1)
<1>1. CASE t < Q
  <2>1. Uniform(t) = <<t>>
    BY <1>1 DEF Uniform
  <2> QED BY <2>1
<1>2. CASE ~(t < Q)
  BY <1>2, EmptySeq DEF Uniform
<1> QED BY <1>1, <1>2

(* So is a nibble of s1 or s2.                                             *)
LEMMA SmallFits ==
  ASSUME NEW t \in Nat, eta \in {2, 4}
  PROVE  Small(t) \in Seq(Int) /\ (Small(t) = <<>> \/ Len(Small(t)) = 1)
<1>1. CASE EtaAccepts(t)
  <2>1. EtaValue(t) \in -eta .. eta
    BY <1>1, EtaInRange
  <2>2. EtaValue(t) \in Int
    BY <2>1, SMT
  <2>3. Small(t) = <<EtaValue(t)>>
    BY <1>1 DEF Small
  <2> QED BY <2>2, <2>3
<1>2. CASE ~EtaAccepts(t)
  BY <1>2, EmptySeq DEF Small
<1> QED BY <1>1, <1>2

(* A function on 1 .. m is a sequence of length m.                         *)
LEMMA Lists ==
  ASSUME NEW S, NEW m \in Nat, NEW q \in [1 .. m -> S]
  PROVE  q \in Seq(S) /\ Len(q) = m /\ DOMAIN q = 1 .. m
<1>1. q \in Seq(S) /\ DOMAIN q = 1 .. m
  BY SeqDef
<1>2. Len(q) \in Nat /\ DOMAIN q = 1 .. Len(q)
  BY <1>1, LenProperties
<1> QED BY <1>1, <1>2, SMT

(* The candidates of the matrix.                                           *)
LEMMA UniformCycle ==
  ASSUME NEW s, Tape(s), s.xof = 128
  PROVE  /\ Cycle(CandidatesOf(s)) /\ Len(CandidatesOf(s)) = Period
         /\ \A n \in 1 .. Period : CandidatesOf(s)[n] = Uniform(Triple(s, n - 1))
<1> DEFINE q == CandidatesOf(s)
<1>1. \A n \in 1 .. Period : n - 1 \in Nat
  BY SMT
<1>2. q = [n \in 1 .. Period |-> Uniform(Triple(s, n - 1))]
  BY DEF CandidatesOf, Uniform, Triple
<1>3. \A n \in 1 .. Period :
        /\ Uniform(Triple(s, n - 1)) \in Seq(Int)
        /\ Uniform(Triple(s, n - 1)) = <<>> \/ Len(Uniform(Triple(s, n - 1))) = 1
  BY <1>1, TripleInNat, UniformFits
<1> HIDE DEF q
<1>4. q \in [1 .. Period -> Seq(Int)]
  BY <1>2, <1>3
<1>5. q \in Seq(Seq(Int)) /\ Len(q) = Period
  BY <1>4, Lists, Counts
<1>6. Cycle(q)
  BY <1>2, <1>3, <1>5, Counts DEF Cycle
<1> QED BY <1>2, <1>5, <1>6 DEF q

(* The candidates of s1 and s2.                                            *)
LEMMA EtaCycle ==
  ASSUME NEW s, Tape(s), s.xof = 256, eta \in {2, 4}
  PROVE  /\ Cycle(CandidatesOf(s)) /\ Len(CandidatesOf(s)) = 2 * Period
         /\ \A n \in 1 .. 2 * Period : CandidatesOf(s)[n] = Small(Half(s, n - 1))
<1> DEFINE q == CandidatesOf(s)
           standard(t) == CASE eta = 2 /\ t < 15 -> <<2 - (t % 5)>>
                            [] eta = 4 /\ t < 9  -> <<4 - t>>
                            [] OTHER -> <<>>
<1>1. \A n \in 1 .. 2 * Period : n - 1 \in Nat
  BY SMT
<1>2. 2 * Period \in Nat /\ 2 * Period >= 1
  BY Counts, SMT
<1>3. \A n \in 1 .. 2 * Period : Half(s, n - 1) \in Nat
  BY <1>1, HalfInNat
<1>4. q = [n \in 1 .. 2 * Period |-> standard(Half(s, n - 1))]
  <2>1. ~(s.xof = 128)
    BY SMT
  <2> QED BY <2>1 DEF CandidatesOf, Half
<1>5. \A n \in 1 .. 2 * Period : standard(Half(s, n - 1)) = Small(Half(s, n - 1))
  BY <1>3, SmallIsStandard
<1> HIDE DEF q, standard
<1>6. q = [n \in 1 .. 2 * Period |-> Small(Half(s, n - 1))]
  BY <1>4, <1>5
<1>7. \A n \in 1 .. 2 * Period :
        /\ Small(Half(s, n - 1)) \in Seq(Int)
        /\ Small(Half(s, n - 1)) = <<>> \/ Len(Small(Half(s, n - 1))) = 1
  BY <1>3, SmallFits
<1>8. q \in [1 .. 2 * Period -> Seq(Int)]
  BY <1>6, <1>7
<1>9. q \in Seq(Seq(Int)) /\ Len(q) = 2 * Period
  BY <1>2, <1>8, Lists
<1>10. Cycle(q)
  BY <1>2, <1>6, <1>7, <1>9 DEF Cycle
<1>11. \A n \in 1 .. 2 * Period : q[n] = Small(Half(s, n - 1))
  BY <1>6
<1> QED BY <1>9, <1>10, <1>11 DEF q

(* Numbers a multiple of m apart.                                          *)
LEMMA SameLeftover ==
  ASSUME NEW x \in Int, NEW y \in Int, NEW m \in Nat, m > 0, NEW q \in Int,
         x = m * q + y
  PROVE  x % m = y % m
<1> DEFINE d == y \div m
           r == y % m
<1>1. d \in Int /\ r \in Int /\ y = m * d + r /\ 0 <= r /\ r < m
  BY SMT
<1> HIDE DEF d, r
<1>2. x = m * (q + d) + r /\ q + d \in Int
  BY <1>1, SMT
<1>3. x % m = r
  BY <1>1, <1>2, Leftover
<1> QED BY <1>3 DEF r

(* A position counted on from a remainder.                                 *)
LEMMA Onwards ==
  ASSUME NEW B \in Nat, NEW p \in Nat
  PROVE  ((B % Period) + p) % Period = (B + p) % Period
<1> DEFINE q == B \div Period
           r == B % Period
<1>1. q \in Int /\ r \in Int /\ B = Period * q + r /\ Period \in Nat /\ Period > 0
  BY Counts, SMT
<1> HIDE DEF q, r
<1> DEFINE x == B + p
           y == r + p
<1>2. x = Period * q + y /\ x \in Int /\ y \in Int
  <2>1. Period * q \in Int
    BY <1>1, Counts, SMT
  <2> QED BY <1>1, <2>1, SMT
<1> HIDE DEF x, y
<1>3. x % Period = y % Period
  <2>1. Period \in Nat /\ Period > 0 /\ q \in Int
    BY <1>1
  <2> QED BY <1>2, <2>1, SameLeftover
<1> QED BY <1>3 DEF r, x, y

(* Candidate P + 1 of the matrix stands at bytes 3*P on.                   *)
LEMMA UniformTurn ==
  ASSUME NEW s, Tape(s), s.xof = 128, NEW P \in Nat
  PROVE  Turn(CandidatesOf(s), P + 1) = Uniform(Triple(s, P))
<1> DEFINE r == P % Period
           q == P \div Period
<1>1. r \in Nat /\ q \in Int /\ P = Period * q + r /\ r < Period /\ Period > 0
  BY Counts, SMT
<1>2. (P + 1) - 1 = P
  BY SMT
<1>3. Turn(CandidatesOf(s), P + 1) = CandidatesOf(s)[r + 1]
  BY <1>2, UniformCycle DEF Turn
<1> HIDE DEF r, q
<1>4. r + 1 \in 1 .. Period /\ (r + 1) - 1 = r
  BY <1>1, Counts, SMT
<1>5. CandidatesOf(s)[r + 1] = Uniform(Triple(s, r))
  BY <1>4, UniformCycle
<1>6. \A e \in {0, 1, 2} : (3 * P + e) % Period = (3 * r + e) % Period
  <2> SUFFICES ASSUME NEW e \in {0, 1, 2}
               PROVE  (3 * P + e) % Period = (3 * r + e) % Period
    OBVIOUS
  <2> DEFINE x == 3 * P + e
             y == 3 * r + e
             t == 3 * q
  <2>1. x = Period * t + y /\ t \in Int /\ x \in Int /\ y \in Int
    BY <1>1, Counts, SMT
  <2> HIDE DEF x, y, t
  <2>2. x % Period = y % Period
    BY <1>1, <2>1, Counts, SameLeftover
  <2> QED BY <2>2 DEF x, y
<1>7. /\ (3 * P) % Period = (3 * r) % Period
      /\ (3 * P + 1) % Period = (3 * r + 1) % Period
      /\ (3 * P + 2) % Period = (3 * r + 2) % Period
  <2>1. 3 * P + 0 = 3 * P /\ 3 * r + 0 = 3 * r
    BY <1>1, SMT
  <2> QED BY <1>6, <2>1
<1>8. Triple(s, r) = Triple(s, P)
  BY <1>7 DEF Triple
<1> QED BY <1>3, <1>5, <1>8

(* Candidates 2*p + 1 and 2*p + 2 of s1 and s2 are the halves of byte p.   *)
LEMMA EtaTurn ==
  ASSUME NEW s, Tape(s), s.xof = 256, eta \in {2, 4}, NEW p \in Nat
  PROVE  /\ Turn(CandidatesOf(s), 2 * p + 1) = Small(tapes[s][p % Period] % 16)
         /\ Turn(CandidatesOf(s), 2 * p + 2) = Small(tapes[s][p % Period] \div 16)
<1> DEFINE r == p % Period
           q == p \div Period
<1>1. r \in Nat /\ q \in Int /\ p = Period * q + r /\ r < Period /\ Period > 0
  BY Counts, SMT
<1> HIDE DEF q, r
<1>2. ASSUME NEW e \in {0, 1}
      PROVE  /\ Turn(CandidatesOf(s), 2 * p + (e + 1)) = Small(Half(s, 2 * r + e))
             /\ (2 * r + e) \div 2 = r /\ (2 * r + e) % 2 = e
  <2> DEFINE x == 2 * p + e
             y == 2 * r + e
             m == 2 * Period
  <2>1. x = m * q + y /\ x \in Int /\ y \in Int /\ 0 <= y /\ y < m /\ m \in Nat /\ m > 0
    BY <1>1, Counts, SMT
  <2>2. (2 * p + e) % (2 * Period) = 2 * r + e
    <3> HIDE DEF x, y, m
    <3>1. x % m = y
      BY <1>1, <2>1, Leftover
    <3> QED BY <3>1 DEF x, y, m
  <2>3. (2 * p + (e + 1)) - 1 = 2 * p + e
    BY SMT
  <2>4. Turn(CandidatesOf(s), 2 * p + (e + 1)) = CandidatesOf(s)[(2 * r + e) + 1]
    BY <2>2, <2>3, EtaCycle DEF Turn
  <2>5. (2 * r + e) + 1 \in 1 .. 2 * Period /\ ((2 * r + e) + 1) - 1 = 2 * r + e
    BY <2>1, SMT
  <2>6. (2 * r + e) \div 2 = r /\ (2 * r + e) % 2 = e
    BY <1>1, SMT
  <2>7. CandidatesOf(s)[(2 * r + e) + 1] = Small(Half(s, ((2 * r + e) + 1) - 1))
    <3> HIDE DEF x, y, m
    <3> QED BY <2>5, EtaCycle
  <2>8. CandidatesOf(s)[(2 * r + e) + 1] = Small(Half(s, 2 * r + e))
    BY <2>5, <2>7
  <2> QED BY <2>4, <2>6, <2>8
<1>3. r % Period = r
  BY <1>1, Counts, SMT
<1>4. Half(s, 2 * r + 0) = tapes[s][r] % 16
  BY <1>2, <1>3 DEF Half
<1>5. Half(s, 2 * r + 1) = tapes[s][r] \div 16
  <2>1. ~((2 * r + 1) % 2 = 0)
    BY <1>2, SMT
  <2> QED BY <1>2, <1>3, <2>1 DEF Half
<1>6. 0 + 1 = 1 /\ 1 + 1 = 2
  OBVIOUS
<1>7. Turn(CandidatesOf(s), 2 * p + 1) = Small(Half(s, 2 * r + 0))
  BY <1>2, <1>6
<1>8. Turn(CandidatesOf(s), 2 * p + 2) = Small(Half(s, 2 * r + 1))
  BY <1>2, <1>6
<1> QED BY <1>4, <1>5, <1>7, <1>8 DEF r

-----------------------------------------------------------------------------
(* How far a rejection loop is: what is written is what the candidates up  *)
(* to position P of the stream give, cut off where the polynomial is full. *)

(* The buffer starts at byte B of the stream, and its reading position is  *)
(* that of candidate P + 1.                                                *)
Stands(P) ==
  \E B \in Nat :
    /\ from = B % Period
    /\ IF Current.xof = 128
       THEN B + pos = 3 * P /\ \E m \in Nat : size = pos + 3 * m
       ELSE P = 2 * (B + pos)

(* What is written is q, or as much of it as there is room for.            *)
Matches(q) ==
  /\ q \in Seq(Int) /\ ctr <= Len(q)
  /\ ctr < N => ctr = Len(q)
  /\ \A n \in 0 .. ctr - 1 : a[n] = q[n + 1]

Follows(P) ==
  \E f : Collects(CandidatesOf(Current), f, P) /\ Matches(f[P])

Reading == pc = "reject" => \E P \in Nat : Stands(P) /\ Follows(P)

(* What the loop at work reads: the bytes of a stream of Work, which stand *)
(* for a cycle of candidates.                                              *)
ATapeIsRead == Tape(Current) /\ eta \in {2, 4} /\ Cycle(CandidatesOf(Current))

(* The loop at work reads one of them.                                     *)
LEMMA ATape ==
  ASSUME SInv, pc = "reject"
  PROVE  ATapeIsRead
<1>1. Len(opened) \in Nat /\ Len(opened) >= 1 /\ Len(opened) <= Len(Work) /\ Len(polys) \in Nat
  BY LenProperties DEF SInv, InOrder
<1>2. Len(opened) \in DOMAIN Work /\ Work \in Seq(Name) /\ Len(Work) \in Nat
  BY <1>1, WorkOrder, LenProperties
<1>3. Current \in Streams /\ Current \in Name
  BY <1>2, ElementOfSeq, LenProperties DEF Current, Streams
<1>4. tapes \in [Streams -> [0 .. Period - 1 -> Byte]] /\ eta \in {2, 4}
  BY DEF SInv, Buffered
<1>5. tapes[Current] \in [0 .. Period - 1 -> Byte] /\ Current.xof \in {128, 256}
  BY <1>3, <1>4 DEF Name
<1>6. Tape(Current)
  BY <1>3, <1>5 DEF Tape
<1>7. Current.xof = 128 \/ Current.xof = 256
  BY <1>5
<1> QED BY <1>4, <1>6, <1>7, UniformCycle, EtaCycle DEF ATapeIsRead

(* Writing v goes on with w, of which v is all there is room for.          *)
LEMMA WriteMatches ==
  ASSUME SInv, ctr < N, NEW q, Matches(q), NEW v \in Seq(Int), NEW w \in Seq(Int),
         Write(v), Begins(v, w), ctr + Len(v) <= N,
         ctr + Len(v) < N => Len(v) = Len(w)
  PROVE  Matches(q \o w)'
<1>1. /\ q \in Seq(Int) /\ Len(q) \in Nat /\ Len(v) \in Nat /\ Len(w) \in Nat /\ ctr = Len(q)
      /\ \A n \in 0 .. ctr - 1 : a[n] = q[n + 1]
  BY LenProperties DEF Matches
<1>2. ctr' = ctr + Len(v)
  BY DEF Write
<1>3. \A n \in 0 .. N - 1 : a'[n] = IF n >= ctr /\ n < ctr + Len(v) THEN v[n - ctr + 1] ELSE a[n]
  BY DEF Write
<1>4. /\ q \o w \in Seq(Int) /\ Len(q \o w) = Len(q) + Len(w)
      /\ \A n \in 1 .. Len(q) + Len(w) :
           (q \o w)[n] = IF n <= Len(q) THEN q[n] ELSE w[n - Len(q)]
  BY <1>1, ConcatProperties
<1>5. Len(v) <= Len(w) /\ \A n \in 1 .. Len(v) : v[n] = w[n]
  BY DEF Begins
<1>6. ctr' <= Len(q \o w) /\ (ctr' < N => ctr' = Len(q \o w))
  <2> DEFINE z == Len(q \o w)
             x == Len(q)
             y == Len(v)
             t == Len(w)
  <2>1. z = x + t /\ y <= t /\ ctr' = x + y /\ x \in Nat /\ y \in Nat /\ t \in Nat
        /\ (x + y < N => y = t)
    BY <1>1, <1>2, <1>4, <1>5
  <2> HIDE DEF x, y, z, t
  <2>2. ctr' <= z /\ (ctr' < N => ctr' = z)
    BY <2>1, SMT
  <2> QED BY <2>2 DEF z
<1>7. ASSUME NEW n \in 0 .. ctr' - 1 PROVE a'[n] = (q \o w)[n + 1]
  <2>1. /\ n \in 0 .. N - 1 /\ n + 1 \in 1 .. Len(q) + Len(w)
        /\ (n >= ctr \/ n \in 0 .. ctr - 1)
    BY <1>1, <1>2, <1>5, Counts, SMT
  <2>2. CASE n >= ctr
    <3>1. /\ n < ctr + Len(v) /\ n - ctr + 1 \in 1 .. Len(v) /\ ~(n + 1 <= Len(q))
          /\ (n + 1) - Len(q) = n - ctr + 1
      BY <1>1, <1>2, <2>2, SMT
    <3> QED BY <1>3, <1>4, <1>5, <2>1, <2>2, <3>1
  <2>3. CASE n \in 0 .. ctr - 1
    <3>1. ~(n >= ctr) /\ n + 1 <= Len(q)
      BY <1>1, <2>3, SMT
    <3> QED BY <1>1, <1>3, <1>4, <2>1, <2>3, <3>1
  <2> QED BY <2>1, <2>2, <2>3
<1> QED BY <1>4, <1>6, <1>7 DEF Matches

(* The same after a step.                                                  *)
LEMMA ATapeNext == (SInv /\ pc = "reject")' => ATapeIsRead'
<1>1. SInv /\ pc = "reject" => ATapeIsRead
  BY ATape
<1> QED BY <1>1, PTL

(* Nothing is read of a stream that is opened.                             *)
LEMMA ReadingOpens ==
  ASSUME SInv, Open
  PROVE  Reading'
<1>1. SInv'
  BY StepOpen
<1>2. /\ pc' = "reject" /\ from' = 0 /\ pos' = 0 /\ ctr' = 0
      /\ opened' = Append(opened, Work[Len(opened) + 1])
      /\ size' = IF Work[Len(opened) + 1].xof = 128 THEN UniformBlocks * Block128
                                                    ELSE EtaBlocks * Block256
  BY DEF Open
<1>3. Cycle(CandidatesOf(Current)') /\ Tape(Current)'
  BY <1>1, <1>2, ATapeNext DEF ATapeIsRead
<1>4. Current' = Work[Len(opened) + 1]
  <2>1. opened \in Seq(Name) /\ Len(opened) \in Nat
    BY LenProperties DEF SInv, InOrder
  <2>2. Len(opened) + 1 \in 1 .. Len(Work) /\ Len(Work) \in Nat
    <3>1. Len(opened) < Len(Work) /\ Len(Work) \in Nat
      BY WorkOrder, LenProperties DEF Open
    <3> QED BY <2>1, <3>1, SMT
  <2>3. Work[Len(opened) + 1] \in Name
    BY <2>2, WorkOrder, ElementOfSeq
  <2>4. Len(opened') = Len(opened) + 1
    BY <1>2, <2>1, <2>3, AppendProperties
  <2> QED BY <2>4 DEF Current
<1>5. Follows(0)'
  <2> DEFINE s == CandidatesOf(Current)'
  <2>1. PICK f : Collects(s, f, 0)
    BY <1>3, CollectsAny
  <2>2. f[0] = <<>>
    BY <2>1 DEF Collects
  <2>3. <<>> \in Seq(Int) /\ Len(<<>>) = 0 /\ 0 .. 0 - 1 = {} /\ 0 <= 0
    BY EmptySeq, SMT
  <2>4. Matches(f[0])'
    BY <1>2, <2>2, <2>3 DEF Matches
  <2> QED BY <2>1, <2>4 DEF Follows
<1>6. Stands(0)'
  <2>1. 0 = 0 % Period /\ 0 + 0 = 3 * 0 /\ 0 = 2 * (0 + 0) /\ 0 \in Nat
    BY Counts, SMT
  <2>2. ASSUME Current'.xof = 128 PROVE \E m \in Nat : size' = 0 + 3 * m
    <3>1. size' = UniformBlocks * Block128
      BY <1>2, <1>4, <2>2
    <3>2. UniformBlocks \in Nat /\ Block128 \in Nat /\ Block128 % 3 = 0
      BY SamplingAssumption
    <3>3. \E k \in Nat : Block128 = 3 * k
      BY <3>2, SMT
    <3>4. PICK k \in Nat : Block128 = 3 * k
      BY <3>3
    <3>5. UniformBlocks * k \in Nat /\ UniformBlocks * (3 * k) = 0 + 3 * (UniformBlocks * k)
      BY <3>2, SMT
    <3> QED BY <3>1, <3>4, <3>5
  <2> QED BY <1>2, <2>1, <2>2 DEF Stands
<1>7. 0 \in Nat
  OBVIOUS
<1> QED BY <1>5, <1>6, <1>7 DEF Reading

(* The next byte, or the e-th after it, when the buffer starts at B.       *)
LEMMA NextByte ==
  ASSUME SInv, NEW B \in Nat, from = B % Period, NEW e \in Nat
  PROVE  /\ ByteAt(pos + e) = tapes[Current][(B + pos + e) % Period]
         /\ B + pos + e \in Nat /\ pos \in Nat
<1>1. pos \in Nat /\ pos + e \in Nat
  BY SMT DEF SInv, Buffered
<1>2. B + (pos + e) = B + pos + e /\ B + pos + e \in Nat
  BY <1>1, SMT
<1>3. (from + (pos + e)) % Period = (B + (pos + e)) % Period
  BY <1>1, Onwards
<1> QED BY <1>1, <1>2, <1>3 DEF ByteAt

(* A candidate of three bytes is read.                                     *)
LEMMA ReadingUniform ==
  ASSUME SInv, Reading, RejUniform
  PROVE  Reading'
<1> DEFINE t == UniformValue(ByteAt(pos), ByteAt(pos + 1), ByteAt(pos + 2))
<1>1. /\ pc = "reject" /\ Current.xof = 128 /\ ctr < N /\ pos + 3 <= size
      /\ Write(Uniform(t)) /\ Read(3)
  BY DEF RejUniform, RejUniformGoesOn, Uniform
<1>2. /\ pos' = pos + 3 /\ opened' = opened /\ pc' = pc /\ from' = from /\ size' = size
      /\ eta' = eta /\ tapes' = tapes
  BY <1>1 DEF Read
<1>3. PICK P \in Nat : Stands(P) /\ Follows(P)
  BY <1>1 DEF Reading
<1>4. PICK B \in Nat : /\ from = B % Period /\ B + pos = 3 * P
                       /\ \E m \in Nat : size = pos + 3 * m
  BY <1>1, <1>3 DEF Stands
<1>5. PICK m \in Nat : size = pos + 3 * m
  BY <1>4
<1>6. PICK f : Collects(CandidatesOf(Current), f, P) /\ Matches(f[P])
  BY <1>3 DEF Follows
<1>7. ATapeIsRead
  BY <1>1, ATape
<1>8. t = Triple(Current, P)
  <2>0. \A n : n \in {0, 1, 2} => n \in Nat
    OBVIOUS
  <2>1. \A e \in {0, 1, 2} : ByteAt(pos + e) = tapes[Current][(B + pos + e) % Period]
    BY <1>4, <2>0, NextByte
  <2>2. pos \in Nat
    BY SMT DEF SInv, Buffered
  <2>3. pos + 0 = pos /\ B + pos + 0 = 3 * P
    BY <1>4, <2>2, SMT
  <2>4. /\ ByteAt(pos) = tapes[Current][(3 * P) % Period]
        /\ ByteAt(pos + 1) = tapes[Current][(3 * P + 1) % Period]
        /\ ByteAt(pos + 2) = tapes[Current][(3 * P + 2) % Period]
    BY <1>4, <2>1, <2>3
  <2> QED BY <2>4 DEF Triple
<1>9. Turn(CandidatesOf(Current), P + 1) = Uniform(t)
  BY <1>1, <1>7, <1>8, UniformTurn DEF ATapeIsRead
<1>10. Uniform(t) \in Seq(Int) /\ (Len(Uniform(t)) = 0 \/ Len(Uniform(t)) = 1)
  <2>1. t \in Nat
    BY <1>7, <1>8, TripleInNat DEF ATapeIsRead
  <2> HIDE DEF t
  <2> QED BY <2>1, UniformFits, EmptySeq
<1> HIDE DEF t
<1>11. PICK w : w = Uniform(t)
  OBVIOUS
<1>12. PICK g : Collects(CandidatesOf(Current), g, P + 1) /\ g[P + 1] = f[P] \o w
  <2>1. Cycle(CandidatesOf(Current))
    BY <1>7 DEF ATapeIsRead
  <2>2. \E g : /\ Collects(CandidatesOf(Current), g, P + 1)
               /\ g[P + 1] = f[P] \o Turn(CandidatesOf(Current), P + 1)
    BY <1>6, <2>1, CollectsOneMore
  <2> QED BY <1>9, <1>11, <2>2
<1>13. Matches(f[P] \o w)'
  <2> DEFINE q == f[P]
  <2>1. w \in Seq(Int) /\ Begins(w, w) /\ ctr + Len(w) <= N
    <3>1. Len(w) \in Nat /\ Len(w) <= Len(w) /\ (Len(w) = 0 \/ Len(w) = 1) /\ w \in Seq(Int)
      BY <1>10, <1>11, SMT
    <3>2. ctr \in Nat
      BY Counts, SMT DEF SInv, Written
    <3>3. ctr + 0 <= N /\ ctr + 1 <= N
      BY <1>1, <3>2, Counts, SMT
    <3> QED BY <3>1, <3>3 DEF Begins
  <2>2. Matches(q) /\ Write(w) /\ ctr < N
    BY <1>1, <1>6, <1>11
  <2> HIDE DEF q
  <2>3. Matches(q \o w)'
    BY <2>1, <2>2, WriteMatches
  <2> QED BY <2>3 DEF q
<1>14. CandidatesOf(Current)' = CandidatesOf(Current)
  BY <1>2 DEF CandidatesOf, Current
<1>15. Follows(P + 1)'
  BY <1>12, <1>13, <1>14 DEF Follows
<1>16. Stands(P + 1)'
  <2>1. /\ B + (pos + 3) = 3 * (P + 1) /\ m - 1 \in Nat /\ size = (pos + 3) + 3 * (m - 1)
    <3>1. pos \in Nat
      BY SMT DEF SInv, Buffered
    <3> QED BY <1>1, <1>4, <1>5, <3>1, SMT
  <2>2. Current' = Current
    BY <1>2 DEF Current
  <2> QED BY <1>1, <1>2, <1>4, <2>1, <2>2 DEF Stands
<1>17. P + 1 \in Nat
  OBVIOUS
<1> QED BY <1>15, <1>16, <1>17 DEF Reading

(* A byte stands for the coefficients of its halves, of which the second   *)
(* is left out only when the polynomial is full.                           *)
LEMMA BothHalves ==
  ASSUME eta \in {2, 4}, NEW b \in Byte, ctr \in Nat, ctr < N,
         NEW w, w = Small(b % 16) \o Small(b \div 16)
  PROVE  /\ w \in Seq(Int) /\ Begins(EtaValues(b), w)
         /\ ctr + Len(EtaValues(b)) < N => Len(EtaValues(b)) = Len(w)
<1> DEFINE low  == Small(b % 16)
           full == Small(b \div 16)
           high == IF EtaAccepts(b \div 16) /\ ctr + Len(low) < N
                   THEN <<EtaValue(b \div 16)>> ELSE <<>>
<1>1. b % 16 \in Nat /\ b \div 16 \in Nat
  BY SMT DEF Byte
<1>2. low \in Seq(Int) /\ full \in Seq(Int)
  BY <1>1, SmallFits
<1>3. EtaValues(b) = low \o high
  BY DEF EtaValues, Small
<1>4. high = full \/ (high = <<>> /\ ~(ctr + Len(low) < N))
  BY DEF Small
<1>5. w = low \o full
  OBVIOUS
<1> HIDE DEF low, full, high
<1>6. w \in Seq(Int) /\ Len(w) \in Nat
  BY <1>2, <1>5, ConcatProperties, LenProperties
<1>7. CASE high = full
  <2>1. EtaValues(b) = w
    BY <1>3, <1>5, <1>7
  <2>2. Len(w) <= Len(w)
    BY <1>6, SMT
  <2> QED BY <1>6, <2>1, <2>2 DEF Begins
<1>8. CASE high = <<>> /\ ~(ctr + Len(low) < N)
  <2>1. EtaValues(b) = low
    BY <1>2, <1>3, <1>8, ConcatEmptySeq
  <2>2. /\ Len(low) \in Nat /\ Len(full) \in Nat /\ Len(w) = Len(low) + Len(full)
        /\ \A n \in 1 .. Len(low) + Len(full) :
             w[n] = IF n <= Len(low) THEN low[n] ELSE full[n - Len(low)]
    <3>1. /\ Len(low \o full) = Len(low) + Len(full)
          /\ \A n \in 1 .. Len(low) + Len(full) :
               (low \o full)[n] = IF n <= Len(low) THEN low[n] ELSE full[n - Len(low)]
      BY <1>2, ConcatProperties
    <3>2. Len(low) \in Nat /\ Len(full) \in Nat
      BY <1>2, LenProperties
    <3> QED BY <1>5, <3>1, <3>2
  <2>3. /\ Len(low) <= Len(w)
        /\ \A n \in 1 .. Len(low) : n \in 1 .. Len(low) + Len(full) /\ n <= Len(low)
    BY <2>2, SMT
  <2>4. \A n \in 1 .. Len(low) : low[n] = w[n]
    BY <2>2, <2>3
  <2> QED BY <1>6, <1>8, <2>1, <2>3, <2>4 DEF Begins
<1> QED BY <1>4, <1>7, <1>8

(* A byte is read.                                                         *)
LEMMA ReadingEta ==
  ASSUME SInv, Reading, RejEta
  PROVE  Reading'
<1> DEFINE b == ByteAt(pos)
<1>1. /\ pc = "reject" /\ Current.xof = 256 /\ ctr < N /\ pos < size
      /\ Write(EtaValues(b)) /\ Read(1)
  BY DEF RejEta, RejEtaGoesOn
<1>2. /\ pos' = pos + 1 /\ opened' = opened /\ pc' = pc /\ from' = from /\ size' = size
      /\ eta' = eta /\ tapes' = tapes
  BY <1>1 DEF Read
<1>3. PICK P \in Nat : Stands(P) /\ Follows(P)
  BY <1>1 DEF Reading
<1>4. ~(Current.xof = 128)
  BY <1>1, SMT
<1>5. PICK B \in Nat : from = B % Period /\ P = 2 * (B + pos)
  BY <1>3, <1>4 DEF Stands
<1>6. PICK f : Collects(CandidatesOf(Current), f, P) /\ Matches(f[P])
  BY <1>3 DEF Follows
<1>7. ATapeIsRead
  BY <1>1, ATape
<1>8. pos \in Nat /\ B + pos \in Nat /\ ctr \in Nat /\ eta \in {2, 4}
  <2>1. pos \in Nat
    BY SMT DEF SInv, Buffered
  <2>2. ctr \in Nat
    BY Counts, SMT DEF SInv, Written
  <2> QED BY <1>7, <2>1, <2>2 DEF ATapeIsRead
<1>9. b = tapes[Current][(B + pos) % Period] /\ b \in Byte
  <2>1. b \in Byte
    BY <1>1, <1>8, BytesRead
  <2>2. ByteAt(pos + 0) = tapes[Current][(B + pos + 0) % Period]
    BY <1>5, NextByte
  <2>3. pos + 0 = pos /\ B + pos + 0 = B + pos
    BY <1>8, SMT
  <2> QED BY <2>1, <2>2, <2>3
<1>10. /\ Turn(CandidatesOf(Current), P + 1) = Small(b % 16)
       /\ Turn(CandidatesOf(Current), P + 2) = Small(b \div 16)
  BY <1>1, <1>5, <1>7, <1>8, <1>9, EtaTurn DEF ATapeIsRead
<1> HIDE DEF b
<1>11. PICK w : w = Small(b % 16) \o Small(b \div 16)
  OBVIOUS
<1>12. PICK v : v = EtaValues(b)
  OBVIOUS
<1>13. PICK g : Collects(CandidatesOf(Current), g, P + 2) /\ g[P + 2] = f[P] \o w
  <2> DEFINE s == CandidatesOf(Current)
  <2>0. Cycle(s)
    BY <1>7 DEF ATapeIsRead
  <2> HIDE DEF s
  <2>1. PICK h : Collects(s, h, P + 1) /\ h[P + 1] = f[P] \o Turn(s, P + 1)
    <3>1. Collects(s, f, P)
      BY <1>6 DEF s
    <3> QED BY <2>0, <3>1, CollectsOneMore
  <2>2. P + 1 \in Nat /\ (P + 1) + 1 = P + 2
    OBVIOUS
  <2>3. PICK g : Collects(s, g, P + 2) /\ g[P + 2] = h[P + 1] \o Turn(s, P + 2)
    <3>1. \E g : Collects(s, g, (P + 1) + 1) /\ g[(P + 1) + 1] = h[P + 1] \o Turn(s, (P + 1) + 1)
      BY <2>0, <2>1, <2>2, CollectsOneMore
    <3> QED BY <2>2, <3>1
  <2>4. (f[P] \o Small(b % 16)) \o Small(b \div 16) = f[P] \o (Small(b % 16) \o Small(b \div 16))
    <3> DEFINE x == f[P]
               y == Small(b % 16)
               z == Small(b \div 16)
    <3>1. x \in Seq(Int) /\ y \in Seq(Int) /\ z \in Seq(Int)
      <4>1. b % 16 \in Nat /\ b \div 16 \in Nat
        BY <1>9, SMT DEF Byte
      <4> QED BY <1>6, <1>8, <4>1, SmallFits DEF Matches
    <3> HIDE DEF x, y, z
    <3>2. (x \o y) \o z = x \o (y \o z)
      BY <3>1, ConcatAssociative
    <3> QED BY <3>2 DEF x, y, z
  <2> QED BY <1>10, <1>11, <2>1, <2>3, <2>4 DEF s
<1>14. Matches(f[P] \o w)'
  <2> DEFINE q == f[P]
  <2>1. /\ w \in Seq(Int) /\ Begins(v, w) /\ (ctr + Len(v) < N => Len(v) = Len(w))
    <3>1. ctr < N
      BY <1>1
    <3> QED BY <1>8, <1>9, <1>11, <1>12, <3>1, BothHalves
  <2>2. v \in Seq(Int) /\ ctr + Len(v) <= N
    <3>1. v \in Seq(-eta .. eta) /\ ctr + Len(v) <= N
      BY <1>1, <1>8, <1>9, <1>12, EtaValuesFit
    <3>2. -eta .. eta \subseteq Int
      BY SMT
    <3> QED BY <3>1, <3>2, SeqMonotonic
  <2>3. Matches(q) /\ Write(v) /\ ctr < N
    BY <1>1, <1>6, <1>12
  <2> HIDE DEF q
  <2>4. Matches(q \o w)'
    BY <2>1, <2>2, <2>3, WriteMatches
  <2> QED BY <2>4 DEF q
<1>15. CandidatesOf(Current)' = CandidatesOf(Current)
  BY <1>2 DEF CandidatesOf, Current
<1>16. Follows(P + 2)'
  BY <1>13, <1>14, <1>15 DEF Follows
<1>17. Stands(P + 2)'
  <2>1. P + 2 = 2 * (B + (pos + 1))
    BY <1>5, <1>8, SMT
  <2>2. Current' = Current
    BY <1>2 DEF Current
  <2> QED BY <1>2, <1>4, <1>5, <2>1, <2>2 DEF Stands
<1>18. P + 2 \in Nat
  OBVIOUS
<1> QED BY <1>16, <1>17, <1>18 DEF Reading

(* One more block: the buffer goes on where the one before ended.          *)
LEMMA ReadingSqueezes ==
  ASSUME SInv, Reading, Squeeze
  PROVE  Reading'
<1>1. /\ pc = "reject" /\ pos' = 0 /\ from' = (from + size) % Period /\ opened' = opened
      /\ pc' = pc /\ eta' = eta /\ tapes' = tapes /\ ctr' = ctr /\ a' = a
      /\ IF Current.xof = 128 THEN ~(pos + 3 <= size) /\ size' = Block128
                              ELSE ~(pos < size) /\ size' = Block256
  BY DEF Squeeze, RejUniformGoesOn, RejEtaGoesOn
<1>2. PICK P \in Nat : Stands(P) /\ Follows(P)
  BY <1>1 DEF Reading
<1>3. PICK B \in Nat :
        /\ from = B % Period
        /\ IF Current.xof = 128
           THEN B + pos = 3 * P /\ \E m \in Nat : size = pos + 3 * m
           ELSE P = 2 * (B + pos)
  BY <1>2 DEF Stands
<1>4. pos \in Nat /\ size \in Nat /\ pos <= size
  BY SMT DEF SInv, Buffered
<1>5. pos = size
  <2>1. CASE Current.xof = 128
    <3>1. PICK m \in Nat : size = pos + 3 * m
      BY <1>3, <2>1
    <3>2. ~(pos + 3 <= size)
      BY <1>1, <2>1
    <3> QED BY <1>4, <3>1, <3>2, SMT
  <2>2. CASE ~(Current.xof = 128)
    <3>1. ~(pos < size)
      BY <1>1, <2>2
    <3> QED BY <1>4, <3>1, SMT
  <2> QED BY <2>1, <2>2
<1>6. from' = (B + size) % Period /\ B + size \in Nat
  BY <1>1, <1>3, <1>4, Onwards, SMT
<1>7. Current' = Current /\ CandidatesOf(Current)' = CandidatesOf(Current)
  BY <1>1 DEF CandidatesOf, Current
<1>8. Follows(P)'
  BY <1>1, <1>2, <1>7 DEF Follows, Matches
<1>9. Stands(P)'
  <2>1. (B + size) + 0 = B + pos
    BY <1>4, <1>5, SMT
  <2>2. ASSUME Current.xof = 128 PROVE \E m \in Nat : size' = 0 + 3 * m
    <3>1. size' = Block128 /\ Block128 \in Nat /\ Block128 % 3 = 0
      BY <1>1, <2>2, SamplingAssumption
    <3> QED BY <3>1, SMT
  <2> QED BY <1>1, <1>3, <1>6, <1>7, <2>1, <2>2 DEF Stands
<1> QED BY <1>8, <1>9 DEF Reading

(* Where the polynomial is full, it is the first N acceptable candidates.  *)
LEMMA FullMeansFirst ==
  ASSUME SInv, Reading, pc = "reject", ctr >= N
  PROVE  /\ Promise!Useful(CandidatesOf(Current))
         /\ Promise!FirstAccepted(CandidatesOf(Current)) = [n \in 1 .. N |-> a[n - 1]]
<1>1. PICK P \in Nat : Stands(P) /\ Follows(P)
  BY DEF Reading
<1>2. PICK f : Collects(CandidatesOf(Current), f, P) /\ Matches(f[P])
  BY <1>1 DEF Follows
<1>3. Cycle(CandidatesOf(Current))
  BY ATape DEF ATapeIsRead
<1>4. ctr = N
  BY Counts, SMT DEF SInv, Written
<1>5. Len(f[P]) >= N /\ \A n \in 0 .. N - 1 : a[n] = f[P][n + 1]
  BY <1>2, <1>4, LenProperties, Counts, SMT DEF Matches
<1>6. \A n \in 1 .. N : a[n - 1] = f[P][n]
  <2>1. \A n \in 1 .. N : n - 1 \in 0 .. N - 1 /\ (n - 1) + 1 = n
    BY Counts, SMT
  <2> QED BY <1>5, <2>1
<1>7. /\ Promise!Useful(CandidatesOf(Current))
      /\ Promise!FirstAccepted(CandidatesOf(Current)) = [n \in 1 .. N |-> f[P][n]]
  BY <1>2, <1>3, <1>5, FirstOnes
<1> QED BY <1>6, <1>7

(* Reading is kept: outside the loops it says nothing.                     *)
LEMMA ReadingKeeps == SInv /\ Reading /\ [Next]_vars => Reading'
<1>1. ASSUME SInv, Reading, Filled PROVE Reading'
  <2>1. pc' = "open"
    BY <1>1 DEF Filled
  <2> QED BY <2>1 DEF Reading
<1>2. ASSUME SInv, Reading, UNCHANGED vars PROVE Reading'
  <2>1. /\ Current' = Current /\ CandidatesOf(Current)' = CandidatesOf(Current) /\ pc' = pc
        /\ ctr' = ctr /\ a' = a /\ from' = from /\ size' = size /\ pos' = pos
    BY <1>2 DEF CandidatesOf, Current, vars
  <2>2. \A q : Matches(q) => Matches(q)'
    BY <2>1 DEF Matches
  <2>3. \A P : Follows(P) => Follows(P)'
    BY <2>1, <2>2 DEF Follows
  <2>4. \A P : Stands(P) => Stands(P)'
    BY <2>1 DEF Stands
  <2> QED BY <1>2, <2>1, <2>3, <2>4 DEF Reading
<1> QED BY <1>1, <1>2, ReadingOpens, ReadingUniform, ReadingEta, ReadingSqueezes DEF Next

(* The streams of the promise: those of Work.                              *)
StreamsOfPromise ==
  [n \in 1 .. (IF call = "Keypair" THEN Len(Work) ELSE 0) |-> CandidatesOf(Work[n])]

(* The polynomial that is filled is the one the promise makes next.        *)
LEMMA FilledIsPromised ==
  ASSUME SInv, Reading, call = "Keypair", call' = call, Filled
  PROVE  Promise!Sample
<1>1. /\ pc = "reject" /\ ctr >= N /\ polys' = Append(polys, [n \in 1 .. N |-> a[n - 1]])
      /\ eta' = eta /\ tapes' = tapes
  BY DEF Filled
<1>2. /\ Len(opened) = Len(polys) + 1 /\ Len(opened) <= Len(Work) /\ Len(polys) \in Nat
      /\ Len(Work) \in Nat
  BY <1>1, WorkOrder, LenProperties DEF SInv, InOrder
<1> DEFINE p == Len(polys) + 1
           s == StreamsOfPromise
<1>3. p \in DOMAIN s /\ s[p] = CandidatesOf(Current)
  <2>1. p \in 1 .. Len(Work)
    BY <1>2, SMT
  <2>2. Current = Work[p]
    BY <1>2 DEF Current
  <2> QED BY <2>1, <2>2 DEF StreamsOfPromise
<1>4. Promise!Useful(s[p]) /\ polys' = Append(polys, Promise!FirstAccepted(s[p]))
  <2>1. /\ Promise!Useful(CandidatesOf(Current))
        /\ Promise!FirstAccepted(CandidatesOf(Current)) = [n \in 1 .. N |-> a[n - 1]]
    BY <1>1, FullMeansFirst
  <2> QED BY <1>1, <1>3, <2>1
<1>5. s' = s
  BY <1>1 DEF StreamsOfPromise, CandidatesOf
<1> QED BY <1>3, <1>4, <1>5 DEF Promise!Sample, StreamsOfPromise

(* Whatever the streams hold, and wherever blocks end, the polynomials of  *)
(* a key are the first N acceptable candidates of their streams, in order, *)
(* with none left out and none used twice, and a polynomial is finished    *)
(* only if there are any: the safety half of ImplementsExpansion           *)
(* (poly.go:122-220).                                                      *)
THEOREM FirstAcceptableOnes == SamplersSpec => Promise!Safe
<1>1. SamplersInit => Promise!Init /\ Reading
  <2> SUFFICES ASSUME SamplersInit PROVE Promise!Init /\ Reading
    OBVIOUS
  <2>1. polys = <<>> /\ pc = "open"
    BY DEF SamplersInit, Init
  <2> QED BY <2>1 DEF Promise!Init, Reading
<1>2. SInv /\ [SamplersNext]_all => [Next]_vars
  BY DEF SamplersNext, all
<1>3. SInv /\ Reading /\ [SamplersNext]_all
        => [Promise!Sample]_<<StreamsOfPromise, polys>>
  <2> SUFFICES ASSUME SInv, Reading, [SamplersNext]_all
               PROVE  Promise!Sample \/ (StreamsOfPromise' = StreamsOfPromise /\ polys' = polys)
    OBVIOUS
  <2>1. CASE call = "Keypair" /\ call' = call /\ Filled
    BY <2>1, FilledIsPromised
  <2>2. CASE polys' = polys /\ eta' = eta /\ tapes' = tapes /\ call' = call
    BY <2>2 DEF StreamsOfPromise, CandidatesOf
  <2>3. \/ call = "Keypair" /\ call' = call /\ Filled
        \/ polys' = polys /\ eta' = eta /\ tapes' = tapes /\ call' = call
    BY DEF SamplersNext, all, vars, Next, Open, RejUniform, RejEta, Squeeze, Read
  <2> QED BY <2>1, <2>2, <2>3
<1> QED BY <1>1, <1>2, <1>3, SamplersKeep, ReadingKeeps, PTL
      DEF SamplersSpec, Promise!Safe, StreamsOfPromise

-----------------------------------------------------------------------------
(* Counting.                                                               *)

(* g has the factorials up to n.                                           *)
IsFactorial(g, n) == g = [m \in 0 .. n |-> IF m = 0 THEN 1 ELSE m * g[m - 1]]

(* There are such functions, and they agree where both are defined.        *)
LEMMA FactorialsExist == \A n \in Nat : \E g : IsFactorial(g, n)
<1> DEFINE S == {n \in Nat : \E g : IsFactorial(g, n)}
<1>1. 0 \in S
  <2> DEFINE g == [m \in 0 .. 0 |-> 1]
  <2>1. g = [m \in 0 .. 0 |-> IF m = 0 THEN 1 ELSE m * g[m - 1]]
    OBVIOUS
  <2> QED BY <2>1 DEF IsFactorial
<1>2. ASSUME NEW n \in S PROVE n + 1 \in S
  <2>1. PICK g : IsFactorial(g, n)
    OBVIOUS
  <2>2. \A m \in 0 .. n : g[m] = IF m = 0 THEN 1 ELSE m * g[m - 1]
    BY <2>1 DEF IsFactorial
  <2> DEFINE h == [m \in 0 .. n + 1 |-> IF m = n + 1 THEN (n + 1) * g[n] ELSE g[m]]
  <2>3. \A m \in 0 .. n + 1 : h[m] = IF m = 0 THEN 1 ELSE m * h[m - 1]
    <3> SUFFICES ASSUME NEW m \in 0 .. n + 1
                 PROVE  h[m] = IF m = 0 THEN 1 ELSE m * h[m - 1]
      OBVIOUS
    <3>1. CASE m = n + 1
      <4>1. m - 1 = n /\ n \in 0 .. n + 1 /\ n # n + 1 /\ m # 0
        BY <3>1, SMT
      <4> QED BY <3>1, <4>1
    <3>2. CASE m # n + 1
      <4>1. m \in 0 .. n /\ (m # 0 => (m - 1 \in 0 .. n + 1 /\ m - 1 # n + 1))
        BY <3>2, SMT
      <4> QED BY <2>2, <3>2, <4>1
    <3> QED BY <3>1, <3>2
  <2>4. h = [m \in 0 .. n + 1 |-> h[m]]
    OBVIOUS
  <2> HIDE DEF h
  <2>5. IsFactorial(h, n + 1)
    BY <2>3, <2>4 DEF IsFactorial
  <2> QED BY <2>5
<1>3. S = Nat
  <2> HIDE DEF S
  <2>1. S \subseteq Nat
    BY DEF S
  <2> QED BY <1>1, <1>2, <2>1, Induction
<1> QED BY <1>3

(* Factorial is the factorial.                                             *)
LEMMA FactorialStep ==
  /\ Factorial[0] = 1
  /\ \A n \in Nat : Factorial[n + 1] = (n + 1) * Factorial[n] /\ Factorial[n] \in Nat
<1> DEFINE upTo(m) == CHOOSE g : IsFactorial(g, m)
           F == [n \in Nat |-> upTo(n)[n]]
<1>1. \A m \in Nat : IsFactorial(upTo(m), m)
  BY FactorialsExist
<1> HIDE DEF upTo
<1>2. \A m \in Nat : \A d \in 0 .. m : upTo(m)[d] = IF d = 0 THEN 1 ELSE d * upTo(m)[d - 1]
  BY <1>1 DEF IsFactorial
<1>3. ASSUME NEW n \in Nat PROVE upTo(n)[n] = upTo(n + 1)[n]
  <2> DEFINE S == {d \in Nat : d <= n => upTo(n)[d] = upTo(n + 1)[d]}
  <2>1. 0 \in S
    BY <1>2
  <2>2. ASSUME NEW d \in S PROVE d + 1 \in S
    <3> SUFFICES ASSUME d + 1 <= n PROVE upTo(n)[d + 1] = upTo(n + 1)[d + 1]
      OBVIOUS
    <3>1. d + 1 \in 0 .. n /\ d + 1 \in 0 .. n + 1 /\ d + 1 # 0 /\ (d + 1) - 1 = d
          /\ n \in Nat /\ n + 1 \in Nat /\ upTo(n)[d] = upTo(n + 1)[d]
      OBVIOUS
    <3> QED BY <1>2, <3>1
  <2>3. S = Nat
    <3> HIDE DEF S
    <3>1. S \subseteq Nat
      BY DEF S
    <3> QED BY <2>1, <2>2, <3>1, Induction
  <2> QED BY <2>3
<1>4. F = [n \in Nat |-> IF n = 0 THEN 1 ELSE n * F[n - 1]]
  <2>1. \A n \in Nat : upTo(n)[n] = IF n = 0 THEN 1 ELSE n * upTo(n - 1)[n - 1]
    <3> SUFFICES ASSUME NEW n \in Nat
                 PROVE  upTo(n)[n] = IF n = 0 THEN 1 ELSE n * upTo(n - 1)[n - 1]
      OBVIOUS
    <3>1. n \in 0 .. n /\ (n # 0 => (n - 1 \in Nat /\ (n - 1) + 1 = n))
      OBVIOUS
    <3>2. upTo(n)[n] = IF n = 0 THEN 1 ELSE n * upTo(n)[n - 1]
      BY <1>2, <3>1
    <3>3. n # 0 => upTo(n - 1)[n - 1] = upTo(n)[n - 1]
      BY <1>3, <3>1
    <3> QED BY <3>2, <3>3
  <2>2. \A n \in Nat : n # 0 => F[n - 1] = upTo(n - 1)[n - 1]
    OBVIOUS
  <2> QED BY <2>1, <2>2
<1>5. Factorial = [n \in Nat |-> IF n = 0 THEN 1 ELSE n * Factorial[n - 1]]
  <2> DEFINE P(g) == g = [n \in Nat |-> IF n = 0 THEN 1 ELSE n * g[n - 1]]
  <2>1. P(F)
    BY <1>4
  <2> HIDE DEF F
  <2>2. P(CHOOSE g : P(g))
    BY <2>1
  <2> QED BY <2>2 DEF Factorial
<1> HIDE DEF F
<1>6. \A n \in Nat : Factorial[n] = IF n = 0 THEN 1 ELSE n * Factorial[n - 1]
  BY <1>5
<1> HIDE <1>5
<1>7. Factorial[0] = 1
  BY <1>6
<1>8. ASSUME NEW n \in Nat PROVE Factorial[n + 1] = (n + 1) * Factorial[n]
  <2>1. n + 1 \in Nat /\ n + 1 # 0 /\ (n + 1) - 1 = n
    OBVIOUS
  <2> QED BY <1>6, <2>1
<1> DEFINE S == {n \in Nat : Factorial[n] \in Nat}
<1>9. 0 \in S
  BY <1>7
<1>10. ASSUME NEW n \in S PROVE n + 1 \in S
  <2>1. n \in Nat /\ Factorial[n] \in Nat
    OBVIOUS
  <2>2. n + 1 \in Nat /\ (n + 1) * Factorial[n] \in Nat
    BY <2>1, SMT
  <2> QED BY <1>8, <2>1, <2>2
<1>11. S = Nat
  <2> HIDE DEF S
  <2>1. S \subseteq Nat
    BY DEF S
  <2> QED BY <1>9, <1>10, <2>1, Induction
<1> QED BY <1>7, <1>8, <1>11

(* One more of the same.                                                   *)
LEMMA OneMore ==
  ASSUME NEW m \in Nat, NEW k \in Nat
  PROVE  m * k \in Nat /\ (m + 1) * k = m * k + k
BY SMT

(* Finite sets of the same size, no two of which meet, and their union.    *)
LEMMA UnionCount ==
  ASSUME NEW B, IsFiniteSet(B), NEW X, NEW k \in Nat,
         \A b \in B : IsFiniteSet(X[b]) /\ Cardinality(X[b]) = k,
         \A b, d \in B : b # d => X[b] \cap X[d] = {}
  PROVE  /\ IsFiniteSet(UNION {X[b] : b \in B})
         /\ Cardinality(UNION {X[b] : b \in B}) = Cardinality(B) * k
<1> DEFINE All(D) == UNION {X[b] : b \in D}
           Counted(D) == IsFiniteSet(All(D)) /\ Cardinality(All(D)) = Cardinality(D) * k
           S == {m \in Nat : \A D \in SUBSET B : Cardinality(D) = m => Counted(D)}
<1>0. \A D \in SUBSET B : IsFiniteSet(D) /\ Cardinality(D) \in Nat
  BY FS_Subset, FS_CardinalityType
<1>1. 0 \in S
  <2> SUFFICES ASSUME NEW D \in SUBSET B, Cardinality(D) = 0 PROVE Counted(D)
    OBVIOUS
  <2>1. D = {}
    BY <1>0, FS_EmptySet
  <2>2. All(D) = {}
    BY <2>1
  <2>3. 0 * k = 0
    BY SMT
  <2> QED BY <2>2, <2>3, FS_EmptySet
<1>2. ASSUME NEW m \in S PROVE m + 1 \in S
  <2> SUFFICES ASSUME NEW D \in SUBSET B, Cardinality(D) = m + 1 PROVE Counted(D)
    <3>1. m + 1 \in Nat
      OBVIOUS
    <3> HIDE DEF Counted
    <3> QED BY <3>1
  <2>1. m \in Nat /\ \A E \in SUBSET B : Cardinality(E) = m => Counted(E)
    OBVIOUS
  <2>2. D # {}
    <3>1. m + 1 # 0
      BY <2>1, SMT
    <3> QED BY <3>1, FS_EmptySet
  <2>3. PICK x \in D : TRUE
    BY <2>2
  <2> DEFINE E == D \ {x}
  <2>4. E \in SUBSET B /\ D = E \cup {x} /\ x \notin E /\ x \in B
    BY <2>3
  <2>5. Cardinality(E) = m
    <3>1. Cardinality(E) = Cardinality(D) - 1
      BY <1>0, <2>3, FS_RemoveElement
    <3> QED BY <2>1, <3>1, SMT
  <2>6. Counted(E)
    BY <2>1, <2>4, <2>5
  <2>7. All(D) = All(E) \cup X[x] /\ All(E) \cap X[x] = {}
    <3>1. All(D) = All(E) \cup X[x]
      BY <2>4
    <3>2. \A b \in E : X[b] \cap X[x] = {}
      BY <2>4
    <3> QED BY <3>1, <3>2
  <2> HIDE DEF E, All
  <2>8. IsFiniteSet(X[x]) /\ Cardinality(X[x]) = k
    BY <2>4
  <2>9. /\ IsFiniteSet(All(D))
        /\ Cardinality(All(D)) = Cardinality(All(E)) + Cardinality(X[x]) - Cardinality({})
    <3>1. /\ IsFiniteSet(All(E) \cup X[x])
          /\ Cardinality(All(E) \cup X[x])
               = Cardinality(All(E)) + Cardinality(X[x]) - Cardinality(All(E) \cap X[x])
      BY <2>6, <2>8, FS_Union
    <3> QED BY <2>7, <3>1
  <2>10. m * k \in Nat /\ (m + 1) * k = m * k + k
    <3>1. m \in Nat
      OBVIOUS
    <3> HIDE DEF S, Counted
    <3> QED BY <3>1, OneMore
  <2>11. Cardinality(All(E)) = m * k
    BY <2>5, <2>6
  <2>12. Cardinality(All(D)) = m * k + k - 0
    BY <2>8, <2>9, <2>11, FS_EmptySet
  <2>13. m * k + k - 0 = m * k + k
    BY <2>10
  <2> QED BY <2>9, <2>10, <2>12, <2>13
<1>3. S = Nat
  <2> HIDE DEF S
  <2>1. S \subseteq Nat
    BY DEF S
  <2> QED BY <1>1, <1>2, <2>1, Induction
<1>4. Cardinality(B) \in S
  BY <1>0, <1>3
<1> QED BY <1>4

-----------------------------------------------------------------------------
(* The rounds of a choice.                                                 *)

First == Size - Tau

Zero == [n \in Index |-> 0]

(* g has the polynomials before the rounds up to `last` of the choice f.   *)
IsAfter(g, f, last) ==
  g = [at \in First .. last |->
         IF at = First THEN Zero
         ELSE Place(g[at - 1], at - 1, f[at - 1][1], f[at - 1][2])]

After(f) == CHOOSE g : IsAfter(g, f, Size)

(* The rounds follow one another, and their outcome is Outcome.            *)
LEMMA AfterStep ==
  ASSUME NEW f
  PROVE  /\ Outcome(f) = After(f)[Size] /\ After(f)[First] = Zero
         /\ \A at \in First .. Size - 1 :
              After(f)[at + 1] = Place(After(f)[at], at, f[at][1], f[at][2])
<1> DEFINE S == {n \in Nat : \E g : IsAfter(g, f, First + n)}
<1>0. First \in Int /\ First + 0 = First /\ First + Tau = Size /\ Tau \in Nat
      /\ Size \in Int /\ First <= Size
  BY Bounds, SMT DEF First
<1>1. 0 \in S
  <2> DEFINE g == [at \in First .. First |-> Zero]
  <2>1. g = [at \in First .. First |->
               IF at = First THEN Zero
               ELSE Place(g[at - 1], at - 1, f[at - 1][1], f[at - 1][2])]
    <3>1. \A at \in First .. First : at = First
      BY <1>0, SMT
    <3> QED BY <3>1
  <2> QED BY <1>0, <2>1 DEF IsAfter
<1>2. ASSUME NEW n \in S PROVE n + 1 \in S
  <2>1. PICK g : IsAfter(g, f, First + n)
    OBVIOUS
  <2> DEFINE l == First + n
             h == [at \in First .. l + 1 |->
                     IF at = l + 1 THEN Place(g[l], l, f[l][1], f[l][2]) ELSE g[at]]
  <2>2. \A at \in First .. l :
          g[at] = IF at = First THEN Zero
                  ELSE Place(g[at - 1], at - 1, f[at - 1][1], f[at - 1][2])
    BY <2>1 DEF IsAfter
  <2>3. l \in Int /\ First <= l /\ l + 1 = First + (n + 1)
    BY <1>0, SMT
  <2> HIDE DEF l
  <2>4. \A at \in First .. l + 1 :
          h[at] = IF at = First THEN Zero
                  ELSE Place(h[at - 1], at - 1, f[at - 1][1], f[at - 1][2])
    <3> SUFFICES ASSUME NEW at \in First .. l + 1
                 PROVE  h[at] = IF at = First THEN Zero
                                ELSE Place(h[at - 1], at - 1, f[at - 1][1], f[at - 1][2])
      OBVIOUS
    <3>1. CASE at = l + 1
      <4>1. at - 1 = l /\ l \in First .. l + 1 /\ l # l + 1 /\ at # First
        BY <1>0, <2>3, <3>1, SMT
      <4> QED BY <3>1, <4>1
    <3>2. CASE at # l + 1
      <4>1. /\ at \in First .. l
            /\ at # First => (at - 1 \in First .. l + 1 /\ at - 1 # l + 1)
        BY <1>0, <2>3, <3>2, SMT
      <4>2. h[at] = g[at] /\ (at # First => h[at - 1] = g[at - 1])
        BY <3>2, <4>1
      <4> QED BY <2>2, <4>1, <4>2
    <3> QED BY <3>1, <3>2
  <2>5. h = [at \in First .. l + 1 |-> h[at]]
    OBVIOUS
  <2> HIDE DEF h
  <2>6. IsAfter(h, f, l + 1)
    BY <2>4, <2>5 DEF IsAfter
  <2>7. n + 1 \in Nat
    BY SMT
  <2> QED BY <2>3, <2>6, <2>7
<1>3. S = Nat
  <2> HIDE DEF S
  <2>1. S \subseteq Nat
    BY DEF S
  <2> QED BY <1>1, <1>2, <2>1, Induction
<1>4. IsAfter(After(f), f, Size)
  <2>1. \E g : IsAfter(g, f, First + Tau)
    BY <1>0, <1>3
  <2> QED BY <1>0, <2>1 DEF After
<1>5. \A at \in First .. Size :
        After(f)[at] = IF at = First THEN Zero
                       ELSE Place(After(f)[at - 1], at - 1, f[at - 1][1], f[at - 1][2])
  BY <1>4 DEF IsAfter
<1>6. After(f)[First] = Zero
  <2>1. First \in First .. Size
    BY <1>0, SMT
  <2> QED BY <1>5, <2>1
<1>7. ASSUME NEW at \in First .. Size - 1
      PROVE  After(f)[at + 1] = Place(After(f)[at], at, f[at][1], f[at][2])
  <2>1. at + 1 \in First .. Size /\ at + 1 # First /\ (at + 1) - 1 = at
    BY <1>0, SMT
  <2> QED BY <1>5, <2>1
<1>8. Outcome(f) = After(f)[Size]
  BY DEF Outcome, After, IsAfter, First, Zero
<1> QED BY <1>6, <1>7, <1>8

-----------------------------------------------------------------------------
(* Choices that leave the later rounds open.                               *)

Rounds == First .. Size - 1

(* The choices for the first n rounds; the others are held at one value.   *)
Chosen(n) ==
  {f \in [Rounds -> Index \X {0, 1}] :
     \A at \in Rounds :
       IF at < First + n THEN Accepts(f[at][1], at) ELSE f[at] = <<0, 0>>}

(* The polynomials that n rounds can make.                                 *)
Shape(v, n) ==
  /\ v \in [Index -> {-1, 0, 1}] /\ NonZeroOf(v) \subseteq 0 .. First + n - 1
  /\ IsFiniteSet(NonZeroOf(v)) /\ Cardinality(NonZeroOf(v)) = n

(* The choices for n rounds that make v.                                   *)
Ways(n, v) == {f \in Chosen(n) : After(f)[First + n] = v}

(* The rounds and their number.                                            *)
LEMMA RoundOf ==
  /\ First \in Nat /\ Size \in Nat /\ Tau \in Nat /\ 1 <= Tau /\ First + Tau = Size
  /\ \A n \in 0 .. Tau - 1 :
       /\ n \in Nat /\ First + n \in Rounds /\ First + n \in Index
       /\ First + (n + 1) = (First + n) + 1
  /\ \A at \in Rounds : at \in Index /\ at \in Nat /\ at < Size
BY Bounds, SMT DEF First, Rounds

(* What the first rounds make does not depend on the later ones.           *)
LEMMA AfterAgrees ==
  ASSUME NEW f, NEW g, NEW n \in 0 .. Tau,
         \A at \in Rounds : at < First + n => f[at] = g[at]
  PROVE  After(f)[First + n] = After(g)[First + n]
<1> DEFINE S == {m \in Nat : m <= n => After(f)[First + m] = After(g)[First + m]}
<1>1. 0 \in S
  <2>1. First + 0 = First
    BY RoundOf, SMT
  <2> QED BY <2>1, AfterStep
<1>2. ASSUME NEW m \in S PROVE m + 1 \in S
  <2> SUFFICES ASSUME m + 1 <= n PROVE After(f)[First + (m + 1)] = After(g)[First + (m + 1)]
    OBVIOUS
  <2>1. /\ m \in 0 .. Tau - 1 /\ m < n /\ First + m < First + n
        /\ After(f)[First + m] = After(g)[First + m]
    BY RoundOf, SMT
  <2>2. f[First + m] = g[First + m] /\ First + m \in First .. Size - 1
    BY <2>1, RoundOf DEF Rounds
  <2>3. First + (m + 1) = (First + m) + 1
    BY <2>1, RoundOf
  <2> QED BY <2>1, <2>2, <2>3, AfterStep
<1>3. S = Nat
  <2> HIDE DEF S
  <2>1. S \subseteq Nat
    BY DEF S
  <2> QED BY <1>1, <1>2, <2>1, Induction
<1>4. n \in S /\ n <= n
  BY <1>3, SMT
<1> QED BY <1>4

(* The rounds done leave the later coefficients zero.                      *)
LEMMA AfterBelow ==
  ASSUME NEW n \in 0 .. Tau, NEW f \in Chosen(n)
  PROVE  /\ After(f)[First + n] \in [Index -> {-1, 0, 1}]
         /\ NonZeroOf(After(f)[First + n]) \subseteq 0 .. First + n - 1
<1> DEFINE Low(p, m) == p \in [Index -> {-1, 0, 1}] /\ NonZeroOf(p) \subseteq 0 .. First + m - 1
           S == {m \in Nat : m <= n => Low(After(f)[First + m], m)}
<1>0. n \in Nat /\ n <= Tau
  BY RoundOf, SMT
<1>1. 0 \in S
  <2>1. First + 0 = First
    BY RoundOf, SMT
  <2>2. Zero \in [Index -> {-1, 0, 1}] /\ NonZeroOf(Zero) = {}
    BY DEF Zero, NonZeroOf
  <2> QED BY <2>1, <2>2, AfterStep
<1>2. ASSUME NEW m \in S PROVE m + 1 \in S
  <2> SUFFICES ASSUME m + 1 <= n PROVE Low(After(f)[First + (m + 1)], m + 1)
    OBVIOUS
  <2>1. m \in 0 .. Tau - 1 /\ First + m < First + n /\ m <= n
    BY <1>0, RoundOf, SMT
  <2> DEFINE at == First + m
             p == After(f)[at]
             q == After(f)[at + 1]
  <2>2. Low(p, m)
    BY <2>1
  <2>3. at \in Rounds /\ at \in Index /\ First + (m + 1) = at + 1 /\ at \in Nat
        /\ First + m - 1 = at - 1 /\ First + (m + 1) - 1 = at
    <3>1. at \in Rounds /\ at \in Index /\ First + (m + 1) = at + 1 /\ at \in Nat
      BY <2>1, RoundOf
    <3>2. First + m - 1 = First + (m - 1) /\ First + (m + 1) - 1 = First + (m + 1 - 1)
      OBVIOUS
    <3> QED BY <2>1, <3>1, RoundOf, SMT
  <2>4. f[at] \in Index \X {0, 1} /\ f[at][1] <= at
    BY <2>1, <2>3 DEF Chosen, Accepts
  <2>5. q = Place(p, at, f[at][1], f[at][2])
    BY <2>3, AfterStep DEF Rounds
  <2> HIDE DEF at
  <2>6. AddsOne(p, q, at)
    <3>1. f[at][1] \in Index /\ f[at][2] \in Nat
      BY <2>4
    <3> HIDE DEF p, q
    <3>2. p \in [Index -> {-1, 0, 1}] /\ NonZeroOf(p) \subseteq 0 .. at - 1
      BY <2>2, <2>3
    <3> QED BY <2>3, <2>4, <2>5, <3>1, <3>2, PlaceAddsOne
  <2>7. Low(q, m + 1)
    <3> HIDE DEF p, q
    <3>1. PICK x \in 0 .. at : NonZeroOf(q) = NonZeroOf(p) \cup {x}
      BY <2>6 DEF AddsOne
    <3>2. NonZeroOf(p) \subseteq 0 .. at - 1 /\ 0 .. at - 1 \subseteq 0 .. at
      BY <2>2, <2>3, SMT
    <3>3. q \in [Index -> {-1, 0, 1}]
      BY <2>6 DEF AddsOne
    <3> QED BY <2>3, <3>1, <3>2, <3>3
  <2> QED BY <2>3, <2>7
<1>3. S = Nat
  <2> HIDE DEF S
  <2>1. S \subseteq Nat
    BY DEF S
  <2> QED BY <1>1, <1>2, <2>1, Induction
<1>4. n \in S /\ n <= n
  BY <1>0, <1>3, SMT
<1> QED BY <1>4

(* The place of the next round is still zero.                              *)
LEMMA PlaceIsFree ==
  ASSUME NEW n \in 0 .. Tau - 1, NEW m \in {n, n + 1}, NEW f \in Chosen(m)
  PROVE  LET p == After(f)[First + n] IN p \in [Index -> {-1, 0, 1}] /\ p[First + n] = 0
<1> DEFINE at == First + n
           p == After(f)[at]
           g == [r \in Rounds |-> IF r < at THEN f[r] ELSE <<0, 0>>]
<1>1. /\ n \in Nat /\ at \in Index /\ at \in Rounds /\ n \in 0 .. Tau /\ 0 \in Index
      /\ First + n - 1 = at - 1 /\ at \in Nat /\ at < First + (n + 1)
  <2>1. n \in 0 .. Tau
    BY RoundOf, SMT
  <2>2. n \in Nat /\ at \in Index /\ at \in Rounds
    BY RoundOf
  <2>3. at \in Nat
    BY <2>2, RoundOf
  <2>4. 0 \in Index
    BY Bounds, SMT DEF Index
  <2> QED BY <2>1, <2>2, <2>3, <2>4, RoundOf, SMT
<1>2. g \in Chosen(n)
  <2>1. f \in [Rounds -> Index \X {0, 1}]
    BY DEF Chosen
  <2>2. \A r \in Rounds : r < at => (r < First + n /\ r < First + (n + 1))
    BY <1>1, RoundOf, SMT
  <2>3. \A r \in Rounds : r < at => Accepts(f[r][1], r)
    BY <2>2 DEF Chosen
  <2>4. g \in [Rounds -> Index \X {0, 1}]
    BY <1>1, <2>1
  <2>5. \A r \in Rounds : IF r < at THEN Accepts(g[r][1], r) ELSE g[r] = <<0, 0>>
    BY <2>3
  <2> HIDE DEF g
  <2> QED BY <2>4, <2>5 DEF Chosen
<1>3. \A r \in Rounds : r < First + n => g[r] = f[r]
  OBVIOUS
<1> HIDE DEF g
<1>4. After(g)[First + n] = After(f)[First + n]
  BY <1>1, <1>3, AfterAgrees
<1>5. p \in [Index -> {-1, 0, 1}] /\ NonZeroOf(p) \subseteq 0 .. at - 1
  BY <1>1, <1>2, <1>4, AfterBelow
<1>6. at \notin 0 .. at - 1
  BY <1>1, SMT
<1> QED BY <1>1, <1>5, <1>6 DEF NonZeroOf

(* What the coefficients were before the round that took place b.          *)
Undone(v, at, b) == [v EXCEPT ![b] = v[at], ![at] = 0]

(* The bit of the sign at b.                                               *)
SignBit(v, b) == IF v[b] = 1 THEN 0 ELSE 1

(* A round can be undone from its place: the place is one of the signs,    *)
(* and it determines the bit and the polynomial before.                    *)
LEMMA RoundUndone ==
  ASSUME NEW at \in Index, NEW b \in Index, b <= at, NEW bits \in {0, 1},
         NEW p \in [Index -> {-1, 0, 1}], p[at] = 0, NEW v, v = Place(p, at, b, bits)
  PROVE  b \in NonZeroOf(v) /\ bits = SignBit(v, b) /\ p = Undone(v, at, b)
<1>1. Sign(bits) = IF bits = 0 THEN 1 ELSE -1
  BY SMT DEF Sign
<1>2. v = [p EXCEPT ![at] = p[b], ![b] = Sign(bits)]
  BY DEF Place
<1>3. v[b] = Sign(bits) /\ v[b] # 0
  BY <1>1, <1>2
<1>4. v \in [Index -> {-1, 0, 1}]
  BY <1>1, <1>2
<1>5. \A n \in Index : Undone(v, at, b)[n] = p[n]
  <2> SUFFICES ASSUME NEW n \in Index PROVE Undone(v, at, b)[n] = p[n]
    OBVIOUS
  <2>1. CASE n = at
    BY <1>4, <2>1 DEF Undone
  <2>2. CASE n # at /\ n = b
    BY <1>2, <1>4, <2>2 DEF Undone
  <2>3. CASE n # at /\ n # b
    BY <1>2, <1>4, <2>3 DEF Undone
  <2> QED BY <2>1, <2>2, <2>3
<1>6. Undone(v, at, b) \in [Index -> {-1, 0, 1}]
  BY <1>4 DEF Undone
<1>7. p = Undone(v, at, b)
  BY <1>5, <1>6
<1>8. bits = SignBit(v, b)
  BY <1>1, <1>3 DEF SignBit
<1> QED BY <1>3, <1>7, <1>8 DEF NonZeroOf

(* And every sign is a place: the round done again makes v.                *)
LEMMA RoundRedone ==
  ASSUME NEW n \in 0 .. Tau - 1, NEW v, Shape(v, n + 1),
         NEW b \in NonZeroOf(v)
  PROVE  LET at == First + n
         IN  /\ b \in Index /\ b <= at /\ SignBit(v, b) \in {0, 1}
             /\ Shape(Undone(v, at, b), n)
             /\ Place(Undone(v, at, b), at, b, SignBit(v, b)) = v
<1> DEFINE at == First + n
           u == Undone(v, at, b)
           s == SignBit(v, b)
<1>0. n \in Nat /\ at \in Index /\ at \in Nat /\ First + (n + 1) - 1 = at /\ First + n - 1 = at - 1
  <2>1. n \in Nat /\ at \in Index /\ at \in Rounds
    BY RoundOf
  <2>2. at \in Nat
    BY <2>1, RoundOf
  <2> QED BY <2>1, <2>2, RoundOf, SMT
<1> HIDE DEF at
<1>1. /\ v \in [Index -> {-1, 0, 1}] /\ NonZeroOf(v) \subseteq 0 .. at
      /\ IsFiniteSet(NonZeroOf(v)) /\ Cardinality(NonZeroOf(v)) = n + 1
  BY <1>0 DEF Shape
<1>2. b \in Index /\ v[b] # 0 /\ b <= at
  <2>1. b \in 0 .. at
    BY <1>1
  <2> QED BY <2>1 DEF NonZeroOf
<1>3. s \in {0, 1} /\ Sign(s) = v[b]
  <2>1. v[b] \in {-1, 1}
    BY <1>1, <1>2
  <2>2. Sign(0) = 1 /\ Sign(1) = -1
    BY SMT DEF Sign
  <2> QED BY <2>1, <2>2 DEF SignBit
<1>4. u \in [Index -> {-1, 0, 1}] /\ u[at] = 0 /\ (b # at => u[b] = v[at])
      /\ \A m \in Index : (m # at /\ m # b) => u[m] = v[m]
  BY <1>0, <1>1, <1>2 DEF Undone
<1> HIDE DEF u, s
<1>5. Place(u, at, b, s) = v
  <2> DEFINE w == Place(u, at, b, s)
  <2>1. w = [u EXCEPT ![at] = u[b], ![b] = v[b]]
    BY <1>3 DEF Place
  <2>2. \A m \in Index : w[m] = v[m]
    <3> SUFFICES ASSUME NEW m \in Index PROVE w[m] = v[m]
      OBVIOUS
    <3>1. CASE m = b
      BY <1>4, <2>1, <3>1
    <3>2. CASE m # b /\ m = at
      BY <1>4, <2>1, <3>2
    <3>3. CASE m # b /\ m # at
      BY <1>4, <2>1, <3>3
    <3> QED BY <3>1, <3>2, <3>3
  <2>3. w \in [Index -> {-1, 0, 1}]
    BY <1>1, <1>2, <1>4, <2>1
  <2> QED BY <1>1, <2>2, <2>3
<1>6. /\ NonZeroOf(u) \subseteq 0 .. at - 1 /\ IsFiniteSet(NonZeroOf(u))
      /\ Cardinality(NonZeroOf(u)) = n
  <2> DEFINE nz == NonZeroOf(v)
  <2>1. NonZeroOf(u) = (IF v[at] = 0 THEN nz \ {b} ELSE nz \ {at})
    <3>1. CASE v[at] = 0
      <4>1. b # at
        BY <1>2, <3>1
      <4> QED BY <1>0, <1>2, <1>4, <3>1, <4>1 DEF NonZeroOf
    <3>2. CASE v[at] # 0
      BY <1>0, <1>2, <1>4, <3>2 DEF NonZeroOf
    <3> QED BY <3>1, <3>2
  <2>2. (v[at] = 0 => b \in nz) /\ (v[at] # 0 => at \in nz)
    BY <1>0 DEF NonZeroOf
  <2> HIDE DEF nz
  <2>3. IsFiniteSet(nz \ {b}) /\ IsFiniteSet(nz \ {at})
        /\ (b \in nz => Cardinality(nz \ {b}) = n + 1 - 1)
        /\ (at \in nz => Cardinality(nz \ {at}) = n + 1 - 1)
    BY <1>1, FS_RemoveElement DEF nz
  <2>4. n + 1 - 1 = n
    BY <1>0, SMT
  <2>5. NonZeroOf(u) \subseteq 0 .. at - 1
    <3>1. at \notin NonZeroOf(u)
      BY <1>4 DEF NonZeroOf
    <3>2. NonZeroOf(u) \subseteq 0 .. at
      BY <1>1, <2>1 DEF nz
    <3>3. \A m \in 0 .. at : m # at => m \in 0 .. at - 1
      BY <1>0, SMT
    <3> QED BY <3>1, <3>2, <3>3
  <2> QED BY <2>1, <2>2, <2>3, <2>4, <2>5
<1>7. Shape(u, n)
  BY <1>0, <1>4, <1>6 DEF Shape
<1> QED BY <1>2, <1>3, <1>5, <1>7 DEF at, u, s

(* The choices for one round more that end at place b are as many as the   *)
(* choices for what was there before.                                      *)
LEMMA WaysOfPlace ==
  ASSUME NEW n \in 0 .. Tau - 1, NEW v, Shape(v, n + 1), NEW b \in NonZeroOf(v),
         IsFiniteSet(Ways(n, Undone(v, First + n, b)))
  PROVE  LET last == {f \in Ways(n + 1, v) : f[First + n][1] = b}
         IN  /\ IsFiniteSet(last)
             /\ Cardinality(last) = Cardinality(Ways(n, Undone(v, First + n, b)))
<1> DEFINE at == First + n
           u == Undone(v, at, b)
           s == SignBit(v, b)
           W == Ways(n, u)
           last == {f \in Ways(n + 1, v) : f[at][1] = b}
           h == [f \in W |-> [f EXCEPT ![at] = <<b, s>>]]
<1>0. /\ n \in Nat /\ at \in Rounds /\ at \in Index /\ First + (n + 1) = at + 1
      /\ at \in Int /\ n \in 0 .. Tau /\ n + 1 \in 0 .. Tau
      /\ \A r \in Rounds : r \in Int
  <2>1. n \in 0 .. Tau /\ n + 1 \in 0 .. Tau
    BY RoundOf, SMT
  <2>2. n \in Nat /\ at \in Rounds /\ at \in Index /\ First + (n + 1) = at + 1
    BY RoundOf
  <2> QED BY <2>1, <2>2, RoundOf
<1>1. b \in Index /\ b <= at /\ s \in {0, 1} /\ Shape(u, n) /\ Place(u, at, b, s) = v
  BY RoundRedone
<1>2. ASSUME NEW f \in [Rounds -> Index \X {0, 1}],
             NEW g \in [Rounds -> Index \X {0, 1}],
             \A r \in Rounds : r # at => f[r] = g[r]
      PROVE  After(f)[at] = After(g)[at]
  <2>1. \A r \in Rounds : r < at => f[r] = g[r]
    BY <1>0, <1>2, SMT
  <2> QED BY <1>0, <2>1, AfterAgrees
<1>3. ASSUME NEW f PROVE After(f)[at + 1] = Place(After(f)[at], at, f[at][1], f[at][2])
  BY <1>0, AfterStep DEF Rounds
<1>4. ASSUME NEW f \in W PROVE h[f] \in last
  <2> DEFINE g == [f EXCEPT ![at] = <<b, s>>]
  <2>1. f \in Chosen(n) /\ After(f)[at] = u /\ f \in [Rounds -> Index \X {0, 1}]
    BY DEF Ways, Chosen
  <2>2. g \in [Rounds -> Index \X {0, 1}] /\ g[at] = <<b, s>>
        /\ \A r \in Rounds : r # at => f[r] = g[r]
    BY <1>0, <1>1, <2>1
  <2>3. g[at][1] = b /\ g[at][2] = s
    BY <2>2
  <2> HIDE DEF g
  <2>4. After(g)[at + 1] = v
    BY <1>1, <1>2, <1>3, <2>1, <2>2, <2>3
  <2>5. g \in Chosen(n + 1)
    <3> SUFFICES ASSUME NEW r \in Rounds
                 PROVE  IF r < First + (n + 1) THEN Accepts(g[r][1], r) ELSE g[r] = <<0, 0>>
      BY <2>2 DEF Chosen
    <3>1. CASE r = at
      <4>1. r < First + (n + 1)
        BY <1>0, <3>1, SMT
      <4> QED BY <1>1, <2>3, <3>1, <4>1 DEF Accepts
    <3>2. CASE r # at
      <4>1. r < First + (n + 1) <=> r < at
        BY <1>0, <3>2, SMT
      <4>2. IF r < at THEN Accepts(f[r][1], r) ELSE f[r] = <<0, 0>>
        BY <2>1 DEF Chosen
      <4> QED BY <2>2, <3>2, <4>1, <4>2
    <3> QED BY <3>1, <3>2
  <2>6. g \in Ways(n + 1, v)
    BY <1>0, <2>4, <2>5 DEF Ways
  <2>7. h[f] = g
    BY DEF g
  <2> QED BY <2>3, <2>6, <2>7
<1>5. ASSUME NEW f \in W, NEW g \in W, h[f] = h[g] PROVE f = g
  <2>1. /\ f \in [Rounds -> Index \X {0, 1}] /\ f[at] = <<0, 0>>
        /\ g \in [Rounds -> Index \X {0, 1}] /\ g[at] = <<0, 0>>
    <3>1. ~(at < First + n)
      BY <1>0, SMT
    <3> QED BY <1>0, <3>1 DEF Ways, Chosen
  <2>2. \A r \in Rounds : r # at => f[r] = g[r]
    <3>1. [f EXCEPT ![at] = <<b, s>>] = [g EXCEPT ![at] = <<b, s>>]
      BY <1>5
    <3> QED BY <2>1, <3>1
  <2> QED BY <2>1, <2>2
<1>6. ASSUME NEW g \in last PROVE \E f \in W : h[f] = g
  <2> DEFINE f == [g EXCEPT ![at] = <<0, 0>>]
  <2>1. /\ g \in [Rounds -> Index \X {0, 1}] /\ g \in Chosen(n + 1)
        /\ After(g)[at + 1] = v /\ g[at][1] = b
    BY <1>0 DEF Ways, Chosen
  <2>2. 0 \in Index
    BY <1>0, Bounds, SMT DEF Index
  <2>3. f \in [Rounds -> Index \X {0, 1}] /\ f[at] = <<0, 0>>
        /\ \A r \in Rounds : r # at => f[r] = g[r]
    BY <1>0, <2>1, <2>2
  <2> HIDE DEF f
  <2>4. f \in Chosen(n)
    <3> SUFFICES ASSUME NEW r \in Rounds
                 PROVE  IF r < First + n THEN Accepts(f[r][1], r) ELSE f[r] = <<0, 0>>
      BY <2>3 DEF Chosen
    <3>1. CASE r = at
      <4>1. ~(r < First + n)
        BY <1>0, <3>1, SMT
      <4> QED BY <2>3, <3>1, <4>1
    <3>2. CASE r # at
      <4>1. r < First + (n + 1) <=> r < First + n
        BY <1>0, <3>2, SMT
      <4>2. IF r < First + (n + 1) THEN Accepts(g[r][1], r) ELSE g[r] = <<0, 0>>
        BY <2>1 DEF Chosen
      <4> QED BY <2>3, <3>2, <4>1, <4>2
    <3> QED BY <3>1, <3>2
  <2> DEFINE p == After(f)[at]
  <2>5. p \in [Index -> {-1, 0, 1}] /\ p[at] = 0
    <3>1. p \in [Index -> {-1, 0, 1}] /\ NonZeroOf(p) \subseteq 0 .. First + n - 1
      BY <1>0, <2>4, AfterBelow
    <3>2. at \notin 0 .. First + n - 1
      BY <1>0, RoundOf, SMT
    <3> QED BY <1>0, <3>1, <3>2 DEF NonZeroOf
  <2>6. p = After(g)[at]
    BY <1>2, <2>1, <2>3
  <2>7. g[at][2] \in {0, 1} /\ g[at] = <<g[at][1], g[at][2]>>
    BY <1>0, <2>1
  <2> HIDE DEF p
  <2>8. v = Place(p, at, b, g[at][2])
    BY <1>3, <2>1, <2>6
  <2>9. g[at][2] = s /\ p = u
    BY <1>0, <1>1, <2>5, <2>7, <2>8, RoundUndone
  <2>10. f \in W
    BY <2>4, <2>9 DEF Ways, p
  <2>11. g = [f EXCEPT ![at] = <<b, s>>]
    <3>1. g[at] = <<b, s>>
      BY <2>1, <2>7, <2>9
    <3> QED BY <1>0, <2>1, <2>3, <3>1
  <2> QED BY <2>10, <2>11
<1>7. ExistsBijection(W, last)
  <2> HIDE DEF W, last
  <2>1. h \in [W -> last]
    BY <1>4
  <2> HIDE DEF h
  <2>2. h \in Injection(W, last)
    <3>1. \A f, g \in W : h[f] = h[g] => f = g
      BY <1>5
    <3> QED BY <2>1, <3>1 DEF Injection, IsInjective
  <2>3. h \in Surjection(W, last)
    <3>1. \A g \in last : \E f \in W : h[f] = g
      BY <1>6
    <3> QED BY <2>1, <3>1 DEF Surjection
  <2>4. h \in Bijection(W, last)
    BY <2>2, <2>3 DEF Bijection
  <2> QED BY <2>4 DEF ExistsBijection
<1>8. IsFiniteSet(last) /\ Cardinality(last) = Cardinality(W)
  <2> HIDE DEF last
  <2> QED BY <1>7, FS_Bijection
<1> QED BY <1>8

(* A polynomial n rounds can make comes from n! choices: its last place is *)
(* any of its n signs, and leaves a polynomial of n - 1 rounds.            *)
LEMMA WaysCounted ==
  \A n \in 0 .. Tau : \A v : Shape(v, n) =>
    IsFiniteSet(Ways(n, v)) /\ Cardinality(Ways(n, v)) = Factorial[n]
<1> DEFINE Counted(n, v) == IsFiniteSet(Ways(n, v)) /\ Cardinality(Ways(n, v)) = Factorial[n]
           S == {n \in Nat : n <= Tau => \A v : Shape(v, n) => Counted(n, v)}
<1>1. 0 \in S
  <2> SUFFICES ASSUME NEW v, Shape(v, 0) PROVE Counted(0, v)
    OBVIOUS
  <2> DEFINE f == [r \in Rounds |-> <<0, 0>>]
  <2>1. First + 0 = First /\ 0 \in Index /\ \A r \in Rounds : ~(r < First)
    BY Bounds, SMT DEF First, Index, Rounds
  <2>2. Chosen(0) = {f}
    <3>1. f \in Chosen(0)
      BY <2>1 DEF Chosen
    <3>2. \A g \in Chosen(0) : g = f
      BY <2>1 DEF Chosen
    <3> QED BY <3>1, <3>2
  <2>3. v = Zero
    <3>1. NonZeroOf(v) = {} /\ v \in [Index -> {-1, 0, 1}]
      BY FS_EmptySet DEF Shape
    <3>2. \A m \in Index : v[m] = 0
      BY <3>1 DEF NonZeroOf
    <3> QED BY <3>1, <3>2 DEF Zero
  <2> HIDE DEF f
  <2>4. After(f)[First + 0] = v
    BY <2>1, <2>3, AfterStep
  <2>5. Ways(0, v) = {f}
    BY <2>2, <2>4 DEF Ways
  <2> QED BY <2>5, FS_Singleton, FactorialStep
<1>2. ASSUME NEW n \in S PROVE n + 1 \in S
  <2> SUFFICES ASSUME n + 1 <= Tau, NEW v, Shape(v, n + 1) PROVE Counted(n + 1, v)
    <3>1. n + 1 \in Nat
      OBVIOUS
    <3> HIDE DEF Counted
    <3> QED BY <3>1
  <2> DEFINE at == First + n
             B == NonZeroOf(v)
             Last(b) == {f \in Ways(n + 1, v) : f[at][1] = b}
             X == [b \in B |-> Last(b)]
  <2>1. n \in 0 .. Tau - 1 /\ n \in Nat /\ n <= Tau /\ n + 1 \in 0 .. Tau
    BY RoundOf, SMT
  <2>2. at \in Rounds /\ at \in Index /\ First + (n + 1) = at + 1 /\ at \in Int
    <3>1. at \in Rounds /\ at \in Index /\ First + (n + 1) = at + 1
      BY <2>1, RoundOf
    <3> QED BY <3>1, RoundOf
  <2>3. IsFiniteSet(B) /\ Cardinality(B) = n + 1
    BY DEF Shape
  <2>4. \A b \in B : IsFiniteSet(Last(b)) /\ Cardinality(Last(b)) = Factorial[n]
    <3> SUFFICES ASSUME NEW b \in B
                 PROVE  IsFiniteSet(Last(b)) /\ Cardinality(Last(b)) = Factorial[n]
      OBVIOUS
    <3>1. Shape(Undone(v, at, b), n)
      BY <2>1, RoundRedone
    <3>2. Counted(n, Undone(v, at, b))
      BY <2>1, <3>1
    <3> QED BY <2>1, <3>2, WaysOfPlace
  <2>5. ASSUME NEW f \in Ways(n + 1, v) PROVE f[at][1] \in B
    <3> DEFINE p == After(f)[at]
    <3>1. f \in Chosen(n + 1) /\ f[at] \in Index \X {0, 1} /\ After(f)[at + 1] = v
      BY <2>2 DEF Ways, Chosen
    <3>2. f[at][1] \in Index /\ f[at][2] \in {0, 1} /\ f[at][1] <= at
      <4>1. at < First + (n + 1)
        BY <2>2, SMT
      <4> QED BY <2>2, <3>1, <4>1 DEF Chosen, Accepts
    <3>3. v = Place(p, at, f[at][1], f[at][2])
      BY <2>2, <3>1, AfterStep DEF Rounds
    <3>4. p \in [Index -> {-1, 0, 1}] /\ p[at] = 0
      BY <2>1, <2>2, <3>1, PlaceIsFree
    <3> HIDE DEF p
    <3> QED BY <2>2, <3>2, <3>3, <3>4, RoundUndone
  <2>6. UNION {X[b] : b \in B} = Ways(n + 1, v)
    <3>1. \A b \in B : X[b] \subseteq Ways(n + 1, v)
      OBVIOUS
    <3>2. \A f \in Ways(n + 1, v) : f[at][1] \in B /\ f \in X[f[at][1]]
      BY <2>5
    <3> HIDE DEF X, B
    <3> QED BY <3>1, <3>2
  <2>7. \A b, d \in B : b # d => X[b] \cap X[d] = {}
    OBVIOUS
  <2>8. \A b \in B : IsFiniteSet(X[b]) /\ Cardinality(X[b]) = Factorial[n]
    <3> HIDE DEF Last
    <3> QED BY <2>4
  <2>9. Factorial[n] \in Nat /\ Factorial[n + 1] = (n + 1) * Factorial[n]
    BY <2>1, FactorialStep
  <2> HIDE DEF X, B
  <2>10. /\ IsFiniteSet(UNION {X[b] : b \in B})
         /\ Cardinality(UNION {X[b] : b \in B}) = Cardinality(B) * Factorial[n]
    BY <2>3, <2>7, <2>8, <2>9, UnionCount
  <2> QED BY <2>3, <2>6, <2>9, <2>10
<1>3. S = Nat
  <2> HIDE DEF S
  <2>1. S \subseteq Nat
    BY DEF S
  <2> QED BY <1>1, <1>2, <2>1, Induction
<1> QED BY <1>3

(* The choices the loop has are the choices for all its rounds.            *)
LEMMA AllChosen == Choices = Chosen(Tau)
<1>1. \A at \in Rounds : at < First + Tau
  BY RoundOf
<1> QED BY <1>1 DEF Choices, Chosen, Rounds, First

(* Whatever challenge the loop makes, Tau! of its choices make it: no      *)
(* challenge is more likely than another, for every size and every Tau.    *)
THEOREM ChallengesEquallyLikely == ChallengeSpec => []EquallyLikely
<1>1. TernaryShape => EquallyLikely
  <2> SUFFICES ASSUME TernaryShape, stage = "ready"
               PROVE  Cardinality({f \in Choices : Outcome(f) = c}) = Factorial[Tau]
    BY DEF EquallyLikely
  <2>1. First + Tau = Size /\ Tau \in 0 .. Tau /\ First + Tau - 1 = Size - 1
    BY RoundOf, SMT
  <2>2. Shape(c, Tau)
    <3>1. c \in [Index -> {-1, 0, 1}] /\ Cardinality(NonZeroOf(c)) = Tau
      BY DEF TernaryShape, NonZero, NonZeroOf
    <3>2. NonZeroOf(c) \subseteq Index /\ Index = 0 .. First + Tau - 1
      BY <2>1 DEF NonZeroOf, Index
    <3>3. IsFiniteSet(Index)
      <4>1. 0 \in Int /\ Size - 1 \in Int
        BY Bounds, SMT
      <4> QED BY <4>1, FS_Interval DEF Index
    <3>4. IsFiniteSet(NonZeroOf(c))
      BY <3>2, <3>3, FS_Subset
    <3> QED BY <3>1, <3>2, <3>4 DEF Shape
  <2>3. {f \in Choices : Outcome(f) = c} = Ways(Tau, c)
    BY <2>1, AllChosen, AfterStep DEF Ways
  <2> QED BY <2>1, <2>2, <2>3, WaysCounted
<1> QED BY <1>1, TauSigns, PTL
=============================================================================
