---------------------------- MODULE KeyPairProofs ----------------------------
(***************************************************************************)
(* The patterns of module Packing are little-endian bit strings, and so    *)
(* packing and unpacking invert each other, for every group of fields and  *)
(* every group of bytes.  The proofs use of a pattern only that it is      *)
(* aligned, whatever its width; that those of poly.go are, assumption      *)
(* Patterns says and TLC evaluates.                                        *)
(*                                                                         *)
(* The objects of dilithium.go keep what module KeyPair states of them,    *)
(* for every set of key pairs, any number of calls and any heap.           *)
(*                                                                         *)
(* The entry points accept just what they signed, for every set of         *)
(* messages, contexts and digests: the framed string can be read back.     *)
(***************************************************************************)
EXTENDS KeyPair, Api, SequenceTheorems, TLAPS

-----------------------------------------------------------------------------
(* The packers.                                                            *)

(* One more multiple of g, and multiples in the order of their factors.    *)
LEMMA Monotone ==
  ASSUME NEW p \in Int, NEW q \in Int, NEW g \in Int, g > 0
  PROVE  /\ g * p \in Int /\ g * (p + 1) = g * p + g
         /\ (p <= q) => (g * p <= g * q)
<1>1. g * p \in Int /\ g * q \in Int /\ g * (p + 1) = g * p + g
  BY SMT
<1>2. ASSUME p <= q PROVE g * p <= g * q
  <2>1. g * (q - p) >= 0
    BY <1>2, SMT
  <2>2. g * (q - p) = g * q - g * p
    BY SMT
  <2> QED BY <1>1, <2>1, <2>2, SMT
<1> QED BY <1>1, <1>2

(* A position lies in one part only.                                       *)
LEMMA OnePart ==
  \A g \in Nat : (g > 0) =>
    \A p, q \in Int : \A b, c \in Bits(g) :
      (g * p + b = g * q + c) => (p = q /\ b = c)
<1> SUFFICES ASSUME NEW g \in Nat, g > 0, NEW p \in Int, NEW q \in Int,
                    NEW b \in Bits(g), NEW c \in Bits(g), g * p + b = g * q + c
             PROVE  p = q /\ b = c
  OBVIOUS
<1>0. b \in Int /\ c \in Int /\ 0 <= b /\ b < g /\ 0 <= c /\ c < g
  BY SMT DEF Bits
<1>1. ~(p < q)
  <2>1. (p + 1 <= q) => (g * (p + 1) <= g * q)
    BY Monotone, SMT
  <2>2. g * (p + 1) = g * p + g /\ g * p \in Int /\ g * q \in Int
    BY Monotone
  <2> QED BY <1>0, <2>1, <2>2, SMT
<1>2. ~(q < p)
  <2>1. (q + 1 <= p) => (g * (q + 1) <= g * p)
    BY Monotone, SMT
  <2>2. g * (q + 1) = g * q + g /\ g * p \in Int /\ g * q \in Int
    BY Monotone
  <2> QED BY <1>0, <2>1, <2>2, SMT
<1>3. p = q
  BY <1>1, <1>2, SMT
<1>4. g * p \in Int /\ g * p = g * q
  BY <1>3, Monotone
<1> QED BY <1>0, <1>3, <1>4, SMT

(* Quotient and remainder: the part a position lies in.                    *)
LEMMA PartOf ==
  ASSUME NEW x \in Nat, NEW g \in Nat, g > 0, NEW n \in Nat, x < g * n
  PROVE  /\ x \div g \in 0 .. n - 1 /\ (x % g) \in Bits(g)
         /\ x = g * (x \div g) + (x % g)
<1> DEFINE q == x \div g
           r == x % g
<1>1. q \in Nat /\ r \in Nat /\ r < g /\ x = g * q + r
  BY SMT
<1> HIDE DEF q, r
<1>2. ~(n <= q)
  <2>1. (n <= q) => (g * n <= g * q)
    BY <1>1, Monotone, SMT
  <2>2. g * n \in Int /\ g * q \in Int
    BY <1>1, Monotone, SMT
  <2> QED BY <1>1, <2>1, <2>2, SMT
<1>3. q \in 0 .. n - 1 /\ r \in Bits(g)
  BY <1>1, <1>2, SMT DEF Bits
<1> QED BY <1>1, <1>3 DEF q, r

-----------------------------------------------------------------------------
(* An aligned row moves every bit to its own position, and nothing else    *)
(* there.  The row makes part i, of v bits, from parts of u bits.          *)
LEMMA JoinedBits ==
  ASSUME NEW u \in Nat, u > 0, NEW v \in Nat, v > 0,
         NEW S \in SUBSET Int, NEW x \in [S -> SUBSET Bits(u)],
         NEW i \in Int, NEW row,
         \A term \in row : term[1] \in S /\ term[2] = u * term[1] - v * i,
         \A k \in S : (u * k < v * (i + 1) /\ v * i < u * (k + 1))
                        => <<k, u * k - v * i>> \in row,
         NEW k \in S, NEW b \in Bits(v), NEW c \in Bits(u), v * i + b = u * k + c
  PROVE  b \in Joined(row, x, v) <=> c \in x[k]
<1>0. /\ b \in Int /\ 0 <= b /\ b < v /\ c \in Int /\ 0 <= c /\ c < u
      /\ k \in Int /\ v \in Int /\ u \in Int
  BY SMT DEF Bits
<1>1. /\ u * k \in Int /\ u * (k + 1) = u * k + u
      /\ v * i \in Int /\ v * (i + 1) = v * i + v
  BY <1>0, Monotone
<1>2. ASSUME c \in x[k] PROVE b \in Joined(row, x, v)
  <2>1. u * k < v * (i + 1) /\ v * i < u * (k + 1)
    BY <1>0, <1>1, SMT
  <2>2. <<k, u * k - v * i>> \in row
    BY <2>1
  <2>3. b - (u * k - v * i) = c
    BY <1>0, <1>1, SMT
  <2>4. \E term \in row : b - term[2] \in x[term[1]]
    <3> DEFINE term == <<k, u * k - v * i>>
    <3>1. term[1] = k /\ term[2] = u * k - v * i
      OBVIOUS
    <3>2. b - term[2] \in x[term[1]]
      BY <1>2, <2>3, <3>1
    <3> HIDE DEF term
    <3>3. term \in row
      BY <2>2 DEF term
    <3> QED BY <3>2, <3>3
  <2> QED BY <2>4 DEF Joined
<1>3. ASSUME b \in Joined(row, x, v) PROVE c \in x[k]
  <2>1. PICK term \in row : b - term[2] \in x[term[1]]
    BY <1>3 DEF Joined
  <2> DEFINE p == term[1]
  <2>2. p \in S /\ p \in Int /\ term[2] = u * p - v * i
    OBVIOUS
  <2> HIDE DEF p
  <2>3. b - (u * p - v * i) \in x[p]
    BY <2>1, <2>2 DEF p
  <2>4. b - (u * p - v * i) \in Bits(u) /\ u * p \in Int
    BY <1>0, <2>2, <2>3, Monotone
  <2>5. u * p + (b - (u * p - v * i)) = u * k + c
    BY <1>0, <1>1, <2>4, SMT
  <2> DEFINE d == b - (u * p - v * i)
  <2>6. d \in Bits(u) /\ u * p + d = u * k + c /\ d \in x[p]
    BY <2>3, <2>4, <2>5
  <2> HIDE DEF d
  <2>7. p = k /\ d = c
    <3>1. u \in Nat /\ u > 0 /\ p \in Int /\ k \in Int /\ c \in Bits(u)
      BY <1>0, <2>2
    <3>2. \A e, h \in Bits(u) : (u * p + e = u * k + h) => (p = k /\ e = h)
      BY <3>1, OnePart
    <3> QED BY <2>6, <3>1, <3>2
  <2> QED BY <2>6, <2>7
<1> QED BY <1>2, <1>3

(* Packing is little-endian: bit c of byte k is the bit of a field at the  *)
(* same position of the group (poly.go:269-287, 319-327, 340-367, 415-444, *)
(* 495-511).                                                               *)
THEOREM PackLittleEndian ==
  ASSUME NEW f, PackAligned(f), NEW t \in [Fields(f) -> SUBSET Bits(f.width)],
         NEW i \in Fields(f), NEW b \in Bits(f.width),
         NEW k \in Bytes(f), NEW c \in Bits(8), f.width * i + b = 8 * k + c
  PROVE  c \in Pack(f, t)[k] <=> b \in t[i]
<1>1. /\ f.width \in Nat /\ f.width > 0 /\ f.fields \in Nat /\ f.bytes \in Nat
  BY SMT DEF PackAligned
<1>2. Fields(f) \in SUBSET Int /\ k \in Int /\ 8 \in Nat /\ 8 > 0
  BY <1>1, SMT DEF Fields, Bytes
<1> DEFINE w == f.width
           row == f.pack[k]
<1>3. \A term \in row : term[1] \in Fields(f) /\ term[2] = w * term[1] - 8 * k
  BY DEF PackAligned
<1>4. \A n \in Fields(f) : (w * n < 8 * (k + 1) /\ 8 * k < w * (n + 1))
                             => <<n, w * n - 8 * k>> \in row
  BY DEF PackAligned, Overlap
<1>5. w \in Nat /\ w > 0 /\ b \in Bits(w) /\ t \in [Fields(f) -> SUBSET Bits(w)]
      /\ 8 * k + c = w * i + b
  BY <1>1
<1> HIDE DEF w, row
<1>6. c \in Joined(row, t, 8) <=> b \in t[i]
  BY <1>2, <1>3, <1>4, <1>5, JoinedBits
<1> QED BY <1>6 DEF Pack, row

(* Unpacking is too, also where the code leaves a field unmasked           *)
(* (poly.go:290-316, 330-337, 370-412, 447-492).                           *)
THEOREM UnpackLittleEndian ==
  ASSUME NEW f, PackAligned(f), UnpackAligned(f),
         NEW r \in [Bytes(f) -> SUBSET Bits(8)], NEW i \in Fields(f)
  PROVE  /\ Unpack(f, r)[i] \in SUBSET Bits(f.width)
         /\ \A b \in Bits(f.width), k \in Bytes(f), c \in Bits(8) :
              (f.width * i + b = 8 * k + c)
                => (b \in Unpack(f, r)[i] <=> c \in r[k])
<1>1. /\ f.width \in Nat /\ f.width > 0 /\ f.fields \in Nat /\ f.bytes \in Nat
      /\ f.width <= 32
  BY SMT DEF PackAligned, UnpackAligned
<1>2. Bytes(f) \in SUBSET Int /\ i \in Int /\ 8 \in Nat /\ 8 > 0
  BY <1>1, SMT DEF Fields, Bytes
<1> DEFINE w == f.width
           row == f.unpack[i]
<1>3. \A term \in row : term[1] \in Bytes(f) /\ term[2] = 8 * term[1] - w * i
  BY DEF UnpackAligned
<1>4. \A k \in Bytes(f) : (8 * k < w * (i + 1) /\ w * i < 8 * (k + 1))
                             => <<k, 8 * k - w * i>> \in row
  BY DEF UnpackAligned, Overlap
<1>5. w \in Nat /\ w > 0 /\ w <= 32
  BY <1>1
<1>6. (i \in f.unmasked) => \A term \in row : 8 * (term[1] + 1) <= w * (i + 1)
  BY DEF UnpackAligned
<1>7. Unpack(f, r)[i] = Joined(row, r, IF i \in f.unmasked THEN 32 ELSE w)
  BY DEF Unpack
<1> HIDE DEF w, row
<1>8. Unpack(f, r)[i] = Joined(row, r, w)
  <2>1. CASE i \notin f.unmasked
    BY <1>7, <2>1
  <2>2. CASE i \in f.unmasked
    <3>1. ASSUME NEW b \in Bits(32), NEW term \in row, b - term[2] \in r[term[1]]
          PROVE  b \in Bits(w)
      <4> DEFINE p == term[1]
      <4>1. p \in Bytes(f) /\ p \in Int /\ term[2] = 8 * p - w * i
        BY <1>2, <1>3
      <4>2. 8 * (p + 1) <= w * (i + 1)
        BY <1>6, <2>2
      <4>3. b - (8 * p - w * i) \in Bits(8)
        BY <3>1, <4>1
      <4> HIDE DEF p
      <4>4. w * i \in Int /\ w * (i + 1) = w * i + w
        BY <1>2, <1>5, Monotone, SMT
      <4> QED BY <1>5, <4>1, <4>2, <4>3, <4>4, SMT DEF Bits
    <3>2. Bits(w) \subseteq Bits(32)
      BY <1>5, SMT DEF Bits
    <3> QED BY <1>7, <2>2, <3>1, <3>2 DEF Joined
  <2> QED BY <2>1, <2>2
<1>9. Unpack(f, r)[i] \in SUBSET Bits(w)
  BY <1>8 DEF Joined
<1>10. ASSUME NEW b \in Bits(w), NEW k \in Bytes(f), NEW c \in Bits(8),
              w * i + b = 8 * k + c
       PROVE  b \in Unpack(f, r)[i] <=> c \in r[k]
  <2>1. b \in Joined(row, r, w) <=> c \in r[k]
    BY <1>2, <1>3, <1>4, <1>5, <1>10, JoinedBits
  <2> QED BY <1>8, <2>1
<1> QED BY <1>9, <1>10 DEF w

-----------------------------------------------------------------------------
(* A byte has bits.                                                        *)
LEMMA Eight == 8 \in Nat /\ 8 > 0
BY SMT

(* Positions of a group, as a bit of a field and as a bit of a byte.       *)
LEMMA Positions ==
  ASSUME NEW f, PackAligned(f)
  PROVE  /\ \A i \in Fields(f), b \in Bits(f.width) :
              \E k \in Bytes(f), c \in Bits(8) : f.width * i + b = 8 * k + c
         /\ \A k \in Bytes(f), c \in Bits(8) :
              \E i \in Fields(f), b \in Bits(f.width) : f.width * i + b = 8 * k + c
<1>1. /\ f.width \in Nat /\ f.width > 0 /\ f.fields \in Nat /\ f.bytes \in Nat
      /\ f.width * f.fields = 8 * f.bytes
  BY SMT DEF PackAligned
<1>2. ASSUME NEW w \in Nat, w > 0, NEW n \in Nat, NEW m \in Nat, w * n = 8 * m,
             NEW i \in 0 .. n - 1, NEW b \in Bits(w)
      PROVE  \E k \in 0 .. m - 1, c \in Bits(8) : w * i + b = 8 * k + c
  <2> DEFINE x == w * i + b
  <2>1. w * (i + 1) <= w * n /\ w * (i + 1) = w * i + w /\ w * i \in Int
        /\ w * 0 <= w * i /\ w * 0 = 0 /\ w * n \in Int
    BY <1>2, Monotone, SMT
  <2>2. x \in Nat /\ x < 8 * m
    BY <1>2, <2>1, SMT DEF Bits
  <2> HIDE DEF x
  <2>3. x \div 8 \in 0 .. m - 1 /\ (x % 8) \in Bits(8) /\ x = 8 * (x \div 8) + (x % 8)
    BY <1>2, <2>2, Eight, PartOf
  <2>4. \E k \in 0 .. m - 1, c \in Bits(8) : x = 8 * k + c
    BY <2>3
  <2> QED BY <2>4 DEF x
<1>3. ASSUME NEW w \in Nat, w > 0, NEW n \in Nat, NEW m \in Nat, w * n = 8 * m,
             NEW k \in 0 .. m - 1, NEW c \in Bits(8)
      PROVE  \E i \in 0 .. n - 1, b \in Bits(w) : w * i + b = 8 * k + c
  <2> DEFINE x == 8 * k + c
  <2>1. x \in Nat /\ x < w * n
    BY <1>3, SMT DEF Bits
  <2> HIDE DEF x
  <2>2. x \div w \in 0 .. n - 1 /\ (x % w) \in Bits(w) /\ x = w * (x \div w) + (x % w)
    BY <1>3, <2>1, PartOf
  <2>3. \E i \in 0 .. n - 1, b \in Bits(w) : x = w * i + b
    BY <2>2
  <2> QED BY <2>3 DEF x
<1>4. \A i \in Fields(f), b \in Bits(f.width) :
        \E k \in Bytes(f), c \in Bits(8) : f.width * i + b = 8 * k + c
  BY <1>1, <1>2 DEF Fields, Bytes
<1>5. \A k \in Bytes(f), c \in Bits(8) :
        \E i \in Fields(f), b \in Bits(f.width) : f.width * i + b = 8 * k + c
  BY <1>1, <1>3 DEF Fields, Bytes
<1> QED BY <1>4, <1>5

(* Packing gives bytes.                                                    *)
LEMMA PackType ==
  ASSUME NEW f, NEW t
  PROVE  Pack(f, t) \in [Bytes(f) -> SUBSET Bits(8)]
BY DEF Pack, Joined

LEMMA UnpackType ==
  ASSUME NEW f, PackAligned(f), UnpackAligned(f), NEW r \in [Bytes(f) -> SUBSET Bits(8)]
  PROVE  Unpack(f, r) \in [Fields(f) -> SUBSET Bits(f.width)]
<1>1. \A i \in Fields(f) : Unpack(f, r)[i] \in SUBSET Bits(f.width)
  BY UnpackLittleEndian
<1>2. Unpack(f, r) = [i \in Fields(f) |-> Unpack(f, r)[i]]
  BY DEF Unpack
<1> QED BY <1>1, <1>2

(* What is packed is what is unpacked: no bit of s1, s2, t0, t1 or z is    *)
(* lost at a byte boundary (poly.go:268-492).                              *)
THEOREM RoundTrip ==
  ASSUME NEW f \in Unpacked, NEW t \in [Fields(f) -> SUBSET Bits(f.width)]
  PROVE  Unpack(f, Pack(f, t)) = t
<1>0. PackAligned(f) /\ UnpackAligned(f)
  BY Patterns DEF Packed
<1> DEFINE r == Pack(f, t)
<1>1. r \in [Bytes(f) -> SUBSET Bits(8)]
  BY PackType
<1>2. \A i \in Fields(f), b \in Bits(f.width), k \in Bytes(f), c \in Bits(8) :
        (f.width * i + b = 8 * k + c) => (c \in r[k] <=> b \in t[i])
  BY <1>0, PackLittleEndian
<1> HIDE DEF r
<1>3. ASSUME NEW i \in Fields(f) PROVE Unpack(f, r)[i] = t[i]
  <2>1. Unpack(f, r)[i] \in SUBSET Bits(f.width) /\ t[i] \in SUBSET Bits(f.width)
    BY <1>0, <1>1, UnpackLittleEndian
  <2>2. ASSUME NEW b \in Bits(f.width) PROVE b \in Unpack(f, r)[i] <=> b \in t[i]
    <3>1. PICK k \in Bytes(f), c \in Bits(8) : f.width * i + b = 8 * k + c
      BY <1>0, Positions
    <3>2. b \in Unpack(f, r)[i] <=> c \in r[k]
      BY <1>0, <1>1, <3>1, UnpackLittleEndian
    <3>3. c \in r[k] <=> b \in t[i]
      BY <1>2, <3>1
    <3> QED BY <3>2, <3>3
  <2> QED BY <2>1, <2>2
<1>4. Unpack(f, r) \in [Fields(f) -> SUBSET Bits(f.width)]
  BY <1>0, <1>1, UnpackType
<1> QED BY <1>3, <1>4 DEF r

(* No two byte strings unpack to the same polynomial, so that an encoded   *)
(* z or key is as good as its bytes, and the masks PolyUniformGamma1 makes *)
(* of a uniform stream are uniform (poly.go:224-233, 446-492).             *)
THEOREM Canonical ==
  ASSUME NEW f \in Unpacked, NEW r \in [Bytes(f) -> SUBSET Bits(8)]
  PROVE  Pack(f, Unpack(f, r)) = r
<1>0. PackAligned(f) /\ UnpackAligned(f)
  BY Patterns DEF Packed
<1> DEFINE t == Unpack(f, r)
<1>1. t \in [Fields(f) -> SUBSET Bits(f.width)]
  BY <1>0, UnpackType
<1>2. \A i \in Fields(f), b \in Bits(f.width), k \in Bytes(f), c \in Bits(8) :
        (f.width * i + b = 8 * k + c) => (b \in t[i] <=> c \in r[k])
  BY <1>0, UnpackLittleEndian
<1> HIDE DEF t
<1>3. ASSUME NEW k \in Bytes(f) PROVE Pack(f, t)[k] = r[k]
  <2>1. Pack(f, t)[k] \in SUBSET Bits(8) /\ r[k] \in SUBSET Bits(8)
    BY PackType
  <2>2. ASSUME NEW c \in Bits(8) PROVE c \in Pack(f, t)[k] <=> c \in r[k]
    <3>1. PICK i \in Fields(f), b \in Bits(f.width) : f.width * i + b = 8 * k + c
      BY <1>0, Positions
    <3>2. c \in Pack(f, t)[k] <=> b \in t[i]
      BY <1>0, <1>1, <3>1, PackLittleEndian
    <3>3. b \in t[i] <=> c \in r[k]
      BY <1>2, <3>1
    <3> QED BY <3>2, <3>3
  <2> QED BY <2>1, <2>2
<1>4. Pack(f, t) \in [Bytes(f) -> SUBSET Bits(8)]
  BY PackType
<1> QED BY <1>3, <1>4 DEF t

(* Different high bits w1 are hashed as different bytes, although nothing  *)
(* ever unpacks them (poly.go:494-511).                                    *)
THEOREM PackInjective ==
  ASSUME NEW f \in Packed, NEW t \in [Fields(f) -> SUBSET Bits(f.width)],
         NEW t2 \in [Fields(f) -> SUBSET Bits(f.width)], Pack(f, t) = Pack(f, t2)
  PROVE  t = t2
<1>0. PackAligned(f)
  BY Patterns
<1>1. ASSUME NEW i \in Fields(f), NEW b \in Bits(f.width)
      PROVE  b \in t[i] <=> b \in t2[i]
  <2>1. PICK k \in Bytes(f), c \in Bits(8) : f.width * i + b = 8 * k + c
    BY <1>0, Positions
  <2>2. c \in Pack(f, t)[k] <=> b \in t[i]
    BY <1>0, <2>1, PackLittleEndian
  <2>3. c \in Pack(f, t2)[k] <=> b \in t2[i]
    BY <1>0, <2>1, PackLittleEndian
  <2> QED BY <2>2, <2>3
<1>2. \A i \in Fields(f) : t[i] = t2[i]
  <2> SUFFICES ASSUME NEW i \in Fields(f) PROVE t[i] = t2[i]
    OBVIOUS
  <2>1. t[i] \in SUBSET Bits(f.width) /\ t2[i] \in SUBSET Bits(f.width)
    OBVIOUS
  <2> QED BY <1>1, <2>1
<1> QED BY <1>2

-----------------------------------------------------------------------------
(* The tables.                                                             *)

(* The lengths of the four modes.                                          *)
LEMMA PublicLengths ==
  /\ PublicKeyBytes(0) = 1312 /\ PublicKeyBytes(1) = 1952
  /\ PublicKeyBytes(2) = 2592 /\ PublicKeyBytes(3) = 32
<1>1. K[0] = 4 /\ K[1] = 6 /\ K[2] = 8 /\ K[3] = 0
  BY SMT DEF K, PerMode, Mode, Listed
<1> QED BY <1>1, SMT DEF PublicKeyBytes, SEEDBYTES, POLYT1_PACKEDBYTES

LEMMA SecretLengths ==
  /\ SecretKeyBytes(0) = 2560 /\ SecretKeyBytes(1) = 4032
  /\ SecretKeyBytes(2) = 4896 /\ SecretKeyBytes(3) = 128
<1>1. K[0] = 4 /\ K[1] = 6 /\ K[2] = 8 /\ K[3] = 0
  BY SMT DEF K, PerMode, Mode, Listed
<1>2. L[0] = 4 /\ L[1] = 5 /\ L[2] = 7 /\ L[3] = 0
  BY SMT DEF L, PerMode, Mode, Listed
<1>3. /\ PolyEtaPackedBytes[0] = 96 /\ PolyEtaPackedBytes[1] = 128
      /\ PolyEtaPackedBytes[2] = 96 /\ PolyEtaPackedBytes[3] = 0
  BY SMT DEF PolyEtaPackedBytes, PerMode, Mode, Listed
<1> QED BY <1>1, <1>2, <1>3, SMT
        DEF SecretKeyBytes, SEEDBYTES, TRBYTES, POLYT0_PACKEDBYTES

LEMMA EmptySignature == SignatureBytes(3) = 0
<1>1. K[3] = 0 /\ L[3] = 0 /\ Ctildebytes[3] = 0 /\ PolyZPackedBytes[3] = 0 /\ Omega[3] = 0
  BY SMT DEF K, L, Ctildebytes, PolyZPackedBytes, Omega, PerMode, Mode, Listed
<1> QED BY <1>1, SMT DEF SignatureBytes

(* A mode is known from the length of its public keys.                     *)
LEMMA ModeOfLength ==
  ASSUME NEW m1 \in Mode, NEW m2 \in Mode, PublicKeyBytes(m1) = PublicKeyBytes(m2)
  PROVE  m1 = m2
<1>1. \A m \in Mode : m = 0 \/ m = 1 \/ m = 2 \/ m = 3
  BY SMT DEF Mode
<1> QED BY <1>1, PublicLengths

(* A mode is listed or has no bytes beyond the fixed ones.                 *)
LEMMA ListedOrEmpty ==
  ASSUME NEW m \in Mode
  PROVE  m \in Listed \/ ( /\ m = 3 /\ SecretKeyBytes(m) = 2 * SEEDBYTES + TRBYTES
                           /\ SignatureBytes(m) = 0)
<1>1. m \in Listed \/ m = 3
  BY SMT DEF Mode, Listed
<1>2. 2 * SEEDBYTES + TRBYTES = 128
  BY SMT DEF SEEDBYTES, TRBYTES
<1> QED BY <1>1, <1>2, SecretLengths, EmptySignature

(* A listed mode is found again from its tag, another one is not.          *)
LEMMA TagsFound ==
  ASSUME NEW m \in Mode
  PROVE  ModeFromTag(ModeTag[m]) = {m} \cap Listed
<1>1. ModeTag[0] = 2 /\ ModeTag[1] = 3 /\ ModeTag[2] = 5 /\ ModeTag[3] = 0
  BY SMT DEF ModeTag, PerMode, Mode, Listed
<1>2. \A n \in Listed : (n = 0 \/ n = 1 \/ n = 2)
  BY SMT DEF Listed
<1>3. <<2, 3, 5>>[0 + 1] = 2 /\ <<2, 3, 5>>[1 + 1] = 3 /\ <<2, 3, 5>>[2 + 1] = 5
  BY SMT
<1>4. 0 \in Listed /\ 1 \in Listed /\ 2 \in Listed /\ 3 \notin Listed
  BY SMT DEF Listed
<1>5. \A tag, n : n \in ModeFromTag(tag) <=> \/ (n = 0 /\ 2 = tag) \/ (n = 1 /\ 3 = tag)
                                             \/ (n = 2 /\ 5 = tag)
  BY <1>2, <1>3, <1>4 DEF ModeFromTag
<1>6. m = 0 \/ m = 1 \/ m = 2 \/ m = 3
  BY SMT DEF Mode
<1>7. CASE m = 0
  BY <1>1, <1>4, <1>5, <1>7
<1>8. CASE m = 1
  BY <1>1, <1>4, <1>5, <1>8
<1>9. CASE m = 2
  BY <1>1, <1>4, <1>5, <1>9
<1>10. CASE m = 3
  BY <1>1, <1>4, <1>5, <1>10
<1> QED BY <1>6, <1>7, <1>8, <1>9, <1>10

-----------------------------------------------------------------------------
(* The arrays there can be: those made by Keypair, field by field as they  *)
(* were or damaged, and those made from them.                              *)

PkOf(b) ==
  [form : {"pk"}, rho : {b, Damaged}, t1 : {b, Damaged}, len : {PublicKeyBytes(b[1])}]

(* What a damaged tr is.                                                   *)
Unhashed(b) == [form |-> "pk", rho |-> NoHash, t1 |-> NoHash, len |-> PublicKeyBytes(b[1])]

(* A key of a mode that is not listed has no s to damage.                  *)
SecretsOf(b) == IF b[1] \in Listed THEN {b, Damaged} ELSE {b}

SkOf(b) ==
  [form : {"sk"}, rho : {b, Damaged}, key : {b, Damaged},
   tr : {PublicOf(b), Unhashed(b)}, s : SecretsOf(b), len : {SecretKeyBytes(b[1])}]

SigOf(b) == [form : {"sig"}, by : SkOf(b), len : {SignatureBytes(b[1])}]

PubOf(b) ==
  [form : {"pub"}, tag : Tags, pk : PkOf(b), len : {1 + PublicKeyBytes(b[1])}]

PairOf(b) ==
  [form : {"pair"}, tag : Tags, pk : PkOf(b), sk : SkOf(b),
   len : {1 + PublicKeyBytes(b[1]) + SecretKeyBytes(b[1])}]

Array == UNION {PkOf(b) \cup SkOf(b) \cup SigOf(b) \cup PubOf(b) \cup PairOf(b) : b \in Births}

(* Births are neither Damaged nor NoHash.                                  *)
LEMMA BirthsGenuine ==
  ASSUME NEW b \in Births
  PROVE  b[1] \in Mode /\ b # Damaged /\ b # NoHash /\ Damaged # NoHash
<1>1. b \in Mode \X Nat
  BY KeyPairAssumption
<1>2. b[1] \in Mode /\ b[1] >= 0
  BY <1>1, SMT DEF Mode
<1>3. Damaged[1] = -1 /\ NoHash[1] = -2
  BY DEF Damaged, NoHash
<1>4. b[1] # -1 /\ b[1] # -2 /\ -1 # -2
  BY <1>2, SMT DEF Mode
<1> QED BY <1>2, <1>3, <1>4

(* An array by its form.                                                   *)
LEMMA Forms ==
  ASSUME NEW x \in Array
  PROVE  \E b \in Births :
           /\ x.form = "pk" => x \in PkOf(b)
           /\ x.form = "sk" => x \in SkOf(b)
           /\ x.form = "sig" => x \in SigOf(b)
           /\ x.form = "pub" => x \in PubOf(b)
           /\ x.form = "pair" => x \in PairOf(b)
           /\ x.form \in {"pk", "sk", "sig", "pub", "pair"}
<1>1. PICK b \in Births : x \in PkOf(b) \cup SkOf(b) \cup SigOf(b) \cup PubOf(b) \cup PairOf(b)
  BY DEF Array
<1>2. CASE x \in PkOf(b)
  <2>1. x.form = "pk"
    BY <1>2 DEF PkOf
  <2> QED BY <1>2, <2>1
<1>3. CASE x \in SkOf(b)
  <2>1. x.form = "sk"
    BY <1>3 DEF SkOf
  <2> QED BY <1>3, <2>1
<1>4. CASE x \in SigOf(b)
  <2>1. x.form = "sig"
    BY <1>4 DEF SigOf
  <2> QED BY <1>4, <2>1
<1>5. CASE x \in PubOf(b)
  <2>1. x.form = "pub"
    BY <1>5 DEF PubOf
  <2> QED BY <1>5, <2>1
<1>6. CASE x \in PairOf(b)
  <2>1. x.form = "pair"
    BY <1>6 DEF PairOf
  <2> QED BY <1>6, <2>1
<1> QED BY <1>1, <1>2, <1>3, <1>4, <1>5, <1>6

(* Damage to a key is to one of its fields.                                *)
LEMMA DamagedPk ==
  ASSUME NEW b \in Births, NEW x \in PkOf(b), NEW d \in DamagesPk(x)
  PROVE  d \in PkOf(b)
<1>1. CASE d = [x EXCEPT !.rho = Damaged]
  BY <1>1 DEF PkOf
<1>2. CASE d = [x EXCEPT !.t1 = Damaged]
  BY <1>2 DEF PkOf
<1>3. d = [x EXCEPT !.rho = Damaged] \/ d = [x EXCEPT !.t1 = Damaged]
  BY DEF DamagesPk, Written
<1> QED BY <1>1, <1>2, <1>3

LEMMA DamagedSk ==
  ASSUME NEW b \in Births, NEW x \in SkOf(b), NEW d \in DamagesSk(x)
  PROVE  d \in SkOf(b)
<1>1. CASE d = [x EXCEPT !.rho = Damaged]
  BY <1>1 DEF SkOf
<1>2. CASE d = [x EXCEPT !.key = Damaged]
  BY <1>2 DEF SkOf
<1>3. CASE d = [x EXCEPT !.tr = [x.tr EXCEPT !.rho = NoHash, !.t1 = NoHash]]
  <2>1. x.tr = PublicOf(b) \/ x.tr = Unhashed(b)
    BY DEF SkOf
  <2>2. [x.tr EXCEPT !.rho = NoHash, !.t1 = NoHash] = Unhashed(b)
    <3>1. x.tr \in [form : {"pk"}, rho : {b, NoHash}, t1 : {b, NoHash},
                    len : {PublicKeyBytes(b[1])}]
      BY <2>1 DEF PublicOf, Unhashed
    <3> DEFINE z == [x.tr EXCEPT !.rho = NoHash, !.t1 = NoHash]
    <3>2. z \in [form : {"pk"}, rho : {NoHash}, t1 : {NoHash}, len : {PublicKeyBytes(b[1])}]
      BY <3>1
    <3> HIDE DEF z
    <3>3. z = Unhashed(b)
      BY <3>2 DEF Unhashed
    <3> QED BY <3>3 DEF z
  <2>3. d = [x EXCEPT !.tr = Unhashed(b)]
    BY <1>3, <2>2
  <2> HIDE DEF Unhashed
  <2> QED BY <2>3 DEF SkOf
<1>4. CASE d = [x EXCEPT !.s = Damaged] /\ x.len > 2 * SEEDBYTES + TRBYTES
  <2>1. x.len = SecretKeyBytes(b[1])
    BY DEF SkOf
  <2>2. b[1] \in Listed
    <3>1. ~(x.len > x.len)
      <4>1. x.len \in Int
        BY <2>1, BirthsGenuine, SecretLengths, SMT DEF Mode
      <4> QED BY <4>1, SMT
    <3> QED BY <1>4, <2>1, <3>1, BirthsGenuine, ListedOrEmpty
  <2>3. Damaged \in SecretsOf(b)
    BY <2>2 DEF SecretsOf
  <2> QED BY <1>4, <2>3 DEF SkOf
<1>5. \/ d = [x EXCEPT !.rho = Damaged] \/ d = [x EXCEPT !.key = Damaged]
      \/ d = [x EXCEPT !.tr = [x.tr EXCEPT !.rho = NoHash, !.t1 = NoHash]]
      \/ d = [x EXCEPT !.s = Damaged] /\ x.len > 2 * SEEDBYTES + TRBYTES
  BY DEF DamagesSk, Written
<1> QED BY <1>1, <1>2, <1>3, <1>4, <1>5

(* The caller's writes keep an array what it is, and its length.           *)
LEMMA DamagedArray ==
  ASSUME NEW b \in Births, NEW x, NEW d \in Damages(x)
  PROVE  /\ x \in PkOf(b) => d \in PkOf(b)
         /\ x \in SkOf(b) => d \in SkOf(b)
         /\ x \in SigOf(b) => d \in SigOf(b)
         /\ x \in PubOf(b) => d \in PubOf(b)
         /\ x \in PairOf(b) => d \in PairOf(b)
<1>1. ASSUME x \in PkOf(b) PROVE d \in PkOf(b)
  <2>1. x.form = "pk"
    BY <1>1 DEF PkOf
  <2>2. d \in DamagesPk(x)
    BY <2>1 DEF Damages
  <2> QED BY <1>1, <2>2, DamagedPk
<1>2. ASSUME x \in SkOf(b) PROVE d \in SkOf(b)
  <2>1. x.form = "sk"
    BY <1>2 DEF SkOf
  <2>2. d \in DamagesSk(x)
    BY <2>1 DEF Damages
  <2> QED BY <1>2, <2>2, DamagedSk
<1>3. ASSUME x \in SigOf(b) PROVE d \in SigOf(b)
  <2>1. x.form = "sig" /\ x.by \in SkOf(b) /\ x.len = SignatureBytes(b[1])
    BY <1>3 DEF SigOf
  <2>2. d = [x EXCEPT !.by.s = Damaged] /\ x.len > 0
    BY <2>1 DEF Damages, Written
  <2>3. b[1] \in Listed
    <3>1. b[1] \in Mode /\ ~(0 > 0)
      BY BirthsGenuine, SMT
    <3> QED BY <2>1, <2>2, <3>1, ListedOrEmpty
  <2>4. [x.by EXCEPT !.s = Damaged] \in SkOf(b)
    <3>1. Damaged \in SecretsOf(b)
      BY <2>3 DEF SecretsOf
    <3> QED BY <2>1, <3>1 DEF SkOf
  <2>5. d = [x EXCEPT !.by = [x.by EXCEPT !.s = Damaged]]
    BY <1>3, <2>2 DEF SigOf
  <2> QED BY <1>3, <2>4, <2>5 DEF SigOf
<1>4. ASSUME x \in PubOf(b) PROVE d \in PubOf(b)
  <2>1. x.form = "pub" /\ x.pk \in PkOf(b)
    BY <1>4 DEF PubOf
  <2>2. (\E t \in Tags : d = [x EXCEPT !.tag = t])
          \/ \E p \in DamagesPk(x.pk) : d = [x EXCEPT !.pk = p]
    BY <2>1 DEF Damages
  <2>3. ASSUME NEW t \in Tags, d = [x EXCEPT !.tag = t] PROVE d \in PubOf(b)
    BY <1>4, <2>3 DEF PubOf
  <2>4. ASSUME NEW p \in DamagesPk(x.pk), d = [x EXCEPT !.pk = p] PROVE d \in PubOf(b)
    <3>1. p \in PkOf(b)
      BY <2>1, DamagedPk
    <3> QED BY <1>4, <2>4, <3>1 DEF PubOf
  <2> QED BY <2>2, <2>3, <2>4
<1>5. ASSUME x \in PairOf(b) PROVE d \in PairOf(b)
  <2>1. x.form = "pair" /\ x.pk \in PkOf(b) /\ x.sk \in SkOf(b)
    BY <1>5 DEF PairOf
  <2>2. \/ \E t \in Tags : d = [x EXCEPT !.tag = t]
        \/ \E p \in DamagesPk(x.pk) : d = [x EXCEPT !.pk = p]
        \/ \E s \in DamagesSk(x.sk) : d = [x EXCEPT !.sk = s]
    BY <2>1 DEF Damages
  <2>3. ASSUME NEW t \in Tags, d = [x EXCEPT !.tag = t] PROVE d \in PairOf(b)
    BY <1>5, <2>3 DEF PairOf
  <2>4. ASSUME NEW p \in DamagesPk(x.pk), d = [x EXCEPT !.pk = p] PROVE d \in PairOf(b)
    <3>1. p \in PkOf(b)
      BY <2>1, DamagedPk
    <3> QED BY <1>5, <2>4, <3>1 DEF PairOf
  <2>5. ASSUME NEW s \in DamagesSk(x.sk), d = [x EXCEPT !.sk = s] PROVE d \in PairOf(b)
    <3>1. s \in SkOf(b)
      BY <2>1, DamagedSk
    <3> QED BY <1>5, <2>5, <3>1 DEF PairOf
  <2> QED BY <2>2, <2>3, <2>4, <2>5
<1> QED BY <1>1, <1>2, <1>3, <1>4, <1>5

LEMMA DamagedStays ==
  ASSUME NEW x \in Array, NEW d \in Damages(x)
  PROVE  d \in Array /\ d.form = x.form
<1>1. PICK b \in Births : x \in PkOf(b) \cup SkOf(b) \cup SigOf(b) \cup PubOf(b) \cup PairOf(b)
  BY DEF Array
<1>2. CASE x \in PkOf(b)
  <2>1. d \in PkOf(b)
    BY <1>2, DamagedArray
  <2> QED BY <1>2, <2>1 DEF Array, PkOf
<1>3. CASE x \in SkOf(b)
  <2>1. d \in SkOf(b)
    BY <1>3, DamagedArray
  <2> QED BY <1>3, <2>1 DEF Array, SkOf
<1>4. CASE x \in SigOf(b)
  <2>1. d \in SigOf(b)
    BY <1>4, DamagedArray
  <2> QED BY <1>4, <2>1 DEF Array, SigOf
<1>5. CASE x \in PubOf(b)
  <2>1. d \in PubOf(b)
    BY <1>5, DamagedArray
  <2> QED BY <1>5, <2>1 DEF Array, PubOf
<1>6. CASE x \in PairOf(b)
  <2>1. d \in PairOf(b)
    BY <1>6, DamagedArray
  <2> QED BY <1>6, <2>1 DEF Array, PairOf
<1> QED BY <1>1, <1>2, <1>3, <1>4, <1>5, <1>6

-----------------------------------------------------------------------------
(* What FromKeys accepts.                                                  *)

(* The parts of a pair as Keypair made them, or with other secrets.        *)
Born(p, b) ==
  /\ p.mode = b[1] /\ p.pk0 = PublicOf(b)
  /\ p.sk0 \in SkOf(b) /\ p.sk0.rho = b /\ p.sk0.tr = PublicOf(b)

LEMMA AcceptedGenuine ==
  ASSUME NEW b \in Births, NEW c \in Births, NEW m \in Mode,
         NEW pk \in PkOf(b), NEW sk \in SkOf(c), Accepted(sk, pk, m)
  PROVE  b = c /\ m = b[1] /\ pk = PublicOf(b) /\ sk.rho = b /\ sk.tr = PublicOf(b)
<1>1. sk.rho = pk.rho /\ sk.tr = pk /\ pk.len = PublicKeyBytes(m)
  BY DEF Accepted, LengthsFit, KeysMatch
<1>2. sk.tr = PublicOf(c)
  <2>1. sk.tr = PublicOf(c) \/ sk.tr = Unhashed(c)
    BY DEF SkOf
  <2>2. Unhashed(c).rho = NoHash
    BY DEF Unhashed
  <2>3. pk.rho = b \/ pk.rho = Damaged
    BY DEF PkOf
  <2> QED BY <1>1, <2>1, <2>2, <2>3, BirthsGenuine
<1>3. PublicOf(c).rho = c /\ PublicOf(c).len = PublicKeyBytes(c[1])
  BY DEF PublicOf
<1>4. pk.rho = c /\ c = b
  <2>1. pk.rho = b \/ pk.rho = Damaged
    BY DEF PkOf
  <2> QED BY <1>1, <1>2, <1>3, <2>1, BirthsGenuine
<1>5. m = b[1]
  BY <1>1, <1>2, <1>3, <1>4, BirthsGenuine, ModeOfLength
<1> QED BY <1>1, <1>2, <1>4, <1>5

-----------------------------------------------------------------------------
(* The inductive invariant.                                                *)

PairRecord ==
  [priv : Nat, pub : Nat, mode : Mode, sk0 : UNION {SkOf(b) : b \in Births},
   pk0 : UNION {PkOf(b) : b \in Births}]

SigRecord == [data : Nat, data0 : Array]

(* Pair n, on the heap hp, when the caller holds hd and sh is shared: its  *)
(* arrays are keys of the birth it was made with, the caller holds them    *)
(* only by way of an accessor, and they are unchanged before that.         *)
PairOK(p, n, hp, hd, sh) ==
  /\ p.priv \in DOMAIN hp /\ p.pub \in DOMAIN hp
  /\ \E b \in Births : Born(p, b) /\ hp[p.priv] \in SkOf(b) /\ hp[p.pub] \in PkOf(b)
  /\ (p.priv \in hd) => (<<"priv", n>> \in sh)
  /\ (p.pub \in hd) => (<<"pub", n>> \in sh)
  /\ (<<"priv", n>> \notin sh) => (hp[p.priv] = p.sk0)
  /\ (<<"pub", n>> \notin sh) => (hp[p.pub] = p.pk0)

SigOK(s, n, hp, hd, sh) ==
  /\ s.data \in DOMAIN hp /\ hp[s.data].form = "sig"
  /\ (s.data \in hd) => (<<"data", n>> \in sh)
  /\ (<<"data", n>> \notin sh) => (hp[s.data] = s.data0)

Shapes ==
  /\ heap \in Seq(Array) /\ held \subseteq DOMAIN heap
  /\ pairs \in Seq(PairRecord) /\ sigs \in Seq(SigRecord)

(* Two pairs have no array in common, and two signatures only one that the *)
(* caller holds.                                                           *)
Apart ==
  /\ \A m, n \in DOMAIN pairs :
       (m # n) => (pairs[m].priv # pairs[n].priv /\ pairs[m].pub # pairs[n].pub)
  /\ \A m, n \in DOMAIN sigs :
       (m # n /\ sigs[m].data = sigs[n].data) => sigs[m].data \in held

KInv ==
  /\ Shapes /\ Apart
  /\ \A n \in DOMAIN pairs : PairOK(pairs[n], n, heap, held, shared)
  /\ \A n \in DOMAIN sigs : SigOK(sigs[n], n, heap, held, shared)

(* A heap that keeps its arrays and may get new ones.                      *)
Grows(hp, hp2) == \A x \in DOMAIN hp : x \in DOMAIN hp2 /\ hp2[x] = hp[x]

LEMMA PairStays ==
  ASSUME NEW p, NEW n, NEW hp, NEW hp2, NEW hd, NEW hd2, NEW sh, NEW sh2,
         PairOK(p, n, hp, hd, sh), Grows(hp, hp2), sh \subseteq sh2,
         (p.priv \in hd2) => (p.priv \in hd \/ <<"priv", n>> \in sh2),
         (p.pub \in hd2) => (p.pub \in hd \/ <<"pub", n>> \in sh2)
  PROVE  PairOK(p, n, hp2, hd2, sh2)
<1>1. /\ p.priv \in DOMAIN hp /\ p.pub \in DOMAIN hp
      /\ (p.priv \in hd) => (<<"priv", n>> \in sh)
      /\ (p.pub \in hd) => (<<"pub", n>> \in sh)
      /\ (<<"priv", n>> \notin sh) => (hp[p.priv] = p.sk0)
      /\ (<<"pub", n>> \notin sh) => (hp[p.pub] = p.pk0)
  BY DEF PairOK
<1>2. /\ p.priv \in DOMAIN hp2 /\ p.pub \in DOMAIN hp2
      /\ hp2[p.priv] = hp[p.priv] /\ hp2[p.pub] = hp[p.pub]
  BY <1>1 DEF Grows
<1>3. \E b \in Births : Born(p, b) /\ hp2[p.priv] \in SkOf(b) /\ hp2[p.pub] \in PkOf(b)
  BY <1>2 DEF PairOK
<1>4. /\ (p.priv \in hd2) => (<<"priv", n>> \in sh2)
      /\ (p.pub \in hd2) => (<<"pub", n>> \in sh2)
      /\ (<<"priv", n>> \notin sh2) => (hp2[p.priv] = p.sk0)
      /\ (<<"pub", n>> \notin sh2) => (hp2[p.pub] = p.pk0)
  BY <1>1, <1>2
<1> QED BY <1>2, <1>3, <1>4 DEF PairOK

LEMMA SigStays ==
  ASSUME NEW s, NEW n, NEW hp, NEW hp2, NEW hd, NEW hd2, NEW sh, NEW sh2,
         SigOK(s, n, hp, hd, sh), Grows(hp, hp2), sh \subseteq sh2,
         (s.data \in hd2) => (s.data \in hd \/ <<"data", n>> \in sh2)
  PROVE  SigOK(s, n, hp2, hd2, sh2)
<1>1. s.data \in DOMAIN hp2 /\ hp2[s.data] = hp[s.data]
  BY DEF Grows, SigOK
<1> QED BY <1>1 DEF SigOK

(* A new array or two at the end of the heap.                              *)
LEMMA HeapGrows ==
  ASSUME heap \in Seq(Array), NEW new \in Seq(Array), heap' = heap \o new
  PROVE  /\ heap' \in Seq(Array) /\ Grows(heap, heap') /\ Len(heap) \in Nat
         /\ DOMAIN heap = 1 .. Len(heap) /\ DOMAIN heap' = 1 .. Len(heap) + Len(new)
         /\ \A n \in 1 .. Len(new) :
              /\ Len(heap) + n \in DOMAIN heap' /\ Len(heap) + n \notin DOMAIN heap
              /\ heap'[Len(heap) + n] = new[n]
<1>1. /\ Len(heap) \in Nat /\ Len(new) \in Nat /\ DOMAIN heap = 1 .. Len(heap)
      /\ heap' \in Seq(Array) /\ Len(heap') = Len(heap) + Len(new)
      /\ \A n \in 1 .. Len(heap) + Len(new) :
           heap'[n] = IF n <= Len(heap) THEN heap[n] ELSE new[n - Len(heap)]
  BY LenProperties, ConcatProperties
<1>2. DOMAIN heap' = 1 .. Len(heap) + Len(new)
  BY <1>1, LenProperties
<1>3. Grows(heap, heap')
  <2> SUFFICES ASSUME NEW x \in 1 .. Len(heap)
               PROVE  x \in 1 .. Len(heap) + Len(new) /\ heap'[x] = heap[x]
    BY <1>1, <1>2 DEF Grows
  <2>1. x \in 1 .. Len(heap) + Len(new) /\ x <= Len(heap)
    BY <1>1, SMT
  <2> QED BY <1>1, <2>1
<1>4. ASSUME NEW n \in 1 .. Len(new)
      PROVE  /\ Len(heap) + n \in DOMAIN heap' /\ Len(heap) + n \notin DOMAIN heap
             /\ heap'[Len(heap) + n] = new[n]
  <2>1. /\ Len(heap) + n \in 1 .. Len(heap) + Len(new) /\ ~(Len(heap) + n <= Len(heap))
        /\ Len(heap) + n \notin 1 .. Len(heap) /\ (Len(heap) + n) - Len(heap) = n
    BY <1>1, SMT
  <2> QED BY <1>1, <1>2, <2>1
<1> QED BY <1>1, <1>2, <1>3, <1>4

(* Objects as they were, and perhaps a new array for the caller.           *)
LEMMA ObjectsStay ==
  ASSUME KInv, heap' \in Seq(Array), Grows(heap, heap'), shared' = shared,
         held \subseteq held', held' \subseteq DOMAIN heap',
         \A x \in held' : x \in held \/ x \notin DOMAIN heap,
         pairs' = pairs, sigs' = sigs
  PROVE  KInv'
<1>1. Shapes'
  BY DEF KInv, Shapes
<1>2. Apart'
  BY DEF KInv, Apart
<1>3. ASSUME NEW n \in DOMAIN pairs
      PROVE  PairOK(pairs[n], n, heap', held', shared')
  <2>1. PairOK(pairs[n], n, heap, held, shared)
    BY DEF KInv
  <2>2. pairs[n].priv \in DOMAIN heap /\ pairs[n].pub \in DOMAIN heap
    BY <2>1 DEF PairOK
  <2>3. /\ pairs[n].priv \in held' => pairs[n].priv \in held
        /\ pairs[n].pub \in held' => pairs[n].pub \in held
    BY <2>2
  <2> QED BY <2>1, <2>3, PairStays
<1>4. ASSUME NEW n \in DOMAIN sigs
      PROVE  SigOK(sigs[n], n, heap', held', shared')
  <2>1. SigOK(sigs[n], n, heap, held, shared)
    BY DEF KInv
  <2>2. sigs[n].data \in held' => sigs[n].data \in held
    BY <2>1 DEF SigOK
  <2> QED BY <2>1, <2>2, SigStays
<1> QED BY <1>1, <1>2, <1>3, <1>4 DEF KInv

(* ToBytes, PublicKeyBytes and FromPublicKey.                              *)
LEMMA StepReturn ==
  ASSUME KInv, NEW x \in Array, Return(x), shared' = shared, pairs' = pairs, sigs' = sigs
  PROVE  KInv'
<1>1. heap' = Append(heap, x) /\ held' = held \cup {Len(heap) + 1} /\ heap \in Seq(Array)
      /\ held \subseteq DOMAIN heap
  BY DEF Return, KInv, Shapes
<1>2. heap' = heap \o <<x>> /\ <<x>> \in Seq(Array) /\ Len(<<x>>) = 1 /\ 1 \in 1 .. 1
  BY <1>1, AppendIsConcat, SMT
<1>3. /\ heap' \in Seq(Array) /\ Grows(heap, heap')
      /\ Len(heap) + 1 \in DOMAIN heap' /\ Len(heap) + 1 \notin DOMAIN heap
  BY <1>1, <1>2, HeapGrows
<1>4. held' \subseteq DOMAIN heap'
  BY <1>1, <1>3 DEF Grows
<1> QED BY <1>1, <1>3, <1>4, ObjectsStay

(* A new pair, of the parts of one birth.                                  *)
LEMMA StepNewPair ==
  ASSUME KInv, NEW b \in Births, NEW pk \in PkOf(b), NEW sk \in SkOf(b), NEW m,
         m = b[1], pk = PublicOf(b), sk.rho = b, sk.tr = PublicOf(b),
         NewPair(m, sk, pk), held' = held, shared' = shared, sigs' = sigs
  PROVE  KInv'
<1> DEFINE p == [priv |-> Len(heap) + 1, pub |-> Len(heap) + 2, mode |-> m,
                 sk0 |-> sk, pk0 |-> pk]
<1>1. /\ heap' = heap \o <<sk, pk>> /\ pairs' = Append(pairs, p)
      /\ heap \in Seq(Array) /\ pairs \in Seq(PairRecord) /\ held \subseteq DOMAIN heap
  BY DEF NewPair, KInv, Shapes
<1>2. /\ <<sk, pk>> \in Seq(Array) /\ Len(<<sk, pk>>) = 2 /\ 1 \in 1 .. 2 /\ 2 \in 1 .. 2
      /\ <<sk, pk>>[1] = sk /\ <<sk, pk>>[2] = pk
  <2>1. sk \in Array /\ pk \in Array
    BY DEF Array
  <2> QED BY <2>1, SMT
<1>3. /\ heap' \in Seq(Array) /\ Grows(heap, heap') /\ Len(heap) \in Nat
      /\ Len(heap) + 1 \in DOMAIN heap' /\ Len(heap) + 1 \notin DOMAIN heap
      /\ Len(heap) + 2 \in DOMAIN heap' /\ Len(heap) + 2 \notin DOMAIN heap
      /\ heap'[Len(heap) + 1] = sk /\ heap'[Len(heap) + 2] = pk
  BY <1>1, <1>2, HeapGrows
<1>4. p \in PairRecord
  <2>1. Len(heap) + 1 \in Nat /\ Len(heap) + 2 \in Nat /\ m \in Mode
    BY <1>3, BirthsGenuine, SMT
  <2> QED BY <2>1 DEF PairRecord
<1>5. PairOK(p, Len(pairs) + 1, heap', held', shared')
  <2>1. /\ p.priv = Len(heap) + 1 /\ p.pub = Len(heap) + 2 /\ p.mode = m /\ p.sk0 = sk
        /\ p.pk0 = pk
    OBVIOUS
  <2> HIDE DEF p
  <2>2. p.priv \notin held' /\ p.pub \notin held'
    BY <1>1, <1>3, <2>1
  <2>3. Born(p, b)
    BY <2>1 DEF Born
  <2> QED BY <1>3, <2>1, <2>2, <2>3 DEF PairOK
<1> HIDE DEF p
<1>6. /\ pairs' \in Seq(PairRecord) /\ Len(pairs) \in Nat
      /\ DOMAIN pairs = 1 .. Len(pairs) /\ DOMAIN pairs' = 1 .. Len(pairs) + 1
      /\ \A n \in DOMAIN pairs : pairs'[n] = pairs[n]
      /\ pairs'[Len(pairs) + 1] = p
  BY <1>1, <1>4, AppendProperties, LenProperties
<1>7. \A n \in DOMAIN pairs' : n \in DOMAIN pairs \/ n = Len(pairs) + 1
  BY <1>6, SMT
<1>8. Shapes'
  <2>1. held \subseteq DOMAIN heap'
    BY <1>1, <1>3 DEF Grows
  <2> QED BY <1>3, <1>6, <2>1 DEF KInv, Shapes
<1>9. ASSUME NEW n \in DOMAIN pairs
      PROVE  PairOK(pairs[n], n, heap', held', shared')
  <2>1. PairOK(pairs[n], n, heap, held, shared)
    BY DEF KInv
  <2> QED BY <1>3, <2>1, PairStays
<1>10. \A n \in DOMAIN pairs' : PairOK(pairs'[n], n, heap', held', shared')
  BY <1>5, <1>6, <1>7, <1>9
<1>11. ASSUME NEW n \in DOMAIN sigs'
       PROVE  SigOK(sigs'[n], n, heap', held', shared')
  <2>1. SigOK(sigs[n], n, heap, held, shared)
    BY DEF KInv
  <2> QED BY <1>3, <2>1, SigStays
<1>12. Apart'
  <2>1. \A n \in DOMAIN pairs : pairs[n].priv # p.priv /\ pairs[n].pub # p.pub
    <3> SUFFICES ASSUME NEW n \in DOMAIN pairs
                 PROVE  pairs[n].priv # p.priv /\ pairs[n].pub # p.pub
      OBVIOUS
    <3>1. pairs[n].priv \in DOMAIN heap /\ pairs[n].pub \in DOMAIN heap
      BY DEF KInv, PairOK
    <3>2. p.priv = Len(heap) + 1 /\ p.pub = Len(heap) + 2
      BY DEF p
    <3> QED BY <1>3, <3>1, <3>2
  <2>2. ASSUME NEW n \in DOMAIN pairs', NEW o \in DOMAIN pairs', n # o
        PROVE  pairs'[n].priv # pairs'[o].priv /\ pairs'[n].pub # pairs'[o].pub
    <3>1. CASE n \in DOMAIN pairs /\ o \in DOMAIN pairs
      BY <1>6, <2>2, <3>1 DEF KInv, Apart
    <3>2. CASE n \in DOMAIN pairs /\ o = Len(pairs) + 1
      BY <1>6, <2>1, <3>2
    <3>3. CASE n = Len(pairs) + 1 /\ o \in DOMAIN pairs
      BY <1>6, <2>1, <3>3
    <3> QED BY <1>7, <2>2, <3>1, <3>2, <3>3
  <2>3. \A n, o \in DOMAIN sigs' :
          (n # o /\ sigs'[n].data = sigs'[o].data) => sigs'[n].data \in held'
    BY DEF KInv, Apart
  <2> QED BY <2>2, <2>3 DEF Apart
<1> QED BY <1>8, <1>10, <1>11, <1>12 DEF KInv

(* A new signature, over a new array or over one the caller holds.         *)
LEMMA StepNewSignature ==
  ASSUME KInv, heap' \in Seq(Array), Grows(heap, heap'), NEW address \in DOMAIN heap',
         NEW x, heap'[address] = x, x.form = "sig", address \in Nat,
         \/ address \notin DOMAIN heap
         \/ address \in held /\ <<"data", Len(sigs) + 1>> \in shared',
         NewSignature(address, x), held' = held, shared \subseteq shared', pairs' = pairs
  PROVE  KInv'
<1> DEFINE s == [data |-> address, data0 |-> x]
<1>1. /\ sigs' = Append(sigs, s) /\ sigs \in Seq(SigRecord) /\ held \subseteq DOMAIN heap
      /\ pairs \in Seq(PairRecord)
  BY DEF NewSignature, KInv, Shapes
<1>2. s \in SigRecord
  <2>1. x \in Array
    BY ElementOfSeq, LenProperties
  <2> QED BY <2>1 DEF SigRecord
<1>3. s.data = address /\ s.data0 = x
  OBVIOUS
<1> HIDE DEF s
<1>4. /\ sigs' \in Seq(SigRecord) /\ Len(sigs) \in Nat
      /\ DOMAIN sigs = 1 .. Len(sigs) /\ DOMAIN sigs' = 1 .. Len(sigs) + 1
      /\ \A n \in DOMAIN sigs : sigs'[n] = sigs[n]
      /\ sigs'[Len(sigs) + 1] = s
  BY <1>1, <1>2, AppendProperties, LenProperties
<1>5. \A n \in DOMAIN sigs' : n \in DOMAIN sigs \/ n = Len(sigs) + 1
  BY <1>4, SMT
<1>6. Shapes'
  <2>1. held \subseteq DOMAIN heap'
    BY <1>1 DEF Grows
  <2> QED BY <1>1, <1>4, <2>1 DEF Shapes
<1>7. SigOK(s, Len(sigs) + 1, heap', held', shared')
  BY <1>1, <1>3 DEF SigOK
<1>8. ASSUME NEW n \in DOMAIN sigs
      PROVE  SigOK(sigs[n], n, heap', held', shared')
  <2>1. SigOK(sigs[n], n, heap, held, shared)
    BY DEF KInv
  <2> QED BY <2>1, SigStays
<1>9. \A n \in DOMAIN sigs' : SigOK(sigs'[n], n, heap', held', shared')
  BY <1>4, <1>5, <1>7, <1>8
<1>10. ASSUME NEW n \in DOMAIN pairs'
       PROVE  PairOK(pairs'[n], n, heap', held', shared')
  <2>1. PairOK(pairs[n], n, heap, held, shared)
    BY DEF KInv
  <2> QED BY <2>1, PairStays
<1>11. Apart'
  <2>1. \A n \in DOMAIN sigs : (sigs[n].data = address) => address \in held
    <3> SUFFICES ASSUME NEW n \in DOMAIN sigs, sigs[n].data = address PROVE address \in held
      OBVIOUS
    <3>1. sigs[n].data \in DOMAIN heap
      BY DEF KInv, SigOK
    <3> QED BY <3>1
  <2>2. ASSUME NEW n \in DOMAIN sigs', NEW o \in DOMAIN sigs', n # o,
               sigs'[n].data = sigs'[o].data
        PROVE  sigs'[n].data \in held'
    <3>1. CASE n \in DOMAIN sigs /\ o \in DOMAIN sigs
      BY <1>4, <2>2, <3>1 DEF KInv, Apart
    <3>2. CASE n \in DOMAIN sigs /\ o = Len(sigs) + 1
      BY <1>3, <1>4, <2>1, <2>2, <3>2
    <3>3. CASE n = Len(sigs) + 1 /\ o \in DOMAIN sigs
      BY <1>3, <1>4, <2>1, <2>2, <3>3
    <3> QED BY <1>5, <2>2, <3>1, <3>2, <3>3
  <2> QED BY <2>2 DEF KInv, Apart
<1> QED BY <1>6, <1>9, <1>10, <1>11 DEF KInv

(* The forms of an object's arrays.                                        *)
LEMMA ObjectForms ==
  ASSUME KInv
  PROVE  /\ \A n \in DOMAIN pairs : /\ heap[pairs[n].priv].form = "sk"
                                    /\ heap[pairs[n].pub].form = "pk"
         /\ \A n \in DOMAIN sigs : heap[sigs[n].data].form = "sig"
<1>1. ASSUME NEW n \in DOMAIN pairs
      PROVE  heap[pairs[n].priv].form = "sk" /\ heap[pairs[n].pub].form = "pk"
  <2>1. PICK b \in Births : heap[pairs[n].priv] \in SkOf(b) /\ heap[pairs[n].pub] \in PkOf(b)
    BY DEF KInv, PairOK
  <2> QED BY <2>1 DEF SkOf, PkOf
<1> QED BY <1>1 DEF KInv, SigOK

(* An accessor shares one slice of one object, and every other object with *)
(* that array was shared before.                                           *)
LEMMA StepExpose ==
  ASSUME KInv, NEW slice, NEW address \in DOMAIN heap, Expose(slice, address),
         \A n \in DOMAIN pairs :
           /\ (pairs[n].priv = address) => (slice = <<"priv", n>>)
           /\ (pairs[n].pub = address) => (slice = <<"pub", n>>),
         \A n \in DOMAIN sigs :
           (sigs[n].data = address) => (address \in held \/ slice = <<"data", n>>)
  PROVE  KInv'
<1>1. /\ held' = held \cup {address} /\ shared' = shared \cup {slice} /\ heap' = heap
      /\ pairs' = pairs /\ sigs' = sigs
  BY DEF Expose
<1>2. Shapes' /\ Apart'
  BY <1>1 DEF KInv, Shapes, Apart
<1>3. Grows(heap, heap') /\ shared \subseteq shared'
  BY <1>1 DEF Grows
<1>4. ASSUME NEW n \in DOMAIN pairs
      PROVE  PairOK(pairs[n], n, heap', held', shared')
  <2>1. PairOK(pairs[n], n, heap, held, shared)
    BY DEF KInv
  <2>2. /\ pairs[n].priv \in held' => (pairs[n].priv \in held \/ <<"priv", n>> \in shared')
        /\ pairs[n].pub \in held' => (pairs[n].pub \in held \/ <<"pub", n>> \in shared')
    BY <1>1
  <2> QED BY <1>3, <2>1, <2>2, PairStays
<1>5. ASSUME NEW n \in DOMAIN sigs
      PROVE  SigOK(sigs[n], n, heap', held', shared')
  <2>1. SigOK(sigs[n], n, heap, held, shared)
    BY DEF KInv
  <2>2. sigs[n].data \in held' => (sigs[n].data \in held \/ <<"data", n>> \in shared')
    BY <1>1
  <2> QED BY <1>3, <2>1, <2>2, SigStays
<1> QED BY <1>1, <1>2, <1>4, <1>5 DEF KInv

LEMMA StepPublicKey ==
  ASSUME KInv, PublicKey
  PROVE  KInv'
<1>1. PICK h \in DOMAIN pairs : Expose(<<"pub", h>>, pairs[h].pub)
  BY DEF PublicKey
<1>2. pairs[h].pub \in DOMAIN heap /\ heap[pairs[h].pub].form = "pk"
  BY ObjectForms DEF KInv, PairOK
<1>3. ASSUME NEW n \in DOMAIN pairs
      PROVE  pairs[n].priv # pairs[h].pub /\ (pairs[n].pub = pairs[h].pub => n = h)
  <2>1. heap[pairs[n].priv].form = "sk"
    BY ObjectForms
  <2>2. pairs[n].pub = pairs[h].pub => n = h
    BY DEF KInv, Apart
  <2> QED BY <1>2, <2>1, <2>2
<1>4. \A n \in DOMAIN sigs : sigs[n].data # pairs[h].pub
  BY <1>2, ObjectForms
<1> QED BY <1>1, <1>2, <1>3, <1>4, StepExpose

LEMMA StepPrivateKey ==
  ASSUME KInv, PrivateKey
  PROVE  KInv'
<1>1. PICK h \in DOMAIN pairs : Expose(<<"priv", h>>, pairs[h].priv)
  BY DEF PrivateKey
<1>2. pairs[h].priv \in DOMAIN heap /\ heap[pairs[h].priv].form = "sk"
  BY ObjectForms DEF KInv, PairOK
<1>3. ASSUME NEW n \in DOMAIN pairs
      PROVE  pairs[n].pub # pairs[h].priv /\ (pairs[n].priv = pairs[h].priv => n = h)
  <2>1. heap[pairs[n].pub].form = "pk"
    BY ObjectForms
  <2>2. pairs[n].priv = pairs[h].priv => n = h
    BY DEF KInv, Apart
  <2> QED BY <1>2, <2>1, <2>2
<1>4. \A n \in DOMAIN sigs : sigs[n].data # pairs[h].priv
  BY <1>2, ObjectForms
<1> QED BY <1>1, <1>2, <1>3, <1>4, StepExpose

LEMMA StepAsBytes ==
  ASSUME KInv, AsBytes
  PROVE  KInv'
<1>1. PICK s \in DOMAIN sigs : Expose(<<"data", s>>, sigs[s].data)
  BY DEF AsBytes
<1>2. sigs[s].data \in DOMAIN heap /\ heap[sigs[s].data].form = "sig"
  BY DEF KInv, SigOK
<1>3. \A n \in DOMAIN pairs : pairs[n].priv # sigs[s].data /\ pairs[n].pub # sigs[s].data
  BY <1>2, ObjectForms
<1>4. \A n \in DOMAIN sigs :
        (sigs[n].data = sigs[s].data) => (sigs[s].data \in held \/ <<"data", s>> = <<"data", n>>)
  BY DEF KInv, Apart
<1> QED BY <1>1, <1>2, <1>3, <1>4, StepExpose

(* The caller writes into an array it holds: what is in it is shared.      *)
LEMMA StepWrite ==
  ASSUME KInv, Write
  PROVE  KInv'
<1>1. PICK x \in held : \E d \in Damages(heap[x]) : heap' = [heap EXCEPT ![x] = d]
  BY DEF Write
<1>2. PICK d \in Damages(heap[x]) : heap' = [heap EXCEPT ![x] = d]
  BY <1>1
<1>3. /\ held' = held /\ shared' = shared /\ pairs' = pairs /\ sigs' = sigs
      /\ heap \in Seq(Array) /\ x \in DOMAIN heap /\ DOMAIN heap = 1 .. Len(heap)
  BY LenProperties DEF Write, KInv, Shapes
<1>4. d \in Array /\ d.form = heap[x].form
  <2>1. heap[x] \in Array
    BY <1>3, ElementOfSeq
  <2> QED BY <2>1, DamagedStays
<1>5. heap' \in Seq(Array) /\ DOMAIN heap' = DOMAIN heap
  BY <1>2, <1>3, <1>4, ExceptSeq
<1>6. heap'[x] = d /\ \A y \in DOMAIN heap : (y # x) => (heap'[y] = heap[y])
  BY <1>2, <1>3
<1>7. Shapes' /\ Apart'
  BY <1>3, <1>5 DEF KInv, Shapes, Apart
<1>8. ASSUME NEW n \in DOMAIN pairs
      PROVE  PairOK(pairs[n], n, heap', held', shared')
  <2>1. PairOK(pairs[n], n, heap, held, shared)
    BY DEF KInv
  <2>2. PICK b \in Births : /\ Born(pairs[n], b) /\ heap[pairs[n].priv] \in SkOf(b)
                            /\ heap[pairs[n].pub] \in PkOf(b)
    BY <2>1 DEF PairOK
  <2>3. /\ pairs[n].priv \in DOMAIN heap /\ pairs[n].pub \in DOMAIN heap
        /\ (pairs[n].priv \in held) => (<<"priv", n>> \in shared)
        /\ (pairs[n].pub \in held) => (<<"pub", n>> \in shared)
        /\ (<<"priv", n>> \notin shared) => (heap[pairs[n].priv] = pairs[n].sk0)
        /\ (<<"pub", n>> \notin shared) => (heap[pairs[n].pub] = pairs[n].pk0)
    BY <2>1 DEF PairOK
  <2>4. heap'[pairs[n].priv] \in SkOf(b)
    <3>1. CASE pairs[n].priv = x
      BY <1>2, <1>6, <2>2, <3>1, DamagedArray
    <3>2. CASE pairs[n].priv # x
      BY <1>6, <2>2, <2>3, <3>2
    <3> QED BY <3>1, <3>2
  <2>5. heap'[pairs[n].pub] \in PkOf(b)
    <3>1. CASE pairs[n].pub = x
      BY <1>2, <1>6, <2>2, <3>1, DamagedArray
    <3>2. CASE pairs[n].pub # x
      BY <1>6, <2>2, <2>3, <3>2
    <3> QED BY <3>1, <3>2
  <2>6. /\ (<<"priv", n>> \notin shared) => (heap'[pairs[n].priv] = pairs[n].sk0)
        /\ (<<"pub", n>> \notin shared) => (heap'[pairs[n].pub] = pairs[n].pk0)
    BY <1>6, <2>3
  <2> QED BY <1>3, <1>5, <2>2, <2>3, <2>4, <2>5, <2>6 DEF PairOK
<1>9. ASSUME NEW n \in DOMAIN sigs
      PROVE  SigOK(sigs[n], n, heap', held', shared')
  <2>1. /\ sigs[n].data \in DOMAIN heap /\ heap[sigs[n].data].form = "sig"
        /\ (sigs[n].data \in held) => (<<"data", n>> \in shared)
        /\ (<<"data", n>> \notin shared) => (heap[sigs[n].data] = sigs[n].data0)
    BY DEF KInv, SigOK
  <2>2. heap'[sigs[n].data].form = "sig"
    <3>1. CASE sigs[n].data = x
      BY <1>4, <1>6, <2>1, <3>1
    <3>2. CASE sigs[n].data # x
      BY <1>6, <2>1, <3>2
    <3> QED BY <3>1, <3>2
  <2>3. (<<"data", n>> \notin shared) => (heap'[sigs[n].data] = sigs[n].data0)
    BY <1>6, <2>1
  <2> QED BY <1>3, <1>5, <2>1, <2>2, <2>3 DEF SigOK
<1> QED BY <1>3, <1>7, <1>8, <1>9 DEF KInv

(* An array on the heap, by its form.                                      *)
LEMMA Held ==
  ASSUME KInv, NEW x \in held
  PROVE  /\ heap[x] \in Array /\ x \in DOMAIN heap /\ x \in Nat
         /\ (heap[x].form = "pk") => \E b \in Births : heap[x] \in PkOf(b)
         /\ (heap[x].form = "sk") => \E b \in Births : heap[x] \in SkOf(b)
         /\ (heap[x].form = "pub") => \E b \in Births : heap[x] \in PubOf(b)
         /\ (heap[x].form = "pair") => \E b \in Births : heap[x] \in PairOf(b)
<1>1. x \in DOMAIN heap /\ heap \in Seq(Array)
  BY DEF KInv, Shapes
<1>2. x \in 1 .. Len(heap) /\ Len(heap) \in Nat
  BY <1>1, LenProperties
<1>3. heap[x] \in Array /\ x \in Nat
  BY <1>1, <1>2, ElementOfSeq, SMT
<1> QED BY <1>1, <1>3, Forms

(* The arrays of a pair.                                                   *)
LEMMA PairArrays ==
  ASSUME KInv, NEW n \in DOMAIN pairs
  PROVE  \E b \in Births : /\ Born(pairs[n], b) /\ heap[pairs[n].priv] \in SkOf(b)
                           /\ heap[pairs[n].pub] \in PkOf(b) /\ pairs[n].mode = b[1]
                           /\ b[1] \in Mode
<1>1. PICK b \in Births : /\ Born(pairs[n], b) /\ heap[pairs[n].priv] \in SkOf(b)
                          /\ heap[pairs[n].pub] \in PkOf(b)
  BY DEF KInv, PairOK
<1> QED BY <1>1, BirthsGenuine DEF Born

LEMMA StepGenerate ==
  ASSUME KInv, Generate
  PROVE  KInv'
<1>1. PICK b \in Births : NewPair(b[1], SecretOf(b), PublicOf(b))
  BY DEF Generate
<1>2. /\ PublicOf(b) \in PkOf(b) /\ SecretOf(b) \in SkOf(b) /\ SecretOf(b).rho = b
      /\ SecretOf(b).tr = PublicOf(b)
  BY DEF PublicOf, SecretOf, PkOf, SkOf, SecretsOf
<1>3. held' = held /\ shared' = shared /\ sigs' = sigs
  BY DEF Generate
<1> QED BY <1>1, <1>2, <1>3, StepNewPair

LEMMA StepFromKeys ==
  ASSUME KInv, FromKeys
  PROVE  KInv'
<1>1. PICK priv \in held, pub \in held, m \in Mode :
        /\ heap[priv].form = "sk" /\ heap[pub].form = "pk"
        /\ Accepted(heap[priv], heap[pub], m) /\ NewPair(m, heap[priv], heap[pub])
  BY DEF FromKeys, KeepKeys
<1>2. PICK b \in Births : heap[pub] \in PkOf(b)
  BY <1>1, Held
<1>3. PICK c \in Births : heap[priv] \in SkOf(c)
  BY <1>1, Held
<1>4. /\ b = c /\ m = b[1] /\ heap[pub] = PublicOf(b) /\ heap[priv].rho = b
      /\ heap[priv].tr = PublicOf(b)
  BY <1>1, <1>2, <1>3, AcceptedGenuine
<1>5. held' = held /\ shared' = shared /\ sigs' = sigs
  BY DEF FromKeys
<1> QED BY <1>1, <1>2, <1>3, <1>4, <1>5, StepNewPair

LEMMA StepFromBytes ==
  ASSUME KInv, FromBytes
  PROVE  KInv'
<1>1. PICK bytes \in held :
        /\ heap[bytes].form = "pair"
        /\ \E m \in Loads(heap[bytes]) : NewPair(m, heap[bytes].sk, heap[bytes].pk)
  BY DEF FromBytes
<1>2. PICK m \in Loads(heap[bytes]) : NewPair(m, heap[bytes].sk, heap[bytes].pk)
  BY <1>1
<1>3. PICK b \in Births : heap[bytes] \in PairOf(b)
  BY <1>1, Held
<1>4. heap[bytes].pk \in PkOf(b) /\ heap[bytes].sk \in SkOf(b)
  BY <1>3 DEF PairOf
<1>5. m \in Mode /\ Accepted(heap[bytes].sk, heap[bytes].pk, m)
  <2>1. m \in Listed /\ Accepted(heap[bytes].sk, heap[bytes].pk, m)
    BY <1>2 DEF Loads, ModeFromTag
  <2> QED BY <2>1, SMT DEF Listed, Mode
<1>6. /\ m = b[1] /\ heap[bytes].pk = PublicOf(b) /\ heap[bytes].sk.rho = b
      /\ heap[bytes].sk.tr = PublicOf(b)
  BY <1>4, <1>5, AcceptedGenuine
<1>7. held' = held /\ shared' = shared /\ sigs' = sigs
  BY DEF FromBytes
<1> QED BY <1>2, <1>4, <1>6, <1>7, StepNewPair

LEMMA StepToBytes ==
  ASSUME KInv, ToBytes
  PROVE  KInv'
<1>1. PICK h \in DOMAIN pairs : Return(ToBytesOf(pairs[h]))
  BY DEF ToBytes
<1>2. PICK b \in Births : /\ heap[pairs[h].priv] \in SkOf(b) /\ heap[pairs[h].pub] \in PkOf(b)
                          /\ pairs[h].mode = b[1] /\ b[1] \in Mode
  BY PairArrays
<1>3. ToBytesOf(pairs[h]) \in PairOf(b)
  <2> DEFINE pk == heap[pairs[h].pub]
             sk == heap[pairs[h].priv]
  <2>1. ModeTag[b[1]] \in Tags
    BY <1>2 DEF Tags
  <2>2. pk \in PkOf(b) /\ sk \in SkOf(b)
    BY <1>2
  <2>3. pk.len = PublicKeyBytes(b[1]) /\ sk.len = SecretKeyBytes(b[1])
    BY <2>2 DEF PkOf, SkOf
  <2>4. ToBytesOf(pairs[h]) = [form |-> "pair", tag |-> ModeTag[b[1]], pk |-> pk, sk |-> sk,
                               len |-> 1 + PublicKeyBytes(b[1]) + SecretKeyBytes(b[1])]
    BY <1>2, <2>3 DEF ToBytesOf, Whole
  <2> HIDE DEF pk, sk
  <2> QED BY <2>1, <2>2, <2>4 DEF PairOf
<1>4. ToBytesOf(pairs[h]) \in Array
  BY <1>3 DEF Array
<1>5. shared' = shared /\ pairs' = pairs /\ sigs' = sigs
  BY DEF ToBytes
<1>6. \A x \in Array : Return(x) => KInv'
  BY <1>5, StepReturn
<1> QED BY <1>1, <1>4, <1>6

LEMMA StepExportPublic ==
  ASSUME KInv, ExportPublic
  PROVE  KInv'
<1>1. PICK h \in DOMAIN pairs : Return(Tagged(pairs[h].mode, heap[pairs[h].pub]))
  BY DEF ExportPublic
<1>2. PICK b \in Births : /\ heap[pairs[h].pub] \in PkOf(b)
                          /\ pairs[h].mode = b[1] /\ b[1] \in Mode
  BY PairArrays
<1>3. Tagged(pairs[h].mode, heap[pairs[h].pub]) \in PubOf(b)
  <2> DEFINE pk == heap[pairs[h].pub]
  <2>1. ModeTag[b[1]] \in Tags
    BY <1>2 DEF Tags
  <2>2. pk \in PkOf(b) /\ pk.len = PublicKeyBytes(b[1])
    BY <1>2 DEF PkOf
  <2>3. Tagged(pairs[h].mode, heap[pairs[h].pub])
          = [form |-> "pub", tag |-> ModeTag[b[1]], pk |-> pk,
             len |-> 1 + PublicKeyBytes(b[1])]
    BY <1>2, <2>2 DEF Tagged
  <2> HIDE DEF pk
  <2> QED BY <2>1, <2>2, <2>3 DEF PubOf
<1>4. Tagged(pairs[h].mode, heap[pairs[h].pub]) \in Array
  BY <1>3 DEF Array
<1>5. shared' = shared /\ pairs' = pairs /\ sigs' = sigs
  BY DEF ExportPublic
<1>6. \A x \in Array : Return(x) => KInv'
  BY <1>5, StepReturn
<1> QED BY <1>1, <1>4, <1>6

LEMMA StepFromPublicKey ==
  ASSUME KInv, FromPublicKey
  PROVE  KInv'
<1>1. PICK bytes \in held : heap[bytes].form = "pub" /\ Return(heap[bytes].pk)
  BY DEF FromPublicKey
<1>2. PICK b \in Births : heap[bytes] \in PubOf(b)
  BY <1>1, Held
<1>3. heap[bytes].pk \in Array
  BY <1>2 DEF PubOf, Array
<1>4. shared' = shared /\ pairs' = pairs /\ sigs' = sigs
  BY DEF FromPublicKey
<1>5. \A x \in Array : Return(x) => KInv'
  BY <1>4, StepReturn
<1> QED BY <1>1, <1>3, <1>5

(* A signature in an array of its own.                                     *)
LEMMA OwnSignature ==
  ASSUME KInv, NEW x \in Array, x.form = "sig", heap' = Append(heap, x),
         NewSignature(Len(heap) + 1, x), held' = held, shared' = shared, pairs' = pairs
  PROVE  KInv'
<1>1. heap \in Seq(Array)
  BY DEF KInv, Shapes
<1>2. heap' = heap \o <<x>> /\ <<x>> \in Seq(Array) /\ Len(<<x>>) = 1 /\ 1 \in 1 .. 1
      /\ <<x>>[1] = x
  BY <1>1, AppendIsConcat, SMT
<1>3. /\ heap' \in Seq(Array) /\ Grows(heap, heap') /\ Len(heap) \in Nat
      /\ Len(heap) + 1 \in DOMAIN heap' /\ Len(heap) + 1 \notin DOMAIN heap
      /\ heap'[Len(heap) + 1] = x
  BY <1>1, <1>2, HeapGrows
<1>4. Len(heap) + 1 \in Nat
  BY <1>3, SMT
<1>5. shared \subseteq shared'
  OBVIOUS
<1> QED BY <1>3, <1>4, <1>5, StepNewSignature

LEMMA StepSign ==
  ASSUME KInv, Sign
  PROVE  KInv'
<1> DEFINE x(h) == SignatureOf(pairs[h].mode, heap[pairs[h].priv])
<1>1. PICK h \in DOMAIN pairs : heap' = Append(heap, x(h)) /\ NewSignature(Len(heap) + 1, x(h))
  BY DEF Sign
<1>2. PICK b \in Births : /\ heap[pairs[h].priv] \in SkOf(b)
                          /\ pairs[h].mode = b[1] /\ b[1] \in Mode
  BY PairArrays
<1>3. x(h) \in SigOf(b) /\ x(h).form = "sig"
  BY <1>2 DEF SignatureOf, SigOf
<1>4. x(h) \in Array
  BY <1>3 DEF Array
<1>5. held' = held /\ shared' = shared /\ pairs' = pairs
  BY DEF Sign
<1> HIDE DEF x
<1> QED BY <1>1, <1>3, <1>4, <1>5, OwnSignature

LEMMA StepSignatureFromSlice ==
  ASSUME KInv, SignatureFromSlice
  PROVE  KInv'
<1>1. PICK bytes \in held :
        /\ heap[bytes].form = "sig" /\ heap' = Append(heap, heap[bytes])
        /\ NewSignature(Len(heap) + 1, heap[bytes])
  BY DEF SignatureFromSlice
<1>2. heap[bytes] \in Array
  BY Held
<1>3. held' = held /\ shared' = shared /\ pairs' = pairs
  BY DEF SignatureFromSlice
<1> QED BY <1>1, <1>2, <1>3, OwnSignature

LEMMA StepSignatureFromBytes ==
  ASSUME KInv, SignatureFromBytes
  PROVE  KInv'
<1>1. PICK bytes \in held :
        /\ heap[bytes].form = "sig" /\ NewSignature(bytes, heap[bytes])
        /\ shared' = shared \cup {<<"data", Len(sigs) + 1>>}
  BY DEF SignatureFromBytes
<1>2. held' = held /\ heap' = heap /\ pairs' = pairs
  BY DEF SignatureFromBytes
<1>3. bytes \in DOMAIN heap /\ bytes \in Nat
  BY Held
<1>4. heap' \in Seq(Array) /\ Grows(heap, heap') /\ bytes \in DOMAIN heap'
  BY <1>2, <1>3 DEF KInv, Shapes, Grows
<1>5. shared \subseteq shared' /\ <<"data", Len(sigs) + 1>> \in shared'
      /\ heap'[bytes] = heap[bytes]
  BY <1>1, <1>2
<1> QED BY <1>1, <1>2, <1>3, <1>4, <1>5, StepNewSignature

-----------------------------------------------------------------------------
(* The invariant holds of no objects, and every call and write keeps it.   *)
LEMMA KInvHolds == (Init => KInv) /\ (KInv /\ [Next]_vars => KInv')
<1>1. ASSUME Init PROVE KInv
  <2>1. /\ heap = <<>> /\ pairs = <<>> /\ sigs = <<>> /\ held = {}
        /\ heap \in Seq(Array) /\ pairs \in Seq(PairRecord) /\ sigs \in Seq(SigRecord)
    BY <1>1, EmptySeq DEF Init
  <2>2. DOMAIN pairs = {} /\ DOMAIN sigs = {}
    BY <2>1
  <2> QED BY <2>1, <2>2 DEF KInv, Shapes, Apart
<1>2. ASSUME KInv, UNCHANGED vars PROVE KInv'
  BY <1>2 DEF vars, KInv, Shapes, Apart
<1>3. ASSUME KInv, Next PROVE KInv'
  BY <1>3, StepGenerate, StepPublicKey, StepPrivateKey, StepAsBytes, StepFromKeys,
     StepToBytes, StepFromBytes, StepExportPublic, StepFromPublicKey, StepSign,
     StepSignatureFromBytes, StepSignatureFromSlice, StepWrite DEF Next
<1> QED BY <1>1, <1>2, <1>3

(* Every object has keys of the lengths of its mode, whatever the caller   *)
(* does with the slices it holds: the methods can slice them.              *)
THEOREM LengthsAlwaysFit == Spec => []TypeOK
<1>1. ASSUME KInv PROVE TypeOK
  <2>1. ASSUME NEW h \in DOMAIN pairs
        PROVE  /\ LengthsFit(heap[pairs[h].priv], heap[pairs[h].pub], pairs[h].mode)
               /\ heap[pairs[h].priv].form = "sk" /\ heap[pairs[h].pub].form = "pk"
    <3>1. PICK b \in Births : /\ heap[pairs[h].priv] \in SkOf(b)
                              /\ heap[pairs[h].pub] \in PkOf(b) /\ pairs[h].mode = b[1]
      BY <1>1, PairArrays
    <3>2. heap[pairs[h].priv].len = SecretKeyBytes(b[1])
          /\ heap[pairs[h].pub].len = PublicKeyBytes(b[1])
      BY <3>1 DEF SkOf, PkOf
    <3> QED BY <1>1, <3>1, <3>2, ObjectForms DEF LengthsFit
  <2> QED BY <1>1, <2>1 DEF TypeOK, KInv, Shapes
<1> QED BY <1>1, KInvHolds, PTL DEF Spec

(* What no accessor has shared does not change: neither the slices an      *)
(* object was built from nor those made from it alias it.                  *)
THEOREM CopiesIsolate == Spec => []Isolation
<1>1. KInv => Isolation
  BY DEF KInv, PairOK, SigOK, Isolation
<1> QED BY <1>1, KInvHolds, PTL DEF Spec

(* FromKeys and FromBytes let through no public key but that of one        *)
(* generation of their mode, whatever was written into the slices.         *)
THEOREM OnlyGenuinePublicKeys == Spec => []PublicHalfGenuine
<1>1. KInv => PublicHalfGenuine
  BY DEF KInv, PairOK, Born, PublicHalfGenuine
<1> QED BY <1>1, KInvHolds, PTL DEF Spec

(* What FromKeys compares is enough: a pair whose s1, s2 and t0 are intact *)
(* verifies what it signs, whatever else was written, mixed or relabelled. *)
THEOREM IntactSecretsSuffice == Spec => []IntactSecretsVerify
<1>1. ASSUME KInv, NEW h \in DOMAIN pairs,
             {<<"priv", h>>, <<"pub", h>>} \cap shared = {}
      PROVE  LET sk == heap[pairs[h].priv]
                 pk == heap[pairs[h].pub]
                 V  == Verdicts(pairs[h].mode, pk, sk)
             IN  TRUE \in V /\ ((sk.s = pk.rho) => V = {TRUE})
  <2> DEFINE m == pairs[h].mode
             pk == heap[pairs[h].pub]
             sk == heap[pairs[h].priv]
  <2>1. pk = pairs[h].pk0 /\ sk = pairs[h].sk0
    <3>1. <<"priv", h>> \notin shared /\ <<"pub", h>> \notin shared
      BY <1>1
    <3> QED BY <1>1, <3>1 DEF KInv, PairOK
  <2>2. PICK b \in Births : Born(pairs[h], b)
    BY <1>1, PairArrays
  <2>3. sk.rho = b /\ sk.tr = pk /\ pk.rho = b /\ pk.t1 = b
    BY <2>1, <2>2 DEF Born, PublicOf
  <2> HIDE DEF m, pk, sk
  <2>4. CASE m \notin Listed
    <3>1. Verdicts(m, pk, sk) = {TRUE}
      BY <2>4 DEF Verdicts
    <3> QED BY <3>1 DEF m, pk, sk
  <2>5. CASE m \in Listed
    <3>1. Verdicts(m, pk, sk) = IF {pk.t1, sk.rho, sk.s} = {pk.rho} THEN {TRUE} ELSE BOOLEAN
      BY <2>3, <2>5 DEF Verdicts
    <3>2. TRUE \in Verdicts(m, pk, sk)
      BY <3>1
    <3>3. ASSUME sk.s = pk.rho PROVE Verdicts(m, pk, sk) = {TRUE}
      <4>1. {pk.t1, sk.rho, sk.s} = {pk.rho}
        BY <2>3, <3>3
      <4> QED BY <3>1, <4>1
    <3> QED BY <3>2, <3>3 DEF m, pk, sk
  <2> QED BY <2>4, <2>5
<1>2. KInv => IntactSecretsVerify
  BY <1>1 DEF IntactSecretsVerify
<1> QED BY <1>2, KInvHolds, PTL DEF Spec

(* What ToBytes makes of a pair of a listed mode, FromBytes loads again,   *)
(* in that mode and no other; what it makes of another pair, never.        *)
THEOREM SavedPairsReload == Spec => []Reloads
<1>1. ASSUME KInv, NEW h \in DOMAIN pairs,
             {<<"priv", h>>, <<"pub", h>>} \cap shared = {}
      PROVE  Loads(ToBytesOf(pairs[h])) = {pairs[h].mode} \cap Listed
  <2> DEFINE m == pairs[h].mode
             pk == heap[pairs[h].pub]
             sk == heap[pairs[h].priv]
             x == ToBytesOf(pairs[h])
  <2>1. pk = pairs[h].pk0 /\ sk = pairs[h].sk0
    <3>1. <<"priv", h>> \notin shared /\ <<"pub", h>> \notin shared
      BY <1>1
    <3> QED BY <1>1, <3>1 DEF KInv, PairOK
  <2>2. PICK b \in Births : Born(pairs[h], b) /\ b[1] \in Mode
    BY <1>1, PairArrays
  <2>3. /\ m = b[1] /\ m \in Mode /\ pk = PublicOf(b) /\ sk \in SkOf(b) /\ sk.rho = b
        /\ sk.tr = PublicOf(b)
    BY <2>1, <2>2 DEF Born
  <2>4. /\ pk.len = PublicKeyBytes(m) /\ sk.len = SecretKeyBytes(m) /\ pk.rho = b
    BY <2>3 DEF PublicOf, SkOf
  <2>5. /\ x.tag = ModeTag[m] /\ x.pk = pk /\ x.sk = sk
        /\ x.len = 1 + PublicKeyBytes(m) + SecretKeyBytes(m)
    BY <2>4 DEF ToBytesOf, Whole
  <2>6. Accepted(sk, pk, m)
    BY <2>3, <2>4 DEF Accepted, LengthsFit, KeysMatch
  <2>7. ModeFromTag(x.tag) = {m} \cap Listed
    BY <2>3, <2>5, TagsFound
  <2> HIDE DEF m, pk, sk, x
  <2>8. Loads(x) = {m} \cap Listed
    BY <2>5, <2>6, <2>7 DEF Loads
  <2> QED BY <2>8 DEF x, m
<1>2. KInv => Reloads
  BY <1>1 DEF Reloads
<1> QED BY <1>2, KInvHolds, PTL DEF Spec


-----------------------------------------------------------------------------
(* The entry points.                                                       *)

(* Two strings that begin with parts of one length are equal part by part. *)
LEMMA SplitAt ==
  ASSUME NEW s1 \in Seq(Nat), NEW s2 \in Seq(Nat), NEW t1 \in Seq(Nat), NEW t2 \in Seq(Nat),
         Len(s1) = Len(s2), s1 \o t1 = s2 \o t2
  PROVE  s1 = s2 /\ t1 = t2
<1>1. /\ Len(s1 \o t1) = Len(s1) + Len(t1) /\ Len(s2 \o t2) = Len(s2) + Len(t2)
      /\ \A i \in 1 .. Len(s1) + Len(t1) : (s1 \o t1)[i] =
           IF i <= Len(s1) THEN s1[i] ELSE t1[i - Len(s1)]
      /\ \A i \in 1 .. Len(s2) + Len(t2) : (s2 \o t2)[i] =
           IF i <= Len(s2) THEN s2[i] ELSE t2[i - Len(s2)]
  BY ConcatProperties
<1>2. Len(s1) \in Nat /\ Len(s2) \in Nat /\ Len(t1) \in Nat /\ Len(t2) \in Nat
  OBVIOUS
<1>3. s1 = s2
  <2>1. \A i \in 1 .. Len(s1) : s1[i] = s2[i]
    BY <1>1, <1>2
  <2> QED BY <2>1, SeqEqual
<1>4. t1 = t2
  BY <1>3, ConcatSimplifications
<1> QED BY <1>3, <1>4

(* Concatenation is associative.                                           *)
LEMMA Associative ==
  \A s, t, u \in Seq(Nat) : s \o t \in Seq(Nat) /\ (s \o t) \o u = s \o (t \o u)
<1>1. \A s, t, u \in Seq(Nat) : (s \o t) \o u = s \o (t \o u)
  BY ConcatAssociative
<1>2. \A s, t \in Seq(Nat) : s \o t \in Seq(Nat)
  OBVIOUS
<1> QED BY <1>1, <1>2

(* What follows the length byte and the context, and the prefix byte.      *)
Rest(x) == IF x.variant = "pure" THEN x.m ELSE OID \o SHA512[x.m]
Tag(x)  == IF x.variant = "pure" THEN 0 ELSE 1

(* The string is prefix and length byte, the context, and the rest.        *)
LEMMA FrameParts ==
  ASSUME NEW x \in Calls, ~TooLong(x.ctx)
  PROVE  /\ x.variant \in Variants /\ x.m \in Messages /\ x.m \in Seq(Nat) /\ x.ctx \in Seq(Nat)
         /\ SHA512[x.m] \in Seq(Nat) /\ Rest(x) \in Seq(Nat) /\ Tag(x) \in {0, 1}
         /\ Len(x.ctx) \in Nat
         /\ Frame(x.variant, x.m, x.ctx) = <<Tag(x), Len(x.ctx)>> \o (x.ctx \o Rest(x))
<1>1. x.variant \in Variants /\ x.m \in Messages /\ x.ctx \in Contexts
  BY DEF Calls
<1>2. x.m \in Seq(Nat) /\ x.ctx \in Seq(Nat) /\ SHA512[x.m] \in Seq(Nat) /\ OID \in Seq(Nat)
  BY <1>1, ApiAssumption
<1>3. Len(x.ctx) \in Nat /\ Len(x.ctx) <= CtxMax /\ CtxMax \in Nat
  BY <1>2, ApiAssumption DEF TooLong
<1>4. LengthByte(x.ctx) = Len(x.ctx)
  <2>1. \A l, n \in Nat : l < n => l % n = l
    BY SMT
  <2>2. CtxMax + 1 \in Nat /\ Len(x.ctx) < CtxMax + 1
    BY <1>3
  <2> QED BY <1>3, <2>1, <2>2 DEF LengthByte
<1>5. Tag(x) \in {0, 1} /\ Rest(x) \in Seq(Nat)
  BY <1>2, Associative DEF Tag, Rest
<1>6. <<Tag(x), Len(x.ctx)>> \in Seq(Nat)
  BY <1>3, <1>5
<1>7. Frame(x.variant, x.m, x.ctx) = <<Tag(x), Len(x.ctx)>> \o (x.ctx \o Rest(x))
  <2>1. PICK p \in Seq(Nat) : p = <<Tag(x), Len(x.ctx)>>
    BY <1>6
  <2>2. PICK c \in Seq(Nat) : c = x.ctx
    BY <1>2
  <2>3. PICK m \in Seq(Nat) : m = x.m
    BY <1>2
  <2>4. PICK d \in Seq(Nat) : d = SHA512[x.m]
    BY <1>2
  <2>5. CASE x.variant = "pure"
    <3>1. Frame(x.variant, x.m, x.ctx) = (p \o c) \o m /\ Rest(x) = m
      BY <1>4, <2>1, <2>2, <2>3, <2>5 DEF Frame, PureFrame, Rest, Tag
    <3>2. (p \o c) \o m = p \o (c \o m)
      BY Associative, SMTT(120)
    <3> QED BY <2>1, <2>2, <3>1, <3>2
  <2>6. CASE x.variant # "pure"
    <3>1. Frame(x.variant, x.m, x.ctx) = ((p \o c) \o OID) \o d /\ Rest(x) = OID \o d
      BY <1>4, <2>1, <2>2, <2>4, <2>6 DEF Frame, PrehashFrame, Rest, Tag
    <3>2. PICK pre \in Seq(Nat) : pre = p \o c
      BY Associative
    <3>3. PICK o \in Seq(Nat) : o = OID
      BY <1>2
    <3>4. PICK od \in Seq(Nat) : od = o \o d
      BY Associative
    <3>5. (pre \o o) \o d = pre \o (o \o d)
      BY Associative, SMTT(120)
    <3>6. (p \o c) \o od = p \o (c \o od)
      BY Associative, SMTT(120)
    <3> QED BY <2>1, <2>2, <3>1, <3>2, <3>3, <3>4, <3>5, <3>6
  <2> QED BY <2>5, <2>6
<1> QED BY <1>1, <1>2, <1>3, <1>5, <1>7

(* What is signed is a byte string of which variant, context and message   *)
(* are read back: the length byte says where the context ends while it     *)
(* does not wrap, and all digests have one length.                         *)
LEMMA FrameInjective ==
  ASSUME NEW a \in Calls, NEW b \in Calls, ~TooLong(a.ctx), ~TooLong(b.ctx),
         Frame(a.variant, a.m, a.ctx) = Frame(b.variant, b.m, b.ctx)
  PROVE  a.variant = b.variant /\ a.ctx = b.ctx /\ a.m = b.m
<1>2. /\ a.variant \in Variants /\ b.variant \in Variants
      /\ a.m \in Messages /\ a.ctx \in Seq(Nat) /\ Rest(a) \in Seq(Nat) /\ Tag(a) \in {0, 1}
      /\ b.m \in Messages /\ b.ctx \in Seq(Nat) /\ Rest(b) \in Seq(Nat) /\ Tag(b) \in {0, 1}
      /\ <<Tag(a), Len(a.ctx)>> \o (a.ctx \o Rest(a)) = <<Tag(b), Len(b.ctx)>> \o (b.ctx \o Rest(b))
      /\ Len(a.ctx) \in Nat /\ Len(b.ctx) \in Nat
  BY FrameParts
<1>3. /\ a.variant = "pure" => Tag(a) = 0 /\ Rest(a) = a.m
      /\ b.variant = "pure" => Tag(b) = 0 /\ Rest(b) = b.m
      /\ a.variant # "pure" => Tag(a) = 1 /\ Rest(a) = OID \o SHA512[a.m]
      /\ b.variant # "pure" => Tag(b) = 1 /\ Rest(b) = OID \o SHA512[b.m]
  BY DEF Rest, Tag
<1>4. <<Tag(a), Len(a.ctx)>> = <<Tag(b), Len(b.ctx)>> /\ a.ctx \o Rest(a) = b.ctx \o Rest(b)
  <2> DEFINE p == <<Tag(a), Len(a.ctx)>>
             q == <<Tag(b), Len(b.ctx)>>
             u == a.ctx \o Rest(a)
             v == b.ctx \o Rest(b)
  <2>1. p \in Seq(Nat) /\ q \in Seq(Nat) /\ Len(p) = 2 /\ Len(q) = 2
    BY <1>2
  <2>2. u \in Seq(Nat) /\ v \in Seq(Nat)
    BY <1>2, Associative
  <2>3. p \o u = q \o v
    BY <1>2
  <2> HIDE DEF p, q, u, v
  <2>4. p = q /\ u = v
    BY <2>1, <2>2, <2>3, SplitAt
  <2> QED BY <2>4 DEF p, q, u, v
<1>5. Tag(a) = Tag(b) /\ Len(a.ctx) = Len(b.ctx)
  BY <1>4
<1>6. a.ctx = b.ctx /\ Rest(a) = Rest(b)
  BY <1>2, <1>4, <1>5, SplitAt
<1>7. a.variant = b.variant
  BY <1>2, <1>3, <1>5 DEF Variants
<1>8. a.m = b.m
  <2>1. CASE a.variant = "pure"
    BY <1>3, <1>6, <1>7, <2>1
  <2>2. CASE a.variant # "pure"
    <3>1. OID \o SHA512[a.m] = OID \o SHA512[b.m]
      BY <1>3, <1>6, <1>7, <2>2
    <3>2. OID \in Seq(Nat) /\ SHA512[a.m] \in Seq(Nat) /\ SHA512[b.m] \in Seq(Nat)
      BY <1>2, ApiAssumption
    <3>3. SHA512[a.m] = SHA512[b.m]
      BY <3>1, <3>2, SplitAt
    <3> QED BY <1>2, <3>3, ApiAssumption
  <2> QED BY <2>1, <2>2
<1> QED BY <1>6, <1>7, <1>8

(* The verifier of one call accepts what the signer of another returned    *)
(* only if the calls are the same and the signer reported no error.        *)
LEMMA AcceptsOwnOnly ==
  ASSUME NEW a \in Calls, NEW b \in Calls
  PROVE  VerifyFramed(b, SignFramed(a).sig) <=> SignFramed(a).ret = 0 /\ b = a
<1> DEFINE Of(x) == Signature(x.key, Frame(x.variant, x.m, x.ctx))
<1>1. \A x : Of(x).is = "signature" /\ Of(x).key = x.key
             /\ Of(x).of = Frame(x.variant, x.m, x.ctx)
  BY DEF Signature
<1>2. Zeros.is = "zeros"
  BY DEF Zeros
<1>3. VerifyFramed(b, SignFramed(a).sig) <=>
        ~TooLong(b.ctx) /\ b.key # Short /\ SignFramed(a).sig = Of(b)
  BY DEF VerifyFramed
<1>4. CASE TooLong(a.ctx) \/ a.key = Short
  <2>1. SignFramed(a).ret = -1 /\ SignFramed(a).sig = Zeros
    BY <1>4 DEF SignFramed
  <2>2. Zeros # Of(b)
    <3> HIDE DEF Of
    <3> QED BY <1>1, <1>2
  <2> QED BY <1>3, <2>1, <2>2
<1>5. CASE ~(TooLong(a.ctx) \/ a.key = Short)
  <2>1. SignFramed(a).ret = 0 /\ SignFramed(a).sig = Of(a)
    BY <1>5 DEF SignFramed
  <2>2. ASSUME ~TooLong(b.ctx), b.key # Short, Of(a) = Of(b) PROVE b = a
    <3>1. a.key = b.key /\ Frame(a.variant, a.m, a.ctx) = Frame(b.variant, b.m, b.ctx)
      <4>1. Of(a).key = Of(b).key /\ Of(a).of = Of(b).of
        BY <2>2
      <4> HIDE DEF Of
      <4> QED BY <1>1, <4>1
    <3>2. a.variant = b.variant /\ a.ctx = b.ctx /\ a.m = b.m
      BY <1>5, <2>2, <3>1, FrameInjective
    <3> QED BY <3>1, <3>2 DEF Calls
  <2> QED BY <1>3, <1>5, <2>1, <2>2
<1> QED BY <1>4, <1>5

(* While an answer is at hand, its signature and the value returned are    *)
(* those of the call it answers; Sign and SignPrehash withhold both from a *)
(* call that failed.                                                       *)
AInv ==
  /\ ApiTypeOK
  /\ pc # "idle" /\ data # None =>
       data = SignFramed(args).sig /\ ret = SignFramed(args).ret
  /\ pc = "verified" => data # None /\ verdict = VerifyFramed(asked, data)
  /\ pc # "idle" /\ signer \in {"Sign", "SignPrehash"} =>
       /\ err = "nil" <=> data # None
       /\ data # None => ret = 0

(* The signer returns a signature or the zeroed buffer, and 0 or -1.       *)
LEMMA SignFramedType ==
  ASSUME NEW a \in Calls
  PROVE  /\ SignFramed(a).ret \in {-1, 0}
         /\ SignFramed(a).sig.is \in {"zeros", "signature"}
         /\ SignFramed(a).sig # None /\ None.is = "none"
<1>1. Zeros.is = "zeros" /\ None.is = "none" /\ \A k, s : Signature(k, s).is = "signature"
  BY DEF Zeros, None, Signature
<1>2. SignFramed(a).ret \in {-1, 0}
  BY DEF SignFramed
<1>3. SignFramed(a).sig.is \in {"zeros", "signature"}
  BY <1>1 DEF SignFramed
<1>4. SignFramed(a).sig # None
  BY <1>1, <1>3
<1> QED BY <1>1, <1>2, <1>3, <1>4

(* The invariant holds at the start,                                       *)
LEMMA ApiInitAInv == ApiInit => AInv
<1>1. \E a : a \in Calls
  <2>1. PICK m \in Messages, c \in Contexts : TRUE
    BY ApiAssumption
  <2>2. [variant |-> "pure", m |-> m, ctx |-> c, key |-> Short] \in Calls
    BY DEF Calls, Variants
  <2> QED BY <2>2
<1>2. NoCall \in Calls
  BY <1>1 DEF NoCall
<1>3. None.is = "none"
  BY DEF None
<1> SUFFICES ASSUME ApiInit PROVE AInv
  OBVIOUS
<1>4. /\ pc = "idle" /\ args = NoCall /\ asked = NoCall /\ err = "nil" /\ data = None
      /\ ret = 0 /\ verdict = FALSE
  BY DEF ApiInit
<1>5. ApiTypeOK
  BY <1>2, <1>3, <1>4 DEF ApiTypeOK, Errors
<1> QED BY <1>4, <1>5 DEF AInv

(* every answer establishes it                                             *)
LEMMA AnswerAInv ==
  ASSUME AInv, NEW who, NEW a \in Calls, NEW e \in Errors, NEW d, NEW r,
         Answer(who, a, e, d, r),
         \/ d = None /\ r = ret
         \/ d = SignFramed(a).sig /\ r = SignFramed(a).ret,
         who \in {"Sign", "SignPrehash"} => (e = "nil" <=> d # None) /\ (d # None => r = 0)
  PROVE  AInv'
<1>1. /\ pc' = "signed" /\ signer' = who /\ args' = a /\ err' = e /\ data' = d /\ ret' = r
      /\ asked' = asked /\ verdict' = verdict
  BY DEF Answer
<1>2. /\ asked \in Calls /\ verdict \in BOOLEAN /\ ret \in {-1, 0}
  BY DEF AInv, ApiTypeOK
<1>3. r \in {-1, 0} /\ d.is \in {"none", "zeros", "signature"}
  BY <1>2, SignFramedType
<1>4. ApiTypeOK'
  BY <1>1, <1>2, <1>3 DEF ApiTypeOK
<1>5. data' # None => data' = SignFramed(args').sig /\ ret' = SignFramed(args').ret
  BY <1>1, SignFramedType
<1> QED BY <1>1, <1>4, <1>5 DEF AInv

(* and every step keeps it.                                                *)
LEMMA ApiStepAInv == AInv /\ [ApiNext]_apiVars => AInv'
<1> SUFFICES ASSUME AInv, [ApiNext]_apiVars PROVE AInv'
  OBVIOUS
<1>0. "nil" \in Errors /\ "ErrBadArgument" \in Errors /\ "ErrRandomError" \in Errors
  BY DEF Errors
<1>1. ASSUME NEW a \in Calls, NEW entropy \in BOOLEAN, SignHedged(a, entropy) PROVE AInv'
  <2> DEFINE who == IF a.variant = "pure" THEN "Sign" ELSE "SignPrehash"
             s   == SignFramed(a)
  <2>1. CASE Answer(who, a, "ErrBadArgument", None, ret)
    BY <1>0, <2>1, AnswerAInv
  <2>2. CASE Answer(who, a, "ErrRandomError", None, ret)
    BY <1>0, <2>2, AnswerAInv
  <2>3. CASE Answer(who, a, IF s.ret # 0 THEN "ErrBadArgument" ELSE "nil",
                    IF s.ret # 0 THEN None ELSE s.sig, s.ret)
    <3>1. CASE s.ret = 0
      <4>1. Answer(who, a, "nil", s.sig, s.ret)
        BY <2>3, <3>1
      <4>2. s.sig # None
        BY SignFramedType
      <4> HIDE DEF who
      <4> QED BY <1>0, <3>1, <4>1, <4>2, AnswerAInv
    <3>2. CASE s.ret # 0
      \* no signature is handed out, whatever the value returned
      <4>1. /\ pc' = "signed" /\ args' = a /\ err' = "ErrBadArgument" /\ data' = None
            /\ ret' = s.ret /\ asked' = asked /\ verdict' = verdict
        BY <2>3, <3>2 DEF Answer
      <4>2. /\ s.ret \in {-1, 0} /\ None.is = "none"
        BY SignFramedType
      <4>3. ApiTypeOK'
        BY <1>0, <4>1, <4>2 DEF AInv, ApiTypeOK
      <4> QED BY <4>1, <4>3 DEF AInv
    <3> QED BY <3>1, <3>2
  <2> QED BY <1>1, <2>1, <2>2, <2>3 DEF SignHedged
<1>2. ASSUME NEW a \in Calls, SignDeterministic(a) PROVE AInv'
  <2>1. \/ Answer("SignDeterministic", a, "ErrBadArgument", None, ret)
        \/ Answer("SignDeterministic", a, "nil", SignFramed(a).sig, SignFramed(a).ret)
    BY <1>2 DEF SignDeterministic
  <2> QED BY <1>0, <2>1, AnswerAInv
<1>3. ASSUME NEW a \in Calls, SignDirect(a) PROVE AInv'
  <2> DEFINE e == IF SignFramed(a).ret < 0 THEN "ErrBadArgument" ELSE "nil"
  <2>1. Answer("direct", a, e, SignFramed(a).sig, SignFramed(a).ret) /\ e \in Errors
    BY <1>0, <1>3 DEF SignDirect
  <2> HIDE DEF e
  <2> QED BY <2>1, AnswerAInv
<1>4. ASSUME NEW a \in Calls, VerifySignature(a) PROVE AInv'
  <2>1. /\ pc = "signed" /\ data # None /\ pc' = "verified" /\ asked' = a
        /\ verdict' = VerifyFramed(a, data)
        /\ signer' = signer /\ args' = args /\ err' = err /\ data' = data /\ ret' = ret
    BY <1>4 DEF VerifySignature
  <2>2. VerifyFramed(a, data) \in BOOLEAN
    BY DEF VerifyFramed
  <2>3. ApiTypeOK'
    BY <2>1, <2>2 DEF AInv, ApiTypeOK
  <2> QED BY <2>1, <2>3 DEF AInv
<1>5. CASE UNCHANGED apiVars
  BY <1>5 DEF apiVars, AInv, ApiTypeOK
<1> QED BY <1>1, <1>2, <1>3, <1>4, <1>5 DEF ApiNext

LEMMA AInvHolds == ApiSpec => []AInv
BY ApiInitAInv, ApiStepAInv, PTL DEF ApiSpec

(* An entry point answers with one of its errors or none, and its value is *)
(* 0 or -1.                                                                *)
THEOREM AnswersTyped == ApiSpec => []ApiTypeOK
<1>1. AInv => ApiTypeOK
  BY DEF AInv
<1> QED BY <1>1, AInvHolds, PTL

(* Whatever is signed through whichever entry point, exactly its own       *)
(* variant, message, context and key verify it.                            *)
THEOREM VerdictsAreExact == ApiSpec => []VerdictExact
<1>1. AInv => VerdictExact
  <2> SUFFICES ASSUME AInv, pc = "verified" PROVE verdict <=> ret = 0 /\ asked = args
    BY DEF VerdictExact
  <2>1. /\ data = SignFramed(args).sig /\ ret = SignFramed(args).ret
        /\ verdict = VerifyFramed(asked, data)
    BY DEF AInv
  <2>2. args \in Calls /\ asked \in Calls
    BY DEF AInv, ApiTypeOK
  <2>3. VerifyFramed(asked, SignFramed(args).sig) <=> SignFramed(args).ret = 0 /\ asked = args
    BY <2>2, AcceptsOwnOnly
  <2> QED BY <2>1, <2>3
<1> QED BY <1>1, AInvHolds, PTL

(* Sign and SignPrehash return either an error or a signature that         *)
(* verifies.                                                               *)
THEOREM HedgedAnswersVerify == ApiSpec => []HedgedAnswers
<1>1. AInv => HedgedAnswers
  <2> SUFFICES ASSUME AInv, pc = "signed", signer \in {"Sign", "SignPrehash"}
               PROVE  (err = "nil" <=> data # None) /\ (err = "nil" => VerifyFramed(args, data))
    BY DEF HedgedAnswers
  <2>1. (err = "nil" <=> data # None) /\ (data # None => ret = 0)
    BY DEF AInv
  <2>2. data # None => data = SignFramed(args).sig /\ ret = SignFramed(args).ret
    BY DEF AInv
  <2>3. args \in Calls
    BY DEF AInv, ApiTypeOK
  <2>4. VerifyFramed(args, SignFramed(args).sig) <=> SignFramed(args).ret = 0
    BY <2>3, AcceptsOwnOnly
  <2> QED BY <2>1, <2>2, <2>4
<1> QED BY <1>1, AInvHolds, PTL
==============================================================================
