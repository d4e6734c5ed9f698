--------------------------- MODULE HintCodecProofs ---------------------------
(***************************************************************************)
(* The loops of PackSig and UnpackSig over the hint bytes: they stay in    *)
(* their buffer, compute what module HintEncoding says of whole vectors,   *)
(* invert each other both ways and never refuse what was packed, for every *)
(* number of coefficients, rows and ones.  The inductive invariant says    *)
(* how far each loop has come; what the whole list means is in RingProofs. *)
(***************************************************************************)
EXTENDS HintCodec, RingProofs

(* The list is complete up to the one at hand, and the ends of the rows    *)
(* that are done are written.                                              *)
PackedSoFar ==
  pc \in {"pack", "repack"} =>
    /\ Cardinality(Ones(h)) <= Omega
    /\ row = K => col = 0
    /\ idx = Rank(h, <<row, col>>)
    /\ \A b \in 0 .. Omega - 1 : sig[b] = IF b < idx THEN PackHint(h)[b] ELSE 0
    /\ \A i \in RowsK : End(sig, i) = IF i < row THEN UpTo(h, i) ELSE 0

(* The rows that are done were in order, and h holds their ones.           *)
RowRead(i) ==
  /\ First(sig, i) <= End(sig, i) /\ End(sig, i) <= Omega
  /\ \A j \in 1 .. Omega - 1 :
       First(sig, i) < j /\ j < End(sig, i) => ~(sig[j] <= sig[j - 1])
  /\ h[i] = UnpackHint(sig)[i]

ReadSoFar ==
  pc = "unpack" =>
    /\ col = 0
    /\ idx = First(sig, row)
    /\ \A i \in RowsK : i < row => RowRead(i)

(* What h and sig have to do with what the behaviour started from.         *)
FromOrigin ==
  /\ pc = "pack" => origin \in Hints /\ h = origin
  /\ pc = "unpack" =>
       /\ origin \in Hints => sig = PackHint(origin) /\ Cardinality(Ones(origin)) <= Omega
       /\ origin \in HintBytes => sig = origin
  /\ pc = "malformed" => origin \in HintBytes /\ Malformed(origin)
  /\ pc = "repack" =>
       /\ origin \in Hints => h = origin
       /\ origin \in HintBytes => ~Malformed(origin) /\ h = UnpackHint(origin)
  /\ pc = "done" /\ origin \in HintBytes => sig = origin

CInv == TypeOK /\ PackedSoFar /\ ReadSoFar /\ FromOrigin

-----------------------------------------------------------------------------
(* The constants, and ranges without interval notation.                    *)
LEMMA Room ==
  /\ N \in Nat /\ K \in Nat /\ K > 0 /\ Omega \in Nat /\ Omega > 0 /\ Omega < N
  /\ \A i : i \in RowsK <=> i \in Int /\ 0 <= i /\ i < K
  /\ \A n : n \in Byte <=> n \in Int /\ 0 <= n /\ n < N
  /\ \A n : n \in Degrees <=> n \in Int /\ 0 <= n /\ n < N
  /\ \A b : b \in DOMAIN Zeros <=> b \in Int /\ 0 <= b /\ b < Omega + K
BY HintEncodingAssumption DEF RowsK, Byte, Degrees, Zeros

(* The hint part has more bytes than there are rows.                       *)
LEMMA TwoKinds == Hints \cap HintBytes = {}
<1> SUFFICES ASSUME NEW x \in Hints, x \in HintBytes PROVE FALSE
  OBVIOUS
<1>1. DOMAIN x = RowsK /\ DOMAIN x = 0 .. Omega + K - 1
  BY DEF Hints, HintBytes
<1>2. K \in 0 .. Omega + K - 1
  BY Room
<1>3. K \notin RowsK
  BY Room
<1> QED BY <1>1, <1>2, <1>3

(* The number of ones before a place, as the j loop goes on ...            *)
LEMMA NextRank ==
  ASSUME NEW g \in Hints, NEW i \in RowsK, NEW n \in Degrees
  PROVE  Rank(g, <<i, n + 1>>) = IF g[i][n] # 0 THEN Rank(g, <<i, n>>) + 1
                                                ELSE Rank(g, <<i, n>>)
<1> DEFINE p == <<i, n>>
           q == <<i, n + 1>>
           S == Before(g, p)
<1>1. p[1] = i /\ p[2] = n /\ q[1] = i /\ q[2] = n + 1
  OBVIOUS
<1>2. i \in Int /\ n \in Int
  BY Room
<1>3. \A o \in Ones(g) : o = <<o[1], o[2]>> /\ o[1] \in Int /\ o[2] \in Int
  BY OnesFinite
<1>4. \A o : o \in S <=> o \in Ones(g) /\ (o[1] < i \/ (o[1] = i /\ o[2] < n))
  BY <1>1 DEF Before
<1>5. \A o : o \in Before(g, q) <=> o \in Ones(g) /\ (o[1] < i \/ (o[1] = i /\ o[2] < n + 1))
  BY <1>1 DEF Before
<1>6. p \in Ones(g) <=> g[i][n] # 0
  BY <1>1 DEF Ones
<1>7. S \in SUBSET Ones(g)
  BY <1>4
<1>8. IsFiniteSet(S) /\ Cardinality(S) \in Nat
  BY <1>7, OnesFinite
<1> HIDE DEF S
<1>9. p \notin S
  BY <1>1, <1>2, <1>4
<1>10. \A o \in Ones(g) : o[1] = i /\ o[2] = n => o = p
  BY <1>3
<1>11. CASE g[i][n] # 0
  <2>1. Before(g, q) = S \cup {p}
    BY <1>1, <1>2, <1>3, <1>4, <1>5, <1>6, <1>10, <1>11
  <2>2. Cardinality(S \cup {p}) = Cardinality(S) + 1
    BY <1>8, <1>9, FS_AddElement
  <2> QED BY <1>11, <2>1, <2>2 DEF Rank, S
<1>12. CASE g[i][n] = 0
  <2>1. p \notin Ones(g)
    BY <1>6, <1>12
  <2>2. \A o \in Ones(g) : ~(o[1] = i /\ o[2] = n)
    BY <1>10, <2>1
  <2>3. \A o : o \in Before(g, q) <=> o \in S
    <3> HIDE DEF p, q
    <3> QED BY <1>2, <1>3, <1>4, <1>5, <2>2
  <2>4. Before(g, q) = S
    BY <2>3
  <2> QED BY <1>12, <2>4 DEF Rank, S
<1> QED BY <1>11, <1>12

(* ... from one row to the next, and from first to last.                   *)
LEMMA RowRank ==
  ASSUME NEW g \in Hints
  PROVE  /\ Rank(g, <<0, 0>>) = 0
         /\ \A i \in RowsK : Rank(g, <<i, N>>) = UpTo(g, i) /\ Rank(g, <<i + 1, 0>>) = UpTo(g, i)
         /\ Rank(g, <<K, 0>>) = Cardinality(Ones(g))
<1>1. \A o \in Ones(g) : o[1] \in Int /\ 0 <= o[1] /\ o[1] < K /\ o[2] \in Int /\ 0 <= o[2] /\ o[2] < N
  BY OnesFinite
<1>2. \A i, n : Before(g, <<i, n>>) = {o \in Ones(g) : o[1] < i \/ (o[1] = i /\ o[2] < n)}
  BY DEF Before
<1>3. Before(g, <<0, 0>>) = {}
  BY <1>1, <1>2
<1>4. ASSUME NEW i \in RowsK
      PROVE  Rank(g, <<i, N>>) = UpTo(g, i) /\ Rank(g, <<i + 1, 0>>) = UpTo(g, i)
  <2>1. i \in Int /\ N \in Int
    BY Room
  <2>2. Before(g, <<i, N>>) = {o \in Ones(g) : o[1] <= i}
    BY <1>1, <1>2, <2>1
  <2>3. Before(g, <<i + 1, 0>>) = {o \in Ones(g) : o[1] <= i}
    BY <1>1, <1>2, <2>1
  <2> QED BY <2>2, <2>3 DEF Rank, UpTo
<1>5. Before(g, <<K, 0>>) = Ones(g)
  BY <1>1, <1>2
<1> QED BY <1>3, <1>4, <1>5, FS_EmptySet DEF Rank


-----------------------------------------------------------------------------
(* The invariant holds at the start ...                                    *)
LEMMA InitCInv == Init => CInv
<1> SUFFICES ASSUME Init PROVE CInv
  OBVIOUS
<1>1. /\ row = 0 /\ col = 0 /\ idx = 0 /\ origin \in Hints \cup HintBytes
      /\ row \in 0 .. K /\ col \in 0 .. N /\ idx \in 0 .. Omega
  BY Room DEF Init
<1>2. CASE /\ pc = "pack"
           /\ origin \in {g \in Hints : Cardinality(Ones(g)) <= Omega}
           /\ h = origin /\ sig = Zeros
  <2>1. h \in Hints /\ Cardinality(Ones(h)) <= Omega
    BY <1>2
  <2>2. sig \in HintBytes /\ \A b \in 0 .. Omega + K - 1 : sig[b] = 0
    BY <1>2, Room DEF Zeros, HintBytes
  <2>3. TypeOK
    BY <1>1, <1>2, <2>1, <2>2 DEF TypeOK
  <2>4. idx = Rank(h, <<row, col>>)
    BY <1>1, <2>1, RowRank
  <2>5. /\ \A b \in 0 .. Omega - 1 : ~(b < idx) /\ sig[b] = 0
        /\ \A i \in RowsK : ~(i < row) /\ End(sig, i) = 0
    <3>1. \A b \in 0 .. Omega - 1 : b \in 0 .. Omega + K - 1 /\ ~(b < 0)
      BY Room
    <3>2. \A i \in RowsK : Omega + i \in 0 .. Omega + K - 1 /\ ~(i < 0)
      BY Room
    <3> QED BY <1>1, <2>2, <3>1, <3>2 DEF End
  <2>6. PackedSoFar
    BY <1>1, <2>1, <2>4, <2>5 DEF PackedSoFar
  <2> QED BY <1>2, <2>1, <2>3, <2>6 DEF CInv, ReadSoFar, FromOrigin
<1>3. CASE /\ pc = "unpack"
           /\ origin \in HintBytes
           /\ h = NoHints /\ sig = origin
  <2>1. h \in Hints /\ sig \in HintBytes
    BY <1>3 DEF NoHints, Hints
  <2>2. TypeOK
    BY <1>1, <1>3, <2>1 DEF TypeOK
  <2>3. idx = First(sig, row) /\ \A i \in RowsK : ~(i < row)
    BY <1>1, Room DEF First
  <2>4. origin \notin Hints
    BY <1>3, TwoKinds
  <2> QED BY <1>1, <1>3, <2>2, <2>3, <2>4 DEF CInv, PackedSoFar, ReadSoFar, FromOrigin
<1> QED BY <1>2, <1>3 DEF Init

(* ... and every step keeps it: a one goes to the place of its rank, which *)
(* is within the list while the hint has at most Omega ones;               *)
LEMMA PackCoefficientCInv == CInv /\ PackCoefficient => CInv'
<1> SUFFICES ASSUME CInv, PackCoefficient PROVE CInv'
  OBVIOUS
<1>1. /\ pc \in {"pack", "repack"} /\ row < K /\ col < N /\ col' = col + 1
      /\ pc' = pc /\ h' = h /\ row' = row /\ origin' = origin
      /\ IF h[row][col] # 0 THEN sig' = [sig EXCEPT ![idx] = col] /\ idx' = idx + 1
                            ELSE sig' = sig /\ idx' = idx
  BY DEF PackCoefficient
<1>2. /\ h \in Hints /\ sig \in HintBytes /\ row \in 0 .. K /\ col \in 0 .. N /\ idx \in 0 .. Omega
      /\ origin \in Hints \cup HintBytes
  BY DEF CInv, TypeOK
<1>3. /\ Cardinality(Ones(h)) <= Omega
      /\ idx = Rank(h, <<row, col>>)
      /\ \A b \in 0 .. Omega - 1 : sig[b] = IF b < idx THEN PackHint(h)[b] ELSE 0
      /\ \A i \in RowsK : End(sig, i) = IF i < row THEN UpTo(h, i) ELSE 0
  BY <1>1 DEF CInv, PackedSoFar
<1>4. /\ row \in RowsK /\ col \in Degrees /\ col \in Byte /\ col + 1 \in 0 .. N
      /\ row \in Int /\ col \in Int /\ idx \in Int /\ 0 <= idx /\ row # K
  BY <1>1, <1>2, Room
<1>5. Rank(h, <<row, col + 1>>) = IF h[row][col] # 0 THEN idx + 1 ELSE idx
  BY <1>2, <1>3, <1>4, NextRank
<1>6. idx' = Rank(h', <<row', col'>>)
  BY <1>1, <1>5
<1>7. FromOrigin'
  BY <1>1 DEF CInv, FromOrigin
<1>8. ReadSoFar'
  BY <1>1 DEF ReadSoFar
<1>9. /\ sig' \in HintBytes /\ idx' \in 0 .. Omega
      /\ \A b \in 0 .. Omega - 1 : sig'[b] = IF b < idx' THEN PackHint(h)[b] ELSE 0
      /\ \A i \in RowsK : End(sig', i) = IF i < row THEN UpTo(h, i) ELSE 0
  <2>1. CASE h[row][col] = 0
    BY <1>1, <1>2, <1>3, <2>1
  <2>2. CASE h[row][col] # 0
    <3>1. <<row, col>> \in Ones(h)
      BY <1>4, <2>2 DEF Ones
    <3>2. idx < Cardinality(Ones(h)) /\ Cardinality(Ones(h)) \in Nat
      BY <1>3, <3>1, RankIncreases, OnesFinite
    <3>3. PackHint(h)[idx] = col
      <4>1. <<row, col>>[2] = col
        OBVIOUS
      <4> QED BY <1>3, <3>1, <4>1, PackedBytes
    <3>4. idx < Omega /\ idx + 1 \in 0 .. Omega
      BY <1>3, <1>4, <3>2, Room
    <3>5. /\ sig' = [sig EXCEPT ![idx] = col] /\ idx' = idx + 1
      BY <1>1, <2>2
    <3>6. idx \in 0 .. Omega + K - 1
      BY <1>4, <3>4, Room
    <3>7. sig' \in HintBytes
      BY <1>2, <1>4, <3>5 DEF HintBytes
    <3>8. \A b \in 0 .. Omega + K - 1 : sig'[b] = IF b = idx THEN col ELSE sig[b]
      BY <1>2, <3>5 DEF HintBytes
    <3>9. ASSUME NEW b \in 0 .. Omega - 1
          PROVE  sig'[b] = IF b < idx' THEN PackHint(h)[b] ELSE 0
      <4>1. b \in 0 .. Omega + K - 1 /\ b \in Int
        BY Room
      <4>2. CASE b = idx
        BY <1>4, <3>3, <3>5, <3>8, <4>1, <4>2
      <4>3. CASE b # idx
        <5>1. b < idx + 1 <=> b < idx
          BY <1>4, <4>1, <4>3
        <5> QED BY <1>3, <3>5, <3>8, <4>1, <4>3, <5>1
      <4> QED BY <4>2, <4>3
    <3>10. ASSUME NEW i \in RowsK PROVE End(sig', i) = End(sig, i)
      <4>1. Omega + i \in 0 .. Omega + K - 1 /\ Omega + i # idx
        BY <1>4, <3>4, Room
      <4> QED BY <3>8, <4>1 DEF End
    <3> QED BY <1>3, <3>4, <3>5, <3>7, <3>9, <3>10
  <2> QED BY <2>1, <2>2
<1>10. TypeOK'
  BY <1>1, <1>2, <1>4, <1>9 DEF TypeOK
<1>11. PackedSoFar'
  BY <1>1, <1>3, <1>4, <1>6, <1>9 DEF PackedSoFar
<1> QED BY <1>7, <1>8, <1>10, <1>11 DEF CInv

(* the end of a row is the number of ones up to it;                        *)
LEMMA PackPolyCInv == CInv /\ PackPoly => CInv'
<1> SUFFICES ASSUME CInv, PackPoly PROVE CInv'
  OBVIOUS
<1>1. /\ pc \in {"pack", "repack"} /\ row < K /\ col = N
      /\ sig' = [sig EXCEPT ![Omega + row] = idx]
      /\ row' = row + 1 /\ col' = 0
      /\ pc' = pc /\ h' = h /\ idx' = idx /\ origin' = origin
  BY DEF PackPoly
<1>2. /\ h \in Hints /\ sig \in HintBytes /\ row \in 0 .. K /\ col \in 0 .. N /\ idx \in 0 .. Omega
      /\ origin \in Hints \cup HintBytes
  BY DEF CInv, TypeOK
<1>3. /\ Cardinality(Ones(h)) <= Omega
      /\ idx = Rank(h, <<row, N>>)
      /\ \A b \in 0 .. Omega - 1 : sig[b] = IF b < idx THEN PackHint(h)[b] ELSE 0
      /\ \A i \in RowsK : End(sig, i) = IF i < row THEN UpTo(h, i) ELSE 0
  BY <1>1 DEF CInv, PackedSoFar
<1>4. /\ row \in RowsK /\ row + 1 \in 0 .. K /\ 0 \in 0 .. N /\ idx \in Byte
      /\ row \in Int /\ Omega + row \in 0 .. Omega + K - 1
  BY <1>1, <1>2, Room
<1>5. idx = UpTo(h, row) /\ Rank(h, <<row + 1, 0>>) = idx
  BY <1>2, <1>3, <1>4, RowRank
<1>6. sig' \in HintBytes
  BY <1>1, <1>2, <1>4 DEF HintBytes
<1>7. \A b \in 0 .. Omega + K - 1 : sig'[b] = IF b = Omega + row THEN idx ELSE sig[b]
  BY <1>1, <1>2 DEF HintBytes
<1>8. TypeOK'
  BY <1>1, <1>2, <1>4, <1>6 DEF TypeOK
<1>9. ASSUME NEW b \in 0 .. Omega - 1 PROVE sig'[b] = IF b < idx THEN PackHint(h)[b] ELSE 0
  <2>1. b \in 0 .. Omega + K - 1 /\ b # Omega + row
    BY <1>4, Room
  <2> QED BY <1>3, <1>7, <2>1
<1>10. ASSUME NEW i \in RowsK PROVE End(sig', i) = IF i < row + 1 THEN UpTo(h, i) ELSE 0
  <2>1. Omega + i \in 0 .. Omega + K - 1 /\ i \in Int /\ (Omega + i = Omega + row <=> i = row)
    BY <1>4, Room
  <2>2. CASE i = row
    BY <1>4, <1>5, <1>7, <2>1, <2>2 DEF End
  <2>3. CASE i # row
    <3>1. i < row + 1 <=> i < row
      BY <1>4, <2>1, <2>3
    <3>2. End(sig', i) = End(sig, i)
      BY <1>7, <2>1, <2>3 DEF End
    <3> QED BY <1>3, <3>1, <3>2
  <2> QED BY <2>2, <2>3
<1>11. PackedSoFar'
  BY <1>1, <1>3, <1>5, <1>9, <1>10 DEF PackedSoFar
<1>12. ReadSoFar' /\ FromOrigin'
  BY <1>1 DEF CInv, ReadSoFar, FromOrigin
<1> QED BY <1>8, <1>11, <1>12 DEF CInv


(* when the last row is done the bytes are those of the whole hint;        *)
LEMMA AllPacked ==
  ASSUME CInv, pc \in {"pack", "repack"}, row = K
  PROVE  sig = PackHint(h)
<1>1. /\ h \in Hints /\ sig \in HintBytes
  BY DEF CInv, TypeOK
<1>2. /\ Cardinality(Ones(h)) <= Omega
      /\ idx = Rank(h, <<K, 0>>)
      /\ \A b \in 0 .. Omega - 1 : sig[b] = IF b < idx THEN PackHint(h)[b] ELSE 0
      /\ \A i \in RowsK : End(sig, i) = IF i < K THEN UpTo(h, i) ELSE 0
  BY DEF CInv, PackedSoFar
<1>3. idx = Cardinality(Ones(h)) /\ idx \in Nat
  BY <1>1, <1>2, RowRank, OnesFinite
<1>4. PackHint(h) \in HintBytes
  BY <1>2, PackedBytes
<1>5. ASSUME NEW b \in 0 .. Omega + K - 1 PROVE sig[b] = PackHint(h)[b]
  <2>1. CASE b < Omega
    <3>1. b \in 0 .. Omega - 1 /\ b \in Nat /\ (b < idx \/ idx <= b)
      BY <1>3, <2>1, Room
    <3> QED BY <1>2, <1>3, <2>1, <3>1, PackedBytes
  <2>2. CASE b >= Omega
    <3> DEFINE i == b - Omega
    <3>1. i \in RowsK /\ i < K /\ Omega + i = b
      BY <2>2, Room
    <3> HIDE DEF i
    <3>2. End(sig, i) = UpTo(h, i) /\ End(PackHint(h), i) = UpTo(h, i)
      BY <1>2, <3>1, PackedBytes
    <3> QED BY <3>1, <3>2 DEF End
  <2> QED BY <2>1, <2>2, Room
<1> DEFINE D == 0 .. Omega + K - 1
           B == PackHint(h)
<1>6. sig \in [D -> Byte] /\ B \in [D -> Byte]
  BY <1>1, <1>4 DEF HintBytes
<1>7. \A b \in D : sig[b] = B[b]
  BY <1>5
<1> HIDE DEF B, D
<1>8. sig = B
  BY <1>6, <1>7
<1> QED BY <1>8 DEF B

LEMMA PackDoneCInv == CInv /\ PackDone => CInv'
<1> SUFFICES ASSUME CInv, PackDone PROVE CInv'
  OBVIOUS
<1>1. /\ pc \in {"pack", "repack"} /\ row = K
      /\ pc' = IF pc = "pack" THEN "unpack" ELSE "done"
      /\ row' = 0 /\ idx' = 0
      /\ h' = h /\ sig' = sig /\ col' = col /\ origin' = origin
  BY DEF PackDone
<1>2. /\ h \in Hints /\ sig \in HintBytes /\ col \in 0 .. N
      /\ origin \in Hints \cup HintBytes
  BY DEF CInv, TypeOK
<1>3. sig = PackHint(h) /\ Cardinality(Ones(h)) <= Omega /\ col = 0
  BY <1>1, AllPacked DEF CInv, PackedSoFar
<1>4. TypeOK'
  <2>1. 0 \in 0 .. K /\ 0 \in 0 .. Omega
    BY Room
  <2> QED BY <1>1, <1>2, <2>1 DEF TypeOK
<1>5. PackedSoFar'
  BY <1>1 DEF PackedSoFar
<1>6. ReadSoFar'
  <2>1. \A i \in RowsK : ~(i < 0)
    BY Room
  <2> QED BY <1>1, <1>3, <2>1 DEF ReadSoFar, First
<1>7. FromOrigin'
  <2>1. CASE pc = "pack"
    <3>1. origin \in Hints /\ h = origin /\ origin \notin HintBytes
      BY <2>1, TwoKinds DEF CInv, FromOrigin
    <3> QED BY <1>1, <1>3, <2>1, <3>1 DEF FromOrigin
  <2>2. CASE pc = "repack"
    <3>1. origin \in HintBytes => ~Malformed(origin) /\ h = UnpackHint(origin)
      BY <2>2 DEF CInv, FromOrigin
    <3>2. origin \in HintBytes => sig = origin
      BY <1>3, <3>1, HintCanonical
    <3> QED BY <1>1, <2>2, <3>2 DEF FromOrigin
  <2> QED BY <1>1, <2>1, <2>2
<1> QED BY <1>4, <1>5, <1>6, <1>7 DEF CInv

(* the verifier refuses a row only of bytes that are malformed, and reads  *)
(* the others as UnpackHint does;                                          *)
LEMMA UnpackPolyCInv == CInv /\ UnpackPoly => CInv'
<1> SUFFICES ASSUME CInv, UnpackPoly PROVE CInv'
  OBVIOUS
<1>1. /\ pc = "unpack" /\ row < K
      /\ IF EndOutside \/ Unordered
         THEN pc' = "malformed" /\ h' = h /\ row' = row /\ idx' = idx
         ELSE /\ h' = [h EXCEPT ![row] = [n \in Degrees |-> IF n \in Listed THEN 1 ELSE 0]]
              /\ idx' = sig[Omega + row] /\ row' = row + 1 /\ pc' = pc
      /\ sig' = sig /\ col' = col /\ origin' = origin
  BY DEF UnpackPoly, UnpackRound
<1>2. /\ h \in Hints /\ sig \in HintBytes /\ row \in 0 .. K /\ col \in 0 .. N /\ idx \in 0 .. Omega
      /\ origin \in Hints \cup HintBytes
  BY DEF CInv, TypeOK
<1>3. /\ col = 0 /\ idx = First(sig, row)
      /\ \A i \in RowsK : i < row => RowRead(i)
  BY <1>1 DEF CInv, ReadSoFar
<1>4. /\ row \in RowsK /\ row \in Int /\ row + 1 \in 0 .. K /\ row # K
      /\ Omega + row \in 0 .. Omega + K - 1
      /\ idx \in Int /\ 0 <= idx /\ idx <= Omega
  BY <1>1, <1>2, Room
<1>5. /\ End(sig, row) = sig[Omega + row]
      /\ End(sig, row) \in Int /\ 0 <= End(sig, row)
  BY <1>2, <1>4, Room DEF End, HintBytes
<1>6. PackedSoFar'
  BY <1>1 DEF PackedSoFar
<1>7. CASE EndOutside \/ Unordered
  <2>1. TypeOK'
    BY <1>1, <1>2, <1>7 DEF TypeOK
  <2>2. Malformed(sig)
    <3>1. CASE EndOutside
      BY <1>3, <1>4, <1>5, <3>1 DEF EndOutside, Malformed
    <3>2. CASE ~EndOutside /\ Unordered
      <4>1. End(sig, row) <= Omega
        BY <1>4, <1>5, <3>2, Room DEF EndOutside
      <4>2. PICK j \in idx + 1 .. sig[Omega + row] - 1 : sig[j] <= sig[j - 1]
        BY <3>2 DEF Unordered
      <4>3. j \in 1 .. Omega - 1 /\ First(sig, row) < j /\ j < End(sig, row)
        BY <1>3, <1>4, <1>5, <4>1, <4>2, Room
      <4> QED BY <1>4, <4>2, <4>3 DEF Malformed
    <3> QED BY <1>7, <3>1, <3>2
  <2>3. /\ origin \in Hints => sig = PackHint(origin) /\ Cardinality(Ones(origin)) <= Omega
        /\ origin \in HintBytes => sig = origin
    BY <1>1 DEF CInv, FromOrigin
  <2>4. origin \notin Hints
    BY <2>2, <2>3, PackedWellFormed
  <2>5. FromOrigin' /\ ReadSoFar'
    BY <1>1, <1>2, <1>7, <2>2, <2>3, <2>4 DEF FromOrigin, ReadSoFar
  <2> QED BY <1>6, <2>1, <2>5 DEF CInv
<1>8. CASE ~EndOutside /\ ~Unordered
  <2>1. /\ h' = [h EXCEPT ![row] = [n \in Degrees |-> IF n \in Listed THEN 1 ELSE 0]]
        /\ idx' = End(sig, row) /\ row' = row + 1 /\ pc' = pc
    BY <1>1, <1>5, <1>8
  <2>2. First(sig, row) <= End(sig, row) /\ End(sig, row) <= Omega
    BY <1>3, <1>4, <1>5, <1>8, Room DEF EndOutside
  <2>3. ASSUME NEW j \in 1 .. Omega - 1, First(sig, row) < j, j < End(sig, row)
        PROVE  ~(sig[j] <= sig[j - 1])
    <3>1. j \in idx + 1 .. sig[Omega + row] - 1
      BY <1>3, <1>4, <1>5, <2>3
    <3> QED BY <1>8, <3>1 DEF Unordered
  <2>4. [n \in Degrees |-> IF n \in Listed THEN 1 ELSE 0] = UnpackHint(sig)[row]
    <3>1. \A n : n \in Listed <=> \E j \in First(sig, row) .. End(sig, row) - 1 : sig[j] = n
      BY <1>3, <1>5 DEF Listed
    <3>2. UnpackHint(sig)[row] = [n \in Degrees |->
            IF \E j \in First(sig, row) .. End(sig, row) - 1 : sig[j] = n THEN 1 ELSE 0]
      BY <1>4 DEF UnpackHint
    <3> QED BY <3>1, <3>2
  <2>5. h' \in Hints /\ \A i \in RowsK : h'[i] = IF i = row THEN UnpackHint(sig)[row] ELSE h[i]
    <3>1. UnpackHint(sig)[row] \in [Degrees -> {0, 1}]
      BY <2>4
    <3>2. h' = [h EXCEPT ![row] = UnpackHint(sig)[row]]
      BY <2>1, <2>4
    <3> QED BY <1>2, <1>4, <3>1, <3>2 DEF Hints
  <2>6. End(sig, row) \in 0 .. Omega
    BY <1>5, <2>2, Room
  <2>7. TypeOK'
    BY <1>1, <1>2, <1>4, <2>1, <2>5, <2>6 DEF TypeOK
  <2>8. idx' = First(sig, row + 1)
    <3>1. row + 1 # 0 /\ (row + 1) - 1 = row
      BY <1>4, Room
    <3> QED BY <2>1, <3>1 DEF First
  <2>9. ASSUME NEW i \in RowsK, i < row + 1 PROVE RowRead(i)'
    <3>1. i \in Int
      BY Room
    <3>2. CASE i = row
      BY <1>1, <2>2, <2>3, <2>5, <3>2 DEF RowRead
    <3>3. CASE i # row
      <4>1. RowRead(i)
        BY <1>3, <1>4, <2>9, <3>1, <3>3
      <4>2. h'[i] = h[i]
        BY <2>5, <3>3
      <4> QED BY <1>1, <4>1, <4>2 DEF RowRead
    <3> QED BY <3>2, <3>3
  <2>10. ReadSoFar'
    BY <1>1, <1>3, <2>1, <2>8, <2>9 DEF ReadSoFar
  <2>11. FromOrigin'
    BY <1>1, <2>1 DEF CInv, FromOrigin
  <2> QED BY <1>6, <2>7, <2>10, <2>11 DEF CInv
<1> QED BY <1>7, <1>8

(* and when the padding is zero, it has read all there is.                 *)
LEMMA UnpackDoneCInv == CInv /\ UnpackDone => CInv'
<1> SUFFICES ASSUME CInv, UnpackDone PROVE CInv'
  OBVIOUS
<1> DEFINE Padded == \E j \in idx .. Omega - 1 : sig[j] # 0
<1>1. /\ pc = "unpack" /\ row = K
      /\ IF Padded
         THEN pc' = "malformed" /\ sig' = sig /\ row' = row /\ idx' = idx
         ELSE pc' = "repack" /\ sig' = Zeros /\ row' = 0 /\ idx' = 0
      /\ h' = h /\ col' = col /\ origin' = origin
  BY DEF UnpackDone
<1>2. /\ h \in Hints /\ sig \in HintBytes /\ row \in 0 .. K /\ col \in 0 .. N /\ idx \in 0 .. Omega
      /\ origin \in Hints \cup HintBytes
  BY DEF CInv, TypeOK
<1>3. /\ col = 0 /\ idx = First(sig, K)
      /\ \A i \in RowsK : RowRead(i)
  <2>1. \A i \in RowsK : i < K
    BY Room
  <2> QED BY <1>1, <2>1 DEF CInv, ReadSoFar
<1>4. idx = End(sig, K - 1) /\ idx \in Int /\ 0 <= idx
  BY <1>2, <1>3, Room DEF First
<1>5. /\ origin \in Hints => sig = PackHint(origin) /\ Cardinality(Ones(origin)) <= Omega
      /\ origin \in HintBytes => sig = origin
  BY <1>1 DEF CInv, FromOrigin
<1>6. Padded <=> \E j \in 0 .. Omega - 1 : j >= End(sig, K - 1) /\ sig[j] # 0
  <2>1. \A j : j \in idx .. Omega - 1 <=> j \in 0 .. Omega - 1 /\ j >= idx
    BY <1>4, Room
  <2> QED BY <1>4, <2>1
<1> HIDE DEF Padded
<1>7. CASE Padded
  <2>1. Malformed(sig)
    BY <1>6, <1>7 DEF Malformed
  <2>2. origin \notin Hints
    BY <1>5, <2>1, PackedWellFormed
  <2>3. TypeOK'
    BY <1>1, <1>2, <1>7 DEF TypeOK
  <2>4. PackedSoFar' /\ ReadSoFar' /\ FromOrigin'
    BY <1>1, <1>2, <1>5, <1>7, <2>1, <2>2 DEF PackedSoFar, ReadSoFar, FromOrigin
  <2> QED BY <2>3, <2>4 DEF CInv
<1>8. CASE ~Padded
  <2>1. ~Malformed(sig)
    <3>1. ASSUME NEW i \in RowsK PROVE ~(End(sig, i) < First(sig, i)) /\ ~(End(sig, i) > Omega)
      <4>1. First(sig, i) <= End(sig, i) /\ End(sig, i) <= Omega
        BY <1>3 DEF RowRead
      <4>2. i \in Int /\ Omega + i \in 0 .. Omega + K - 1 /\ (i # 0 => Omega + (i - 1) \in 0 .. Omega + K - 1)
        BY Room
      <4>3. End(sig, i) \in Int /\ First(sig, i) \in Int
        BY <1>2, <4>2, Room DEF HintBytes, End, First
      <4> QED BY <4>1, <4>3, Room
    <3>2. ASSUME NEW i \in RowsK, NEW j \in 1 .. Omega - 1, First(sig, i) < j, j < End(sig, i)
          PROVE  ~(sig[j] <= sig[j - 1])
      BY <1>3, <3>2 DEF RowRead
    <3> QED BY <1>6, <1>8, <3>1, <3>2 DEF Malformed
  <2>2. h = UnpackHint(sig)
    <3>1. \A i \in RowsK : h[i] = UnpackHint(sig)[i]
      BY <1>3 DEF RowRead
    <3>2. UnpackHint(sig) \in Hints
      BY <1>2, <2>1, HintCanonical
    <3> QED BY <1>2, <3>1, <3>2 DEF Hints
  <2>3. Cardinality(Ones(h)) <= Omega
    BY <1>2, <2>1, <2>2, HintCanonical
  <2>4. Zeros \in HintBytes /\ \A b \in 0 .. Omega + K - 1 : Zeros[b] = 0
    BY Room DEF Zeros, HintBytes
  <2>5. pc' = "repack" /\ sig' = Zeros /\ row' = 0 /\ idx' = 0
    BY <1>1, <1>8
  <2>6. TypeOK'
    <3>1. 0 \in 0 .. K /\ 0 \in 0 .. Omega
      BY Room
    <3> QED BY <1>1, <1>2, <2>4, <2>5, <3>1 DEF TypeOK
  <2>7. PackedSoFar'
    <3>1. idx' = Rank(h', <<row', col'>>)
      BY <1>1, <1>2, <1>3, <2>5, RowRank
    <3>2. \A b \in 0 .. Omega - 1 : b \in 0 .. Omega + K - 1 /\ ~(b < 0)
      BY Room
    <3>3. \A i \in RowsK : Omega + i \in 0 .. Omega + K - 1 /\ ~(i < 0)
      BY Room
    <3>4. /\ \A b \in 0 .. Omega - 1 : ~(b < idx') /\ sig'[b] = 0
          /\ \A i \in RowsK : ~(i < row') /\ End(sig', i) = 0
      BY <2>4, <2>5, <3>2, <3>3 DEF End
    <3> QED BY <1>1, <1>3, <2>3, <3>1, <3>4 DEF PackedSoFar
  <2>8. FromOrigin'
    <3>1. origin \in Hints => h = origin
      BY <1>5, <2>2, HintRoundTrip
    <3>2. origin \in HintBytes => ~Malformed(origin) /\ h = UnpackHint(origin)
      BY <1>5, <2>1, <2>2
    <3> QED BY <1>1, <2>5, <3>1, <3>2 DEF FromOrigin
  <2>9. ReadSoFar'
    BY <2>5 DEF ReadSoFar
  <2> QED BY <2>6, <2>7, <2>8, <2>9 DEF CInv
<1> QED BY <1>7, <1>8

LEMMA StepCInv == CInv /\ [Next]_vars => CInv'
<1> SUFFICES ASSUME CInv, [Next]_vars PROVE CInv'
  OBVIOUS
<1>1. CASE UNCHANGED vars
  <2>1. pc' = pc /\ h' = h /\ sig' = sig /\ row' = row /\ col' = col /\ idx' = idx /\ origin' = origin
    BY <1>1 DEF vars
  <2>2. TypeOK' /\ PackedSoFar' /\ FromOrigin'
    BY <2>1 DEF CInv, TypeOK, PackedSoFar, FromOrigin
  <2>3. ReadSoFar'
    BY <2>1 DEF CInv, ReadSoFar, RowRead
  <2> QED BY <2>2, <2>3 DEF CInv
<1> QED BY <1>1, PackCoefficientCInv, PackPolyCInv, PackDoneCInv, UnpackPolyCInv, UnpackDoneCInv DEF Next

LEMMA CInvHolds == Spec => []CInv
BY InitCInv, StepCInv, PTL DEF Spec

-----------------------------------------------------------------------------
(* No index leaves its buffer (packing.go:122-136, 164-190): idx stays     *)
(* within Omega, every byte written is one, whatever the bytes read.       *)
THEOREM LoopsInBounds == Spec => []TypeOK
<1>1. CInv => TypeOK
  BY DEF CInv
<1> QED BY <1>1, CInvHolds, PTL

(* A hint of at most Omega ones survives PackSig and UnpackSig.            *)
THEOREM HintSurvives == Spec => []RoundTrip
<1>1. CInv => RoundTrip
  BY DEF CInv, FromOrigin, RoundTrip
<1> QED BY <1>1, CInvHolds, PTL

(* Bytes UnpackSig accepts are the only ones of their hint.                *)
THEOREM BytesAreCanonical == Spec => []Canonical
<1>1. CInv => Canonical
  BY DEF CInv, FromOrigin, Canonical
<1> QED BY <1>1, CInvHolds, PTL

(* The loops compute PackHint, UnpackHint and Malformed.                   *)
THEOREM LoopsMeetDefinition == Spec => []Definitional
<1>1. CInv => Definitional
  BY DEF CInv, FromOrigin, Definitional
<1> QED BY <1>1, CInvHolds, PTL

(* UnpackSig refuses no hint that PackSig wrote.                           *)
THEOREM PackedIsAccepted == Spec => NeverRefused
<1>1. CInv /\ CInv' /\ [Next]_vars => [(origin \in Hints) => pc' # "malformed"]_vars
  <2> SUFFICES ASSUME CInv', [Next]_vars, origin \in Hints, pc' = "malformed" PROVE UNCHANGED vars
    OBVIOUS
  <2>1. origin' \in HintBytes
    BY DEF CInv, FromOrigin
  <2>2. origin' \notin Hints
    BY <2>1, TwoKinds
  <2>3. CASE Next
    <3>1. origin' = origin
      BY <2>3 DEF Next, PackCoefficient, PackPoly, PackDone, UnpackPoly, UnpackRound, UnpackDone
    <3> QED BY <2>2, <3>1
  <2> QED BY <2>3
<1> QED BY <1>1, CInvHolds, PTL DEF Spec, NeverRefused
====
