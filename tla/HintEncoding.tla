---------------------------- MODULE HintEncoding ----------------------------
(***************************************************************************)
(* The last Omega + K bytes of a signature (packing.go:122-136, 164-190):  *)
(* the positions of the ones of all hint polynomials in one list of Omega  *)
(* bytes, and for each polynomial the length of the list up to it.         *)
(***************************************************************************)
EXTENDS Integers, FiniteSets, FiniteSetsExt

CONSTANTS
  N,        \* coefficients of a polynomial: a byte holds 0 .. N-1
  K,        \* hint polynomials
  Omega     \* room for the ones of all of them

ASSUME HintEncodingAssumption ==
  N \in Nat \ {0} /\ K \in Nat \ {0} /\ Omega \in Nat \ {0} /\ Omega < N

Degrees == 0 .. N - 1
RowsK   == 0 .. K - 1

Byte      == 0 .. N - 1
HintBytes == [0 .. Omega + K - 1 -> Byte]
Hints     == [RowsK -> [Degrees -> {0, 1}]]

(* The ones of h as pairs <<row, position>>, and those before one of them  *)
(* in the order of the two loops of PackSig.                               *)
Ones(h) == {p \in RowsK \X Degrees : h[p[1]][p[2]] # 0}

Before(h, p) ==
  {q \in Ones(h) : q[1] < p[1] \/ (q[1] = p[1] /\ q[2] < p[2])}

(* PackSig, for a hint of at most Omega ones (the caller's n > omega test).*)
PackHint(h) ==
  [b \in 0 .. Omega + K - 1 |->
     IF b >= Omega
     THEN Cardinality({q \in Ones(h) : q[1] <= b - Omega})
     ELSE IF \E p \in Ones(h) : Cardinality(Before(h, p)) = b
          THEN (CHOOSE p \in Ones(h) : Cardinality(Before(h, p)) = b)[2]
          ELSE 0]

(* UnpackSig.  first(i) and end(i) delimit row i in the list.              *)
End(bytes, i)   == bytes[Omega + i]
First(bytes, i) == IF i = 0 THEN 0 ELSE End(bytes, i - 1)

Malformed(bytes) ==
  \/ \E i \in RowsK : End(bytes, i) < First(bytes, i) \/ End(bytes, i) > Omega
  \/ \E i \in RowsK, j \in 1 .. Omega - 1 :
        /\ First(bytes, i) < j /\ j < End(bytes, i)
        /\ bytes[j] <= bytes[j - 1]
  \/ \E j \in 0 .. Omega - 1 : j >= End(bytes, K - 1) /\ bytes[j] # 0

UnpackHint(bytes) ==
  [i \in RowsK |-> [n \in Degrees |->
     IF \E j \in First(bytes, i) .. End(bytes, i) - 1 : bytes[j] = n
     THEN 1 ELSE 0]]
=============================================================================
