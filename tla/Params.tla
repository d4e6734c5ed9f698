-------------------------------- MODULE Params --------------------------------
(***************************************************************************)
(* The tables of params.go.  A Mode is an int: 0, 1 and 2 are Dilithium2,  *)
(* Dilithium3 and Dilithium5, and every table gives 0 for any other one,   *)
(* for which 3 stands here.                                                *)
(***************************************************************************)
EXTENDS Integers, Sequences, FiniteSets

N == 256
Q == 8380417
SEEDBYTES == 32
TRBYTES == 64
POLYT1_PACKEDBYTES == 320
POLYT0_PACKEDBYTES == 416

Mode   == 0 .. 3
Listed == 0 .. 2

PerMode(row) == [m \in Mode |-> IF m \in Listed THEN row[m + 1] ELSE 0]

K                  == PerMode(<<4, 6, 8>>)
L                  == PerMode(<<4, 5, 7>>)
Eta                == PerMode(<<2, 4, 2>>)
Tau                == PerMode(<<39, 49, 60>>)
Beta               == PerMode(<<78, 196, 120>>)
Gamma1             == PerMode(<<2 ^ 17, 2 ^ 19, 2 ^ 19>>)
Gamma2             == PerMode(<<(Q - 1) \div 88, (Q - 1) \div 32, (Q - 1) \div 32>>)
Omega              == PerMode(<<80, 55, 75>>)
Ctildebytes        == PerMode(<<32, 48, 64>>)
PolyZPackedBytes   == PerMode(<<576, 640, 640>>)
PolyW1PackedBytes  == PerMode(<<192, 128, 128>>)
PolyEtaPackedBytes == PerMode(<<96, 128, 96>>)

PublicKeyBytes(m) == SEEDBYTES + K[m] * POLYT1_PACKEDBYTES

SecretKeyBytes(m) ==
  2 * SEEDBYTES + TRBYTES + (K[m] + L[m]) * PolyEtaPackedBytes[m]
    + K[m] * POLYT0_PACKEDBYTES

SignatureBytes(m) == Ctildebytes[m] + L[m] * PolyZPackedBytes[m] + Omega[m] + K[m]

(* Mutant: the rows of the matrix as tags.                                 *)
ModeTag_RowsOfK == PerMode(<<4, 6, 8>>)
ModeTag == PerMode(<<2, 3, 5>>)

(* The modes with a tag: one or none.                                      *)
ModeFromTag(tag) ==
  {m \in Listed : <<2, 3, 5>>[m + 1] = tag}

-----------------------------------------------------------------------------
(* What the code that uses the tables relies on.                           *)
ASSUME ParamsAssumption ==
  \A m \in Listed :
    /\ Beta[m] = Tau[m] * Eta[m]
    /\ Tau[m] <= 64                            \* PolyChallenge has 64 signs
    /\ (Q - 1) % (2 * Gamma2[m]) = 0           \* decompose
    /\ PolyEtaPackedBytes[m] * 8 = N * (IF Eta[m] = 2 THEN 3 ELSE 4)
    /\ 2 ^ ((PolyZPackedBytes[m] * 8) \div N) = 2 * Gamma1[m]
    /\ 2 ^ ((PolyW1PackedBytes[m] * 8) \div N) >= (Q - 1) \div (2 * Gamma2[m])
    /\ Omega[m] <= 255                         \* a count of hints is a byte
    /\ K[m] <= 8 /\ L[m] <= 7                  \* K_MAX, L_MAX
    /\ Beta[m] < Gamma2[m] /\ Beta[m] < Gamma1[m]

(* The widths of module Ntt: N * Q in an int32, and of the sum of a row    *)
(* before Reduce.                                                          *)
ASSUME WidthsOfModes ==
  /\ N * Q < 2147483647
  /\ \A m \in Listed : L[m] * Q < 2147483647 - 8388608

(* No two of the byte strings a key can be given as have the same length,  *)
(* whatever their modes: FromBytes, FromKeys and FromPublicKey tell them   *)
(* apart by length alone.                                                  *)
Lengths(m) == {SecretKeyBytes(m), PublicKeyBytes(m), 1 + PublicKeyBytes(m),
               1 + PublicKeyBytes(m) + SecretKeyBytes(m)}

ASSUME FormatsDistinct ==
  /\ \A m \in Mode : Cardinality(Lengths(m)) = 4
  /\ \A m1, m2 \in Mode : (m1 # m2) => (Lengths(m1) \intersect Lengths(m2) = {})
=============================================================================
