------------------------------- MODULE Packing -------------------------------
(***************************************************************************)
(* How the packers of poly.go share the bits of their fields among bytes,  *)
(* and where packing.go puts what they make.  (What a field stores of its  *)
(* coefficient is in module Ring.)                                         *)
(*                                                                         *)
(* A field or a byte is the set of its bits that are 1: an | is a union,   *)
(* a shift moves every bit, a mask or a conversion to byte drops the bits  *)
(* above its width.  A packer repeats one pattern for every group of       *)
(* `fields` coefficients, and a pattern has one row for each byte it       *)
(* writes or field it reads: the terms <<index, shift>> joined by |, the   *)
(* shift positive to the left.                                             *)
(***************************************************************************)
EXTENDS Params, Functions

Bits(width) == 0 .. width - 1

Joined(row, x, width) ==
  {b \in Bits(width) : \E term \in row : b - term[2] \in x[term[1]]}

Fields(f) == 0 .. f.fields - 1
Bytes(f)  == 0 .. f.bytes - 1

Pack(f, t) == [k \in Bytes(f) |-> Joined(f.pack[k], t, 8)]

(* No mask is applied to the fields in `unmasked`, which stay 32 bits.     *)
Unpack(f, r) ==
  [i \in Fields(f) |->
     Joined(f.unpack[i], r, IF i \in f.unmasked THEN 32 ELSE f.width)]

-----------------------------------------------------------------------------
(* A list as a function from 0.                                            *)
Rows(s) == [n \in 0 .. Len(s) - 1 |-> s[n + 1]]

PolyEta2 ==
  [width |-> 3, fields |-> 8, bytes |-> 3, unmasked |-> {},
   pack |-> Rows(<<
     {<<0, 0>>, <<1, 3>>, <<2, 6>>}, {<<2, -2>>, <<3, 1>>, <<4, 4>>, <<5, 7>>},
     {<<5, -1>>, <<6, 2>>, <<7, 5>>}>>),
   unpack |-> Rows(<<
     {<<0, 0>>}, {<<0, -3>>}, {<<0, -6>>, <<1, 2>>}, {<<1, -1>>}, {<<1, -4>>},
     {<<1, -7>>, <<2, 1>>}, {<<2, -2>>}, {<<2, -5>>}>>)]

PolyEta4 ==
  [width |-> 4, fields |-> 2, bytes |-> 1, unmasked |-> {1},
   pack |-> Rows(<<{<<0, 0>>, <<1, 4>>}>>),
   unpack |-> Rows(<<{<<0, 0>>}, {<<0, -4>>}>>)]

PolyT1 ==
  [width |-> 10, fields |-> 4, bytes |-> 5, unmasked |-> {3},
   pack |-> Rows(<<
     {<<0, 0>>}, {<<0, -8>>, <<1, 2>>}, {<<1, -6>>, <<2, 4>>},
     {<<2, -4>>, <<3, 6>>}, {<<3, -2>>}>>),
   unpack |-> Rows(<<
     {<<0, 0>>, <<1, 8>>}, {<<1, -2>>, <<2, 6>>}, {<<2, -4>>, <<3, 4>>},
     {<<3, -6>>, <<4, 2>>}>>)]

PolyT0 ==
  [width |-> 13, fields |-> 8, bytes |-> 13, unmasked |-> {},
   pack |-> Rows(<<
     {<<0, 0>>}, {<<0, -8>>, <<1, 5>>}, {<<1, -3>>}, {<<1, -11>>, <<2, 2>>},
     {<<2, -6>>, <<3, 7>>}, {<<3, -1>>}, {<<3, -9>>, <<4, 4>>}, {<<4, -4>>},
     {<<4, -12>>, <<5, 1>>}, {<<5, -7>>, <<6, 6>>}, {<<6, -2>>},
     {<<6, -10>>, <<7, 3>>}, {<<7, -5>>}>>),
   unpack |-> Rows(<<
     {<<0, 0>>, <<1, 8>>}, {<<1, -5>>, <<2, 3>>, <<3, 11>>},
     {<<3, -2>>, <<4, 6>>}, {<<4, -7>>, <<5, 1>>, <<6, 9>>},
     {<<6, -4>>, <<7, 4>>, <<8, 12>>}, {<<8, -1>>, <<9, 7>>},
     {<<9, -6>>, <<10, 2>>, <<11, 10>>}, {<<11, -3>>, <<12, 5>>}>>)]

PolyZ17 ==
  [width |-> 18, fields |-> 4, bytes |-> 9, unmasked |-> {},
   pack |-> Rows(<<
     {<<0, 0>>}, {<<0, -8>>}, {<<0, -16>>, <<1, 2>>}, {<<1, -6>>},
     {<<1, -14>>, <<2, 4>>}, {<<2, -4>>}, {<<2, -12>>, <<3, 6>>}, {<<3, -2>>},
     {<<3, -10>>}>>),
   unpack |-> Rows(<<
     {<<0, 0>>, <<1, 8>>, <<2, 16>>}, {<<2, -2>>, <<3, 6>>, <<4, 14>>},
     {<<4, -4>>, <<5, 4>>, <<6, 12>>}, {<<6, -6>>, <<7, 2>>, <<8, 10>>}>>)]

PolyZ19 ==
  [width |-> 20, fields |-> 2, bytes |-> 5, unmasked |-> {},
   pack |-> Rows(<<
     {<<0, 0>>}, {<<0, -8>>}, {<<0, -16>>, <<1, 4>>}, {<<1, -4>>}, {<<1, -12>>}>>),
   unpack |-> Rows(<<
     {<<0, 0>>, <<1, 8>>, <<2, 16>>}, {<<2, -4>>, <<3, 4>>, <<4, 12>>}>>)]

(* w1 is hashed and never unpacked.                                        *)
PolyW1of44 ==
  [width |-> 6, fields |-> 4, bytes |-> 3,
   pack |-> Rows(<<
     {<<0, 0>>, <<1, 6>>}, {<<1, -2>>, <<2, 4>>}, {<<2, -4>>, <<3, 2>>}>>)]

PolyW1of65 ==
  [width |-> 4, fields |-> 2, bytes |-> 1,
   pack |-> Rows(<<{<<0, 0>>, <<1, 4>>}>>)]

Unpacked == {PolyEta2, PolyEta4, PolyT1, PolyT0, PolyZ17, PolyZ19}
Packed   == Unpacked \union {PolyW1of44, PolyW1of65}

-----------------------------------------------------------------------------
(* The bits of field i are those from f.width * i on of the whole group,   *)
(* and the bits of byte k those from 8 * k on.                             *)
Overlap(f, i, k) == f.width * i < 8 * (k + 1) /\ 8 * k < f.width * (i + 1)

(* A row has a term for every part it shares bits with, and each of its    *)
(* terms moves the bits to where they belong.                              *)
PackAligned(f) ==
  /\ f.width \in Nat \ {0} /\ f.fields \in Nat /\ f.bytes \in Nat
  /\ f.width * f.fields = 8 * f.bytes
  /\ \A k \in Bytes(f) :
       /\ \A term \in f.pack[k] :
            term[1] \in Fields(f) /\ term[2] = f.width * term[1] - 8 * k
       /\ \A i \in Fields(f) :
            Overlap(f, i, k) => <<i, f.width * i - 8 * k>> \in f.pack[k]

UnpackAligned(f) ==
  /\ f.width <= 32
  /\ \A i \in Fields(f) :
       /\ \A term \in f.unpack[i] :
            term[1] \in Bytes(f) /\ term[2] = 8 * term[1] - f.width * i
       /\ \A k \in Bytes(f) :
            Overlap(f, i, k) => <<k, 8 * k - f.width * i>> \in f.unpack[i]
       /\ (i \in f.unmasked) =>
            \A term \in f.unpack[i] : 8 * (term[1] + 1) <= f.width * (i + 1)

(* The patterns of poly.go, every row and shift of them.                   *)
ASSUME Patterns ==
  /\ \A f \in Packed : PackAligned(f) /\ N % f.fields = 0
  /\ \A f \in Unpacked : UnpackAligned(f)

-----------------------------------------------------------------------------
(* The layouts of packing.go: what the running offset passes, in order.    *)
Repeat(n, part) == [x \in 1 .. n |-> part]

PkLayout(m) ==
  <<SEEDBYTES>> \o Repeat(K[m], POLYT1_PACKEDBYTES)

SkLayout(m) ==
  <<SEEDBYTES, SEEDBYTES, TRBYTES>>
    \o Repeat(L[m] + K[m], PolyEtaPackedBytes[m])
    \o Repeat(K[m], POLYT0_PACKEDBYTES)

SigLayout(m) ==
  <<Ctildebytes[m]>> \o Repeat(L[m], PolyZPackedBytes[m]) \o <<Omega[m] + K[m]>>

Offset(layout, n) == SumFunctionOnSet(layout, 1 .. n)

(* Bytes of a packed polynomial.                                           *)
PolyBytes(f) == (N \div f.fields) * f.bytes

EtaOf(m) == IF Eta[m] = 2 THEN PolyEta2 ELSE PolyEta4
ZOf(m)   == IF Gamma1[m] = 2 ^ 17 THEN PolyZ17 ELSE PolyZ19
W1Of(m)  == IF Gamma2[m] = (Q - 1) \div 88 THEN PolyW1of44 ELSE PolyW1of65

(* The blocks PolyUniformGamma1 squeezes for PolyZUnpack to read.          *)
Gamma1Blocks(m) == (PolyZPackedBytes[m] + 135) \div 136

(* Every slice given to a packer is as long as what the packer writes, the *)
(* last one ends where the byte string does, tr lies where FromKeys reads  *)
(* it (dilithium.go:186), and w1 fits into its buffer.                     *)
ASSUME Layouts ==
  /\ PolyBytes(PolyT1) = POLYT1_PACKEDBYTES
  /\ PolyBytes(PolyT0) = POLYT0_PACKEDBYTES
  /\ \A m \in Listed :
       /\ PolyBytes(EtaOf(m)) = PolyEtaPackedBytes[m]
       /\ PolyBytes(ZOf(m)) = PolyZPackedBytes[m]
       /\ PolyBytes(W1Of(m)) = PolyW1PackedBytes[m]
       /\ PolyBytes(ZOf(m)) <= Gamma1Blocks(m) * 136
       /\ Offset(PkLayout(m), Len(PkLayout(m))) = PublicKeyBytes(m)
       /\ Offset(SkLayout(m), Len(SkLayout(m))) = SecretKeyBytes(m)
       /\ Offset(SkLayout(m), 2) = 2 * SEEDBYTES
       /\ Offset(SigLayout(m), Len(SigLayout(m))) = SignatureBytes(m)
=============================================================================
