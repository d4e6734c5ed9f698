------------------------------ MODULE Sampling ------------------------------
(***************************************************************************)
(* Keypair's expansion of its seeds: MatrixExpand, PolyVecLUniformEta and  *)
(* PolyVecKUniformEta open one SHAKE stream after the other and fill a     *)
(* polynomial from each, by rejection (PolyUniform with RejUniform,        *)
(* PolyUniformEta with RejEta).  A step is one round of a rejection loop,  *)
(* one call of Squeeze, or the start or end of a polynomial.               *)
(*                                                                         *)
(* SHAKE is external: a stream is any function of its name, the XOF and    *)
(* the nonce absorbed after the seed.  Its bytes repeat after Period, so   *)
(* that it is endless, as SHAKE is, and has finitely many states.          *)
(***************************************************************************)
EXTENDS Integers, Sequences

CONSTANTS
  N,               \* coefficients of a polynomial
  Q,               \* the modulus, 8380417
  Etas,            \* the values of mode.Eta(): {2, 4}
  K, L,            \* rows and columns of the matrix
  Block128,        \* STREAM128_BLOCKBYTES
  Block256,        \* STREAM256_BLOCKBYTES
  UniformBlocks,   \* nblocks of PolyUniform
  Eta2Blocks,      \* nblocks of PolyUniformEta when mode.Eta() is 2
  Eta4Blocks,      \* and when it is 4
  Period,          \* bytes after which a stream repeats
  Tapes            \* the streams explored: functions of a stream's name

ASSUME SamplingAssumption ==
  /\ N \in Nat \ {0} /\ Q \in Nat /\ Etas \subseteq {2, 4}
  /\ K \in Nat \ {0} /\ L \in Nat \ {0} /\ Period \in Nat \ {0}
  /\ K < 256 /\ L < 256     \* K_MAX is 8, L_MAX is 7
  /\ {Block128, Block256, UniformBlocks, Eta2Blocks, Eta4Blocks} \subseteq Nat \ {0}
  /\ Block128 % 3 = 0       \* as 168 is: no candidate spans two blocks

Byte == 0 .. 255

-----------------------------------------------------------------------------
(* The polynomials of a key, in the order Keypair makes them.  A nonce is  *)
(* a uint16.                                                               *)
uint16(x) == x % 65536

MatrixExpand ==
  [n \in 1 .. K * L |->
     [xof |-> 128, nonce |-> uint16(((n - 1) \div L) * 256 + ((n - 1) % L))]]

UniformEta(count, nonce) ==
  [n \in 1 .. count |-> [xof |-> 256, nonce |-> uint16(nonce + uint16(n - 1))]]

(* Mutant: s2 starts from nonce 0, as s1 does.                             *)
Work_S2FromZero == MatrixExpand \o UniformEta(L, 0) \o UniformEta(K, 0)

Work == MatrixExpand \o UniformEta(L, 0) \o UniformEta(K, L)

Streams == {Work[n] : n \in DOMAIN Work}

ASSUME TapesAssumption == Tapes \subseteq [Streams -> [0 .. Period - 1 -> Byte]]

VARIABLES
  eta,      \* mode.Eta()
  tapes,    \* the bytes of every stream
  opened,   \* the streams opened so far
  polys,    \* the polynomials finished
  pc,       \* "open": between polynomials; "reject": in a rejection loop
  a, ctr,   \* the polynomial at work and how much of it is written
  from,     \* where the buffer starts in the stream, modulo Period
  size,     \* its bytes
  pos       \* the next one to read

vars == <<eta, tapes, opened, polys, pc, a, ctr, from, size, pos>>

Current == Work[Len(opened)]

ByteAt(p) == tapes[Current][(from + p) % Period]

-----------------------------------------------------------------------------
EtaBlocks == IF eta = 2 THEN Eta2Blocks ELSE Eta4Blocks

(* NewStream128 or NewStream256, and the first Squeeze.                    *)
Open ==
  /\ pc = "open" /\ Len(opened) < Len(Work)
  /\ opened' = Append(opened, Work[Len(opened) + 1])
  /\ size' = IF Work[Len(opened) + 1].xof = 128 THEN UniformBlocks * Block128
                                                ELSE EtaBlocks * Block256
  /\ from' = 0 /\ pos' = 0 /\ ctr' = 0 /\ a' = [n \in 0 .. N - 1 |-> 0]
  /\ pc' = "reject"
  /\ UNCHANGED <<eta, tapes, polys>>

(* Write the values v from ctr on.                                         *)
Write(v) ==
  /\ a' = [n \in 0 .. N - 1 |->
             IF n >= ctr /\ n < ctr + Len(v) THEN v[n - ctr + 1] ELSE a[n]]
  /\ ctr' = ctr + Len(v)

Read(bytes) ==
  /\ pos' = pos + bytes
  /\ UNCHANGED <<eta, tapes, opened, polys, pc, from, size>>

UniformValue(b0, b1, b2) == (b0 + 256 * b1 + 65536 * b2) % 8388608

(* Mutant: the last three bytes of a buffer are not a candidate.           *)
RejUniformGoesOn_Short == ctr < N /\ pos + 3 < size

RejUniformGoesOn == ctr < N /\ pos + 3 <= size

(* A round of RejUniform.                                                  *)
RejUniform ==
  /\ pc = "reject" /\ Current.xof = 128 /\ RejUniformGoesOn
  /\ LET t == UniformValue(ByteAt(pos), ByteAt(pos + 1), ByteAt(pos + 2))
     IN  Write(IF t < Q THEN <<t>> ELSE <<>>)
  /\ Read(3)

(* A nibble, and the coefficient it stands for.                            *)
EtaAccepts(t) == IF eta = 2 THEN t < 15 ELSE t < 9

EtaValue(t) ==
  IF eta = 2
  THEN LET u == t - ((t * 205) \div 1024) * 4 - (t * 205) \div 1024
       IN  2 - (u % 5)
  ELSE 4 - t

(* Mutant: no test for room before the second nibble.                      *)
EtaValues_NoRoomTest(b) ==
  LET low  == IF EtaAccepts(b % 16) THEN <<EtaValue(b % 16)>> ELSE <<>>
      high == IF EtaAccepts(b \div 16) THEN <<EtaValue(b \div 16)>> ELSE <<>>
  IN  low \o high

(* The coefficients of a byte: the second one only when there is room.     *)
EtaValues(b) ==
  LET low  == IF EtaAccepts(b % 16) THEN <<EtaValue(b % 16)>> ELSE <<>>
      high == IF EtaAccepts(b \div 16) /\ ctr + Len(low) < N
              THEN <<EtaValue(b \div 16)>> ELSE <<>>
  IN  low \o high

RejEtaGoesOn == ctr < N /\ pos < size

(* A round of RejEta.                                                      *)
RejEta ==
  /\ pc = "reject" /\ Current.xof = 256 /\ RejEtaGoesOn
  /\ Write(EtaValues(ByteAt(pos)))
  /\ Read(1)

(* The buffer is used up and the polynomial is not full: one more block,   *)
(* into a buffer of its own.                                               *)
Squeeze ==
  /\ pc = "reject" /\ ctr < N
  /\ IF Current.xof = 128 THEN ~RejUniformGoesOn /\ size' = Block128
                          ELSE ~RejEtaGoesOn /\ size' = Block256
  /\ from' = (from + size) % Period /\ pos' = 0
  /\ UNCHANGED <<eta, tapes, opened, polys, pc, a, ctr>>

(* The polynomial is full; what is left of its stream is dropped.          *)
Filled ==
  /\ pc = "reject" /\ ctr >= N
  /\ polys' = Append(polys, [n \in 1 .. N |-> a[n - 1]])
  /\ pc' = "open"
  /\ UNCHANGED <<eta, tapes, opened, a, ctr, from, size, pos>>

Init ==
  /\ eta \in Etas /\ tapes \in Tapes
  /\ opened = <<>> /\ polys = <<>> /\ pc = "open"
  /\ a = [n \in 0 .. N - 1 |-> 0] /\ ctr = 0
  /\ from = 0 /\ size = 0 /\ pos = 0

Next == Open \/ RejUniform \/ RejEta \/ Squeeze \/ Filled

(* One goroutine, which does not stop by itself.                           *)
Spec == Init /\ [][Next]_vars /\ WF_vars(Next)

-----------------------------------------------------------------------------
(* The loops stay inside polynomial and buffer, and write coefficients in  *)
(* the range the packers and the transforms take (poly.go:124-220).        *)
TypeOK ==
  /\ pc \in {"open", "reject"} /\ ctr \in 0 .. N /\ pos \in 0 .. size
  /\ from \in 0 .. Period - 1 /\ Len(polys) <= Len(opened)
  /\ \A n \in 0 .. ctr - 1 :
       a[n] \in IF Current.xof = 128 THEN 0 .. Q - 1 ELSE -eta .. eta

(* No two polynomials of a key come from the same stream: the nonces of    *)
(* matrix, s1 and s2 never meet (polyvec.go:24-50, sign.go:55-56).         *)
StreamsDistinct ==
  \A m, n \in 1 .. Len(opened) : opened[m] = opened[n] => m = n

(* The candidates of a stream, by their definition: three bytes with the   *)
(* top bit cleared, or a nibble.                                           *)
CandidatesOf(s) ==
  LET byte(p) == tapes[s][p % Period]
      uniform(n) == LET t == UniformValue(byte(3 * n), byte(3 * n + 1), byte(3 * n + 2))
                    IN  IF t < Q THEN <<t>> ELSE <<>>
      nibble(n) == IF n % 2 = 0 THEN byte(n \div 2) % 16 ELSE byte(n \div 2) \div 16
      small(n) == LET t == nibble(n)
                  IN  CASE eta = 2 /\ t < 15 -> <<2 - (t % 5)>>
                        [] eta = 4 /\ t < 9  -> <<4 - t>>
                        [] OTHER -> <<>>
  IN  IF s.xof = 128 THEN [n \in 1 .. Period |-> uniform(n - 1)]
                     ELSE [n \in 1 .. 2 * Period |-> small(n - 1)]
=============================================================================
