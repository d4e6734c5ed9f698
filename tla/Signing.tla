------------------------------- MODULE Signing -------------------------------
(***************************************************************************)
(* Key generation, the rejection loop of SignSignatureInternal and         *)
(* VerifyInternal (sign.go), over the ring arithmetic of module Ring and   *)
(* the byte encodings of Ring and HintEncoding.                            *)
(*                                                                         *)
(* SHAKE is external.  Where the code squeezes a stream the model draws an *)
(* outcome once and remembers it under what was absorbed: masks under      *)
(* <<rhoprime, nonce>>, challenges under <<mu, packed w1>>.  tr, mu and    *)
(* rhoprime themselves only ever serve as such names, so they are the      *)
(* tuple of what was hashed.                                               *)
(*                                                                         *)
(* A caller makes up to MaxCalls calls with one key.  Between two calls    *)
(* only the key, the caller's buffer and the memory of the oracles remain. *)
(***************************************************************************)
EXTENDS Ring

CONSTANTS
  Beta,            \* mode.Beta()
  Matrices,        \* what MatrixExpand may yield
  Secrets1,        \* what PolyVecLUniformEta may yield for s1
  Secrets2,        \* what PolyVecKUniformEta may yield for s2
  MaskPolys,       \* what PolyUniformGamma1 may yield
  Ctildes,         \* the challenge hashes c~ ...
  Ball,            \* ... and the polynomial PolyChallenge makes of each
  Messages, Rnds,  \* pairs (pre, m) and values of rnd
  Buffers,         \* what the caller's signature buffer may hold
  NonceMod,        \* 1 << 16: nonce is a uint16
  MaxAttempts,     \* bound: rounds of the rejection loop explored per call
  MaxCalls         \* bound: calls of the signer

(* What Signature holds: a buffer of SignatureBytes.                        *)
SignatureBuffers ==
  [ctilde : Ctildes, z : PolyVecL(0 .. 2 * Gamma1 - 1), h : HintBytes]

ASSUME SigningAssumption ==
  /\ Beta \in Nat /\ Beta < Gamma2
  /\ Matrices \subseteq [RowsK -> [RowsL -> Poly(Standard)]]
  /\ Secrets1 \subseteq PolyVecL(-Eta .. Eta)
  /\ Secrets2 \subseteq PolyVecK(-Eta .. Eta)
  /\ MaskPolys \subseteq Poly(-Gamma1 + 1 .. Gamma1)
  /\ Ctildes # {} /\ Ball \in [Ctildes -> Poly({-1, 0, 1})]
  /\ Buffers \subseteq SignatureBuffers
  /\ NonceMod \in Nat \ {0} /\ MaxAttempts \in Nat /\ MaxCalls \in Nat

VARIABLES
  pc,                    \* where the caller is
  pk, sk,                \* the packed keys
  msg, rnd,              \* the arguments of the current call
  nonce, attempts,       \* the loop's counter, and rounds begun
  y, z, w, w1, w0, c, h, \* the locals of a round: c is ctildeBuf
  sig,                   \* the caller's buffer
  ret,                   \* the last return value of SignSignatureInternal
  verdict,               \* the last return value of VerifyInternal
  mask, chal,            \* memory of the two oracles
  issued,                \* signatures returned so far, under their inputs
  calls                  \* calls made

locals == <<y, z, w, w1, w0, c, h>>
vars == <<pc, pk, sk, msg, rnd, nonce, attempts, locals, sig, ret, verdict,
          mask, chal, issued, calls>>

-----------------------------------------------------------------------------
NoVecK == [i \in RowsK |-> [n \in Degrees |-> 0]]
NoVecL == [i \in RowsL |-> [n \in Degrees |-> 0]]
Nothing == [x \in {} |-> 0]   \* an empty memory

(* A memory with the given answers in it.                                  *)
Remember(memory, answers) ==
  [q \in DOMAIN memory \cup DOMAIN answers |->
     IF q \in DOMAIN answers THEN answers[q] ELSE memory[q]]

(* What each caller reads from the packed keys.                            *)
tr(key)  == key           \* Shake256(tr, pk)
S1       == PolyEtaUnpack(sk.s1)
S2       == PolyEtaUnpack(sk.s2)
T0       == PolyT0Unpack(sk.t0)
mu       == <<sk.tr, msg>>
rhoprime == <<sk.key, rnd, mu>>
cp       == Ball[c]

SignatureBytes == 1       \* SignSignatureInternal's value on success

Init ==
  /\ pc = "nokey"
  /\ pk = Nothing /\ sk = Nothing
  /\ msg \in Messages /\ rnd \in Rnds
  /\ nonce = 0 /\ attempts = 0
  /\ y = NoVecL /\ z = NoVecL /\ w = NoVecK /\ w1 = NoVecK /\ w0 = NoVecK
  /\ c = (CHOOSE d \in Ctildes : TRUE) /\ h = NoVecK
  /\ sig \in Buffers
  /\ ret = 0 /\ verdict = FALSE
  /\ mask = Nothing /\ chal = Nothing /\ issued = Nothing
  /\ calls = 0

-----------------------------------------------------------------------------
(* Keypair: t = A*s1 + s2 split in two, packed.  The seed gives A, s1 and  *)
(* s2; the signer's own seed, key, is only ever hashed.                    *)
PublicT(A, s1, s2) ==
  PolyVecAdd(PolyVecInvNTT(PolyVecReduce(MatrixProduct(A, s1))), s2)

StoreKeys(A, s1, s2, t) ==
  /\ pc = "nokey"
  /\ pc' = "idle"
  /\ pk' = [rho |-> A, t1 |-> PolyT1Pack(PolyVecKT1(t))]
  /\ sk' = [rho |-> A, key |-> "key", tr |-> tr(pk'),
            s1 |-> PolyEtaPack(s1), s2 |-> PolyEtaPack(s2),
            t0 |-> PolyT0Pack(PolyVecKT0(t))]
  /\ UNCHANGED <<msg, rnd, nonce, attempts, locals, sig, ret, verdict,
                 mask, chal, issued, calls>>

(* Mutant: t is rounded without its standard representative.               *)
Keypair_NoCaddq(A, s1, s2) == StoreKeys(A, s1, s2, PublicT(A, s1, s2))

Keypair(A, s1, s2) == StoreKeys(A, s1, s2, PolyVecCaddq(PublicT(A, s1, s2)))

(* The caller calls SignSignatureInternal with some buffer; whole says     *)
(* whether the secret key has the mode's length, else UnpackSk fails.      *)
CallFrom(n, m, r, buffer, whole) ==
  /\ pc = "idle" /\ calls < MaxCalls
  /\ calls' = calls + 1
  /\ msg' = m /\ rnd' = r /\ sig' = buffer
  /\ IF whole
     THEN /\ pc' = "sample" /\ nonce' = n /\ attempts' = 0
          /\ h' = NoVecK
          /\ UNCHANGED ret
     ELSE /\ pc' = "idle" /\ ret' = -1
          /\ UNCHANGED <<nonce, attempts, h>>
  /\ UNCHANGED <<pk, sk, y, z, w, w1, w0, c, verdict, mask, chal, issued>>

(* Mutant: the counter goes on where the last call left it.                *)
Call_NonceKept(m, r, buffer, whole) == CallFrom(nonce, m, r, buffer, whole)

Call(m, r, buffer, whole) == CallFrom(0, m, r, buffer, whole)

(* The L nonces of a round, as uint16 additions.                           *)
MaskNonce(i) == (nonce + i) % NonceMod

(* The top of the loop, to the challenge: y, w = A*y, its high and low     *)
(* bits, and c~, which is written to the signature at once.  Rep takes w   *)
(* to the representatives that are decomposed.                             *)
SampleRound(Rep(_)) ==
  /\ pc = "sample" /\ attempts < MaxAttempts
  /\ \E f \in [{<<rhoprime, MaskNonce(i)>> : i \in RowsL} -> MaskPolys] :
       /\ \A q \in DOMAIN f \cap DOMAIN mask : f[q] = mask[q]
       /\ mask' = Remember(mask, f)
       /\ y' = [i \in RowsL |-> f[<<rhoprime, MaskNonce(i)>>]]
  /\ w' = Rep(PolyVecInvNTT(PolyVecReduce(MatrixProduct(sk.rho, y'))))
  /\ w1' = PolyVecKHigh(w')
  /\ w0' = PolyVecKLow(w')
  /\ LET q == <<mu, PolyW1Pack(w1')>>
     IN  \E d \in Ctildes :
           /\ q \in DOMAIN chal => d = chal[q]
           /\ chal' = Remember(chal, [x \in {q} |-> d])
           /\ c' = d
  /\ sig' = [sig EXCEPT !.ctilde = c']
  /\ nonce' = (nonce + L) % NonceMod
  /\ attempts' = attempts + 1
  /\ pc' = "response"
  /\ UNCHANGED <<pk, sk, msg, rnd, z, h, ret, verdict, issued, calls>>

(* Mutant: negative coefficients of w are decomposed as they are.          *)
Sample_NoCaddq == SampleRound(LAMBDA v : v)

Sample == SampleRound(PolyVecCaddq)

(* z = y + c*s1, and its norm test.                                        *)
Respond ==
  /\ pc = "response"
  /\ z' = PolyVecReduce(PolyVecAdd(PolyVecInvNTT(ScalarProduct(cp, S1)), y))
  /\ pc' = IF PolyVecChkNorm(z', Gamma1 - Beta) THEN "sample" ELSE "lowbits"
  /\ UNCHANGED <<pk, sk, msg, rnd, nonce, attempts, y, w, w1, w0, c, h, sig,
                 ret, verdict, mask, chal, issued, calls>>

(* w0 = w0 - c*s2, and its norm test; h holds c*s2 meanwhile.              *)
TestLowBits(bound) ==
  /\ pc = "lowbits"
  /\ h' = PolyVecInvNTT(ScalarProduct(cp, S2))
  /\ w0' = PolyVecReduce(PolyVecSub(w0, h'))
  /\ pc' = IF PolyVecChkNorm(w0', bound) THEN "sample" ELSE "hint"
  /\ UNCHANGED <<pk, sk, msg, rnd, nonce, attempts, y, z, w, w1, c, sig,
                 ret, verdict, mask, chal, issued, calls>>

(* Mutant: the bound leaves no room for the other values of c*s2.          *)
SubtractCs2_NoBeta == TestLowBits(Gamma2)

SubtractCs2 == TestLowBits(Gamma2 - Beta)

(* PackSig overwrites the whole buffer.                                    *)
PackSig(buffer, ctilde, zz, hh) ==
  [buffer EXCEPT !.ctilde = ctilde, !.z = PolyZPack(zz), !.h = PackHint(hh)]

(* h = c*t0 and its norm test, the hints and their number, and PackSig.    *)
(* Hint computes the hints from w0 + c*t0 and w0 itself.                   *)
FinishWith(Hint(_, _)) ==
  /\ pc = "hint"
  /\ LET ct0 == PolyVecReduce(PolyVecInvNTT(ScalarProduct(cp, T0)))
         sum == PolyVecAdd(w0, ct0)
         hh  == Hint(sum, w0)
     IN  IF PolyVecChkNorm(ct0, Gamma2)
         THEN /\ pc' = "sample" /\ h' = ct0
              /\ UNCHANGED <<w0, sig, ret>>
         ELSE /\ w0' = sum /\ h' = hh
              /\ IF HintCount(hh) > Omega
                 THEN pc' = "sample" /\ UNCHANGED <<sig, ret>>
                 ELSE /\ pc' = "signed"
                      /\ sig' = PackSig(sig, c, z, hh)
                      /\ ret' = SignatureBytes
  /\ UNCHANGED <<pk, sk, msg, rnd, nonce, attempts, y, z, w, w1, c,
                 verdict, mask, chal, issued, calls>>

(* Mutant: the hints are those of w - c*s2, not of w - c*s2 + c*t0.        *)
Finish_HintTooEarly == FinishWith(LAMBDA sum, low : PolyVecKMakeHint(low, w1))

Finish == FinishWith(LAMBDA sum, low : PolyVecKMakeHint(sum, w1))

-----------------------------------------------------------------------------
(* VerifyInternal.  The public key and the signature have the right        *)
(* lengths; UnpackSig and the norm test of z may still refuse.  The high   *)
(* bits it recovers are hashed again: c2 is compared with the signature's. *)
Verify ==
  /\ pc = "signed"
  /\ pc' = "verified"
  /\ LET zz  == PolyZUnpack(sig.z)
         hh  == UnpackHint(sig.h)
         Az  == MatrixProduct(pk.rho, zz)
         ct1 == ScalarProduct(Ball[sig.ctilde], PolyVecShiftl(pk.t1))
         v   == PolyVecCaddq(PolyVecInvNTT(PolyVecReduce(PolyVecSub(Az, ct1))))
         q   == <<<<tr(pk), msg>>, PolyW1Pack(PolyVecKUseHint(v, hh))>>
     IN  IF Malformed(sig.h) \/ PolyVecChkNorm(zz, Gamma1 - Beta)
         THEN verdict' = FALSE /\ UNCHANGED chal
         ELSE \E c2 \in Ctildes :
                /\ q \in DOMAIN chal => c2 = chal[q]
                /\ chal' = Remember(chal, [x \in {q} |-> c2])
                /\ verdict' = (c2 = sig.ctilde)
  /\ UNCHANGED <<pk, sk, msg, rnd, nonce, attempts, locals, sig, ret, mask,
                 issued, calls>>

(* The caller keeps the signature.                                         *)
Return ==
  /\ pc = "verified"
  /\ pc' = "idle"
  /\ issued' = Remember(issued, [x \in {<<msg, rnd>>} |-> sig])
  /\ UNCHANGED <<pk, sk, msg, rnd, nonce, attempts, locals, sig, ret, verdict,
                 mask, chal, calls>>

Next ==
  \/ \E A \in Matrices, s1 \in Secrets1, s2 \in Secrets2 : Keypair(A, s1, s2)
  \/ \E m \in Messages, r \in Rnds, b \in Buffers, whole \in BOOLEAN :
       Call(m, r, b, whole)
  \/ Sample \/ Respond \/ SubtractCs2 \/ Finish \/ Verify \/ Return

Spec == Init /\ [][Next]_vars

-----------------------------------------------------------------------------
TypeOK ==
  /\ pc \in {"nokey", "idle", "sample", "response", "lowbits", "hint",
             "signed", "verified"}
  /\ pc # "nokey" => /\ pk.t1 \in PolyVecK(0 .. T1Width - 1)
                     /\ sk.s1 \in PolyVecL(0 .. EtaWidth - 1)
                     /\ sk.s2 \in PolyVecK(0 .. EtaWidth - 1)
                     /\ sk.t0 \in PolyVecK(0 .. TwoD - 1)
  /\ nonce \in 0 .. NonceMod - 1 /\ attempts \in 0 .. MaxAttempts
  /\ calls \in 0 .. MaxCalls
  /\ w \in PolyVecK(Standard) /\ w1 \in PolyVecK(0 .. Buckets - 1)
  /\ c \in Ctildes /\ sig \in SignatureBuffers
  /\ ret \in {-1, 0, SignatureBytes} /\ verdict \in BOOLEAN

(* What the signer returns, the verifier accepts (sign.go:203 against      *)
(* 230-302): key packing, the hint bytes, both rounding paths and the      *)
(* identity A*z - c*t1*2^D = w - c*s2 + c*t0 all have to agree.            *)
GenuineVerifies == pc = "verified" => verdict

(* The packed halves of t are A*s1 + s2 again: the secret key's t0 is the  *)
(* low part of the very t whose high part was published (sign.go:64-83).   *)
KeyHalvesAgree ==
  pc # "nokey" =>
    LET t  == PolyVecAdd(PolyVecShiftl(pk.t1), T0)
        As == PolyVecAdd(MatrixProduct(pk.rho, S1), S2)
    IN  \A i \in RowsK, n \in Degrees : (t[i][n] - As[i][n]) % Q = 0

(* An accepted signature says nothing of s2 through its high bits: those   *)
(* of w and of w - c*s2 are the same, with room to spare for any other s2  *)
(* (the norm test of sign.go:183-188).                                     *)
HighBitsHideS2 ==
  pc = "signed" =>
    LET v == Map(LAMBDA a : a % Q, PolyVecSub(w, ScalarProduct(cp, S2)))
    IN  /\ PolyVecKHigh(v) = w1
        /\ ~PolyVecChkNorm(PolyVecKLow(v), Gamma2 - Beta)

(* The same message and rnd give the same signature bytes, whatever the    *)
(* buffer held and whatever was signed or refused in between               *)
(* (dilithium.go:119: "for testing / reproducibility").                    *)
Deterministic ==
  pc = "signed" /\ <<msg, rnd>> \in DOMAIN issued => sig = issued[<<msg, rnd>>]
=============================================================================
