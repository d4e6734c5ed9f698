--------------------------------- MODULE Api ---------------------------------
(***************************************************************************)
(* The entry points around SignSignatureInternal and VerifyInternal:       *)
(* SignSignature, SignHash, Verify and VerifyHash, which frame a message   *)
(* with its context, and the methods Sign, SignPrehash, SignDeterministic, *)
(* VerifySignature and VerifyPrehash, which add the entropy source, the    *)
(* error values and the length tests.                                      *)
(*                                                                         *)
(* Both internals are taken as what module Signing shows them to be: one   *)
(* fills a zeroed buffer with a signature of the byte string               *)
(* tr || pre || m, or fails on a key of the wrong length and leaves the    *)
(* buffer alone; the other accepts the signatures of the same string only. *)
(* tr is H(pk), so the string is modelled by the key and pre || m.         *)
(*                                                                         *)
(* The names ApiInit, ApiNext, ApiSpec leave room for those of module      *)
(* KeyPair, the other half of dilithium.go: KeyPairProofs is about both.   *)
(***************************************************************************)
EXTENDS Integers, Sequences, FiniteSets

CONSTANTS
  CtxMax,        \* 255
  Messages,      \* byte strings explored
  Contexts,      \* byte strings explored, some longer than CtxMax
  OID,           \* mode.HashOID()
  SHA512,        \* the digest of each message
  Keys           \* "good", "other": pairs of keys; a short one is NoKey

ASSUME ApiAssumption ==
  /\ CtxMax \in Nat
  /\ "short" \notin Keys
  /\ Messages \subseteq Seq(Nat) /\ Messages # {}
  /\ Contexts \subseteq Seq(Nat) /\ Contexts # {}
  /\ OID \in Seq(Nat)
  /\ DOMAIN SHA512 = Messages /\ \A m \in Messages : SHA512[m] \in Seq(Nat)
  /\ \A m1, m2 \in Messages : SHA512[m1] = SHA512[m2] => m1 = m2
  /\ \A m1, m2 \in Messages : Len(SHA512[m1]) = Len(SHA512[m2])

(* A private or public key of a length that is not the mode's, such as the *)
(* nil slice of a zero DilithiumKeyPair.                                   *)
Short == "short"

VARIABLES
  pc,         \* "idle", "signed" or "verified"
  signer,     \* the entry point that signed
  args,       \* the arguments it was called with
  err,        \* the error it returned, "nil" for none
  data,       \* the signature it returned, or None
  ret,        \* the int32 SignSignature or SignHash returned to it
  asked,      \* the arguments of the verification
  verdict     \* its answer

apiVars == <<pc, signer, args, err, data, ret, asked, verdict>>

None  == [is |-> "none"]
Zeros == [is |-> "zeros"]                     \* a fresh, unwritten buffer
Signature(key, s) == [is |-> "signature", key |-> key, of |-> s]

Variants == {"pure", "prehash"}
Calls == [variant : Variants, m : Messages, ctx : Contexts, key : Keys \cup {Short}]
Errors == {"nil", "ErrBadArgument", "ErrRandomError"}

-----------------------------------------------------------------------------
(* byte(len(ctx)): a length does not fit its byte beyond CtxMax.           *)
LengthByte(ctx) == Len(ctx) % (CtxMax + 1)

(* pre || m of SignSignature and Verify, and of SignHash and VerifyHash.   *)
PureFrame(m, ctx)    == <<0, LengthByte(ctx)>> \o ctx \o m

(* Mutant: the prefix byte left at 0, as in PureFrame.                     *)
PrehashFrame_SameByte(m, ctx) == <<0, LengthByte(ctx)>> \o ctx \o OID \o SHA512[m]
PrehashFrame(m, ctx) == <<1, LengthByte(ctx)>> \o ctx \o OID \o SHA512[m]

Frame(v, m, ctx) == IF v = "pure" THEN PureFrame(m, ctx) ELSE PrehashFrame(m, ctx)

TooLong(ctx) == Len(ctx) > CtxMax

(* Mutant: the length is passed on, not turned into 0.                     *)
SignFramed_Length(a) ==
  IF TooLong(a.ctx) \/ a.key = Short
  THEN [ret |-> -1, sig |-> Zeros]
  ELSE [ret |-> 1, sig |-> Signature(a.key, Frame(a.variant, a.m, a.ctx))]

(* SignSignature and SignHash on a zeroed buffer: the value returned and   *)
(* what the buffer then holds.  A length returned by SignSignatureInternal *)
(* is turned into 0.                                                       *)
SignFramed(a) ==
  IF TooLong(a.ctx) \/ a.key = Short
  THEN [ret |-> -1, sig |-> Zeros]
  ELSE [ret |-> 0, sig |-> Signature(a.key, Frame(a.variant, a.m, a.ctx))]

(* Verify and VerifyHash; a zeroed buffer fails the norm test of z.        *)
VerifyFramed(a, sig) ==
  /\ ~TooLong(a.ctx)
  /\ a.key # Short
  /\ sig = Signature(a.key, Frame(a.variant, a.m, a.ctx))

-----------------------------------------------------------------------------
NoCall == CHOOSE a \in Calls : TRUE

ApiInit ==
  /\ pc = "idle" /\ signer = "none"
  /\ args = NoCall /\ asked = NoCall
  /\ err = "nil" /\ data = None /\ ret = 0 /\ verdict = FALSE

Answer(who, a, e, d, r) ==
  /\ pc = "idle"
  /\ pc' = "signed"
  /\ signer' = who /\ args' = a /\ err' = e /\ data' = d /\ ret' = r
  /\ UNCHANGED <<asked, verdict>>

(* Mutant: Sign and SignPrehash as careless of the return value as         *)
(* SignDeterministic.                                                      *)
SignHedged_NoCheck(a, entropy) ==
  LET who == IF a.variant = "pure" THEN "Sign" ELSE "SignPrehash"
      s   == SignFramed(a)
  IN  \/ /\ TooLong(a.ctx)
         /\ Answer(who, a, "ErrBadArgument", None, ret)
      \/ /\ ~TooLong(a.ctx) /\ ~entropy
         /\ Answer(who, a, "ErrRandomError", None, ret)
      \/ /\ ~TooLong(a.ctx) /\ entropy
         /\ Answer(who, a, "nil", s.sig, s.ret)

(* Sign and SignPrehash.  rand.Read may fail, before anything is signed.   *)
SignHedged(a, entropy) ==
  LET who == IF a.variant = "pure" THEN "Sign" ELSE "SignPrehash"
      s   == SignFramed(a)
  IN  \/ /\ TooLong(a.ctx)
         /\ Answer(who, a, "ErrBadArgument", None, ret)
      \/ /\ ~TooLong(a.ctx) /\ ~entropy
         /\ Answer(who, a, "ErrRandomError", None, ret)
      \/ /\ ~TooLong(a.ctx) /\ entropy
         /\ Answer(who, a, IF s.ret # 0 THEN "ErrBadArgument" ELSE "nil",
                   IF s.ret # 0 THEN None ELSE s.sig, s.ret)

(* SignDeterministic does not look at what SignSignature returns.          *)
SignDeterministic(a) ==
  /\ a.variant = "pure"
  /\ IF TooLong(a.ctx)
     THEN Answer("SignDeterministic", a, "ErrBadArgument", None, ret)
     ELSE Answer("SignDeterministic", a, "nil", SignFramed(a).sig, SignFramed(a).ret)

(* A caller of SignSignature or SignHash itself, with a zeroed buffer of   *)
(* its own, which takes a negative return value for an error.              *)
SignDirect(a) ==
  Answer("direct", a, IF SignFramed(a).ret < 0 THEN "ErrBadArgument" ELSE "nil",
         SignFramed(a).sig, SignFramed(a).ret)

(* VerifySignature and VerifyPrehash of what was signed, with arguments of *)
(* the caller's choice.                                                    *)
VerifySignature(a) ==
  /\ pc = "signed" /\ data # None
  /\ pc' = "verified"
  /\ asked' = a
  /\ verdict' = VerifyFramed(a, data)
  /\ UNCHANGED <<signer, args, err, data, ret>>

ApiNext ==
  \/ \E a \in Calls, entropy \in BOOLEAN : SignHedged(a, entropy)
  \/ \E a \in Calls : SignDeterministic(a) \/ SignDirect(a) \/ VerifySignature(a)

ApiSpec == ApiInit /\ [][ApiNext]_apiVars

-----------------------------------------------------------------------------
ApiTypeOK ==
  /\ pc \in {"idle", "signed", "verified"}
  /\ args \in Calls /\ asked \in Calls
  /\ err \in Errors /\ ret \in {-1, 0} /\ verdict \in BOOLEAN
  /\ data.is \in {"none", "zeros", "signature"}

(* A signature is accepted for the variant, message, context and key it    *)
(* was made for and for no others: the prefix byte, the length byte and    *)
(* the digest leave no second reading of the framed string, and the length *)
(* tests of the two sides agree (sign.go:212-220, 306-313, 321-339,        *)
(* 352-369).                                                               *)
VerdictExact ==
  pc = "verified" => (verdict <=> ret = 0 /\ asked = args)

(* Sign and SignPrehash return a signature or an error, never both and     *)
(* never neither, and what they return verifies (dilithium.go:65-117).     *)
HedgedAnswers ==
  pc = "signed" /\ signer \in {"Sign", "SignPrehash"} =>
    /\ err = "nil" <=> data # None
    /\ err = "nil" => VerifyFramed(args, data)

(* What README.md:13 says of every entry point, "safe error propagation":  *)
(* an answer without an error is a signature of the message.               *)
SafeErrorPropagation ==
  pc = "signed" /\ err = "nil" => VerifyFramed(args, data)

(* What sign.go:210 says of SignSignature: "Returns signature length on    *)
(* success".                                                               *)
ReturnsLength ==
  pc = "signed" /\ data.is = "signature" => ret > 0
=============================================================================
