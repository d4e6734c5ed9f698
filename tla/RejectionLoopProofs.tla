------------------------- MODULE RejectionLoopProofs -------------------------
(***************************************************************************)
(* Proofs about RejectionLoop, for every L and NonceMod.  FreshMasks is    *)
(* not inductive: what makes the nonces of a round fresh is that, as long  *)
(* as L of them are left, the used ones are exactly those below the        *)
(* counter.  Once fewer are left the counter wraps, and all that remains   *)
(* true is that they stay few.  Nor is FirstAccepted: it needs that the    *)
(* rounds of the call under way have all been refused so far.              *)
(***************************************************************************)
EXTENDS RejectionLoop, FiniteSetTheorems, TLAPS

(* The used nonces fill an initial segment, or fewer than L are left.      *)
Segment == used = 0 .. nonce - 1 \/ Cardinality(used) + L > NonceMod

IInv == TypeOK /\ Segment

-----------------------------------------------------------------------------
(* Sets of nonces are finite, so that they can be counted.                 *)
LEMMA NoncesFinite ==
  /\ IsFiniteSet(Nonces) /\ Cardinality(Nonces) = NonceMod
  /\ \A S \in SUBSET Nonces : IsFiniteSet(S) /\ Cardinality(S) \in Nat
<1>1. NonceMod \in Nat /\ 0 \in Int /\ NonceMod - 1 \in Int /\ NonceMod >= 1
  BY RejectionLoopAssumption, SMT
<1>2. IsFiniteSet(Nonces) /\ Cardinality(Nonces) = NonceMod
  <2>1. /\ IsFiniteSet(0 .. NonceMod - 1)
        /\ Cardinality(0 .. NonceMod - 1) =
             IF 0 > NonceMod - 1 THEN 0 ELSE (NonceMod - 1) - 0 + 1
    BY <1>1, FS_Interval
  <2>2. Cardinality(0 .. NonceMod - 1) = NonceMod
    BY <1>1, <2>1, SMT
  <2> QED BY <2>1, <2>2 DEF Nonces
<1>3. ASSUME NEW S \in SUBSET Nonces
      PROVE  IsFiniteSet(S) /\ Cardinality(S) \in Nat
  BY <1>2, FS_Subset, FS_CardinalityType
<1> QED BY <1>2, <1>3

(* The nonces below n are n.                                               *)
LEMMA SegmentCardinality ==
  ASSUME NEW n \in Nat
  PROVE  Cardinality(0 .. n - 1) = n
<1>1. 0 \in Int /\ n - 1 \in Int
  BY SMT
<1>2. Cardinality(0 .. n - 1) = IF 0 > n - 1 THEN 0 ELSE (n - 1) - 0 + 1
  BY <1>1, FS_Interval
<1> QED BY <1>2, SMT

(* The arithmetic of a round that does not pass the top.                   *)
LEMMA RoundNoncesBelow ==
  ASSUME nonce \in Nonces, nonce + L <= NonceMod
  PROVE  RoundNonces = nonce .. nonce + L - 1
<1>1. /\ NonceMod \in Nat /\ L \in Nat /\ L >= 1
      /\ nonce \in Nat /\ nonce < NonceMod
  BY RejectionLoopAssumption, SMT DEF Nonces
<1>2. \A i \in 0 .. L - 1 : (nonce + i) % NonceMod = nonce + i
  BY <1>1, SMT
<1>3. RoundNonces \subseteq nonce .. nonce + L - 1
  BY <1>1, <1>2, SMT DEF RoundNonces
<1>4. ASSUME NEW x \in nonce .. nonce + L - 1
      PROVE  x \in RoundNonces
  <2>1. x - nonce \in 0 .. L - 1 /\ nonce + (x - nonce) = x
    BY <1>1, SMT
  <2>2. (nonce + (x - nonce)) % NonceMod = x
    BY <1>2, <2>1
  <2> QED BY <2>1, <2>2 DEF RoundNonces
<1> QED BY <1>3, <1>4

(* A round uses nonces that are uint16 values.                             *)
LEMMA RoundNoncesType == nonce \in Nonces => RoundNonces \subseteq Nonces
<1>1. NonceMod \in Nat /\ NonceMod >= 1 /\ L \in Nat
  BY RejectionLoopAssumption, SMT
<1> QED BY <1>1, SMT DEF RoundNonces, Nonces

-----------------------------------------------------------------------------
(* What a round does to the counter and to the nonces used.                *)
LEMMA RoundEffect ==
  ASSUME Round
  PROVE  /\ pc = "loop" /\ used' = used \cup RoundNonces
         /\ nonce' = (nonce + L) % NonceMod
         /\ \/ pc' = "returned" /\ from' = nonce
            \/ UNCHANGED <<pc, from>>
         /\ UNCHANGED accept
  BY DEF Round, RoundWith

(* No nonce is used before the first call.                                 *)
LEMMA InitIInv == Init => IInv
<1>1. 0 \in Nonces /\ {} = 0 .. 0 - 1
  BY RejectionLoopAssumption, SMT DEF Nonces
<1> QED BY <1>1 DEF Init, IInv, TypeOK, Segment

(* A call starts with the empty segment; a round extends it, or leaves     *)
(* fewer than L nonces for good.                                           *)
LEMMA NextIInv == IInv /\ [Next]_vars => IInv'
<1> SUFFICES ASSUME IInv, [Next]_vars PROVE IInv'
  OBVIOUS
<1> USE DEF IInv
<1>0. /\ NonceMod \in Nat /\ L \in Nat /\ L >= 1 /\ NonceMod >= 1
      /\ nonce \in Nat /\ nonce < NonceMod
  BY RejectionLoopAssumption, SMT DEF TypeOK, Nonces
<1>1. ASSUME NEW A \in SUBSET Nonces, Call(A) PROVE IInv'
  <2>1. 0 \in Nonces /\ {} = 0 .. 0 - 1
    BY <1>0, SMT DEF Nonces
  <2> QED BY <1>1, <2>1 DEF Call, TypeOK, Segment
<1>2. CASE Round
  <2>1. TypeOK'
    <3>1. nonce' \in Nonces
      BY <1>0, <1>2, RoundEffect, SMT DEF Nonces
    <3>2. used' \subseteq Nonces
      BY <1>2, RoundEffect, RoundNoncesType DEF TypeOK
    <3>3. pc' \in {"idle", "loop", "returned"} /\ from' \in Nonces
      BY <1>2, RoundEffect DEF TypeOK
    <3> QED BY <1>2, <3>1, <3>2, <3>3, RoundEffect DEF TypeOK
  <2>2. used' = used \cup RoundNonces /\ used \subseteq used'
        /\ nonce' = (nonce + L) % NonceMod
    BY <1>2, RoundEffect
  <2>3. /\ Cardinality(used) \in Nat /\ Cardinality(used') \in Nat
        /\ Cardinality(used) <= Cardinality(used')
    BY <2>1, <2>2, NoncesFinite, FS_Subset DEF TypeOK
  <2>4. CASE Cardinality(used) + L > NonceMod
    <3>1. Cardinality(used') + L > NonceMod
      BY <1>0, <2>3, <2>4, SMT
    <3> QED BY <2>1, <3>1 DEF Segment
  <2>5. CASE used = 0 .. nonce - 1 /\ ~(Cardinality(used) + L > NonceMod)
    <3>1. Cardinality(used) = nonce /\ nonce + L <= NonceMod
      BY <1>0, <2>5, SegmentCardinality, SMT
    <3>2. used' = 0 .. (nonce + L) - 1
      <4>1. RoundNonces = nonce .. nonce + L - 1
        BY <3>1, RoundNoncesBelow DEF TypeOK
      <4> QED BY <1>0, <2>2, <2>5, <4>1, SMT
    <3>3. CASE nonce + L < NonceMod
      <4>1. nonce' = nonce + L
        BY <1>0, <2>2, <3>3, SMT
      <4> QED BY <2>1, <3>2, <4>1 DEF Segment
    <3>4. CASE nonce + L = NonceMod
      <4>1. Cardinality(used') = NonceMod
        BY <1>0, <3>2, <3>4, SegmentCardinality
      <4>2. Cardinality(used') + L > NonceMod
        BY <1>0, <4>1, SMT
      <4> QED BY <2>1, <4>2 DEF Segment
    <3> QED BY <1>0, <3>1, <3>3, <3>4, SMT
  <2> QED BY <2>4, <2>5 DEF Segment
<1>3. CASE UNCHANGED vars
  BY <1>3 DEF vars, TypeOK, Segment
<1> QED BY <1>1, <1>2, <1>3 DEF Next

(* Every reachable state satisfies the invariant.                          *)
LEMMA IInvHolds == Spec => []IInv
<1> QED BY InitIInv, NextIInv, PTL DEF Spec

-----------------------------------------------------------------------------
(* The counter stays a uint16 and the loop in one of its phases            *)
(* (sign.go:131-137).                                                      *)
THEOREM TypeCorrect == Spec => []TypeOK
<1>1. IInv => TypeOK
  BY DEF IInv
<1> QED BY <1>1, IInvHolds, PTL

(* No mask is drawn twice in a call while L fresh nonces are left, for     *)
(* every L and every width of the counter (sign.go:135-137).               *)
THEOREM MasksAreFresh == Spec => FreshMasks
<1> DEFINE Fresh == Round => \/ used \cap RoundNonces = {}
                             \/ Cardinality(used) + L > NonceMod
<1>1. IInv => Fresh
  <2> SUFFICES ASSUME IInv, ~(Cardinality(used) + L > NonceMod)
               PROVE  used \cap RoundNonces = {}
    OBVIOUS
  <2>0. /\ NonceMod \in Nat /\ L \in Nat /\ nonce \in Nat /\ nonce \in Nonces
    BY RejectionLoopAssumption, SMT DEF IInv, TypeOK, Nonces
  <2>1. used = 0 .. nonce - 1
    BY DEF IInv, Segment
  <2>2. Cardinality(used) = nonce
    BY <2>0, <2>1, SegmentCardinality
  <2>3. nonce + L <= NonceMod
    BY <2>0, <2>2, SMT
  <2>4. RoundNonces = nonce .. nonce + L - 1
    BY <2>0, <2>3, RoundNoncesBelow
  <2> QED BY <2>0, <2>1, <2>4, SMT
<1>2. IInv /\ [Next]_vars => [Fresh]_vars
  BY <1>1
<1> QED BY <1>2, IInvHolds, PTL DEF Spec, FreshMasks
-----------------------------------------------------------------------------
(* A remainder is what is left over a multiple.                            *)
LEMMA RemainderUnique ==
  ASSUME NEW x \in Int, NEW n \in Nat, n > 0, NEW q \in Int, NEW r \in Int,
         x = n * q + r, 0 <= r, r < n
  PROVE  x % n = r
<1> DEFINE t == x \div n
           u == x % n
<1>1. t \in Int /\ u \in Int /\ x = n * t + u /\ 0 <= u /\ u < n
  BY SMT
<1> HIDE DEF t, u
<1>2. n * (t - q) = r - u
  BY <1>1, SMT
<1>3. ~(t - q >= 1)
  <2> SUFFICES ASSUME t - q >= 1 PROVE FALSE
    OBVIOUS
  <2>1. n * (t - q) >= n
    BY <1>1, SMT
  <2> QED BY <1>1, <1>2, <2>1, SMT
<1>4. ~(t - q <= -1)
  <2> SUFFICES ASSUME t - q <= -1 PROVE FALSE
    OBVIOUS
  <2>1. n * (t - q) <= -n
    BY <1>1, SMT
  <2> QED BY <1>1, <1>2, <2>1, SMT
<1>5. t = q
  BY <1>1, <1>3, <1>4, SMT
<1> QED BY <1>1, <1>2, <1>5, SMT DEF u

(* The nonces at which rounds begin: one after the other, and again after  *)
(* NonceMod rounds at the latest.                                          *)
LEMMA Starts ==
  ASSUME NEW j \in Nat
  PROVE  /\ Start(0) = 0 /\ Start(j) \in Nonces
         /\ (Start(j) + L) % NonceMod = Start(j + 1)
         /\ Start(j + NonceMod) = Start(j)
<1> DEFINE r == (j * L) % NonceMod
           q == (j * L) \div NonceMod
<1>0. NonceMod \in Nat /\ NonceMod > 0 /\ L \in Nat /\ j * L \in Int /\ 0 * L = 0
  BY RejectionLoopAssumption, SMT
<1>1. r \in Int /\ q \in Int /\ j * L = NonceMod * q + r /\ 0 <= r /\ r < NonceMod
  BY <1>0, SMT
<1>2. Start(0) = 0
  BY <1>0, SMT DEF Start
<1>3. Start(j) = r /\ r \in Nonces
  BY <1>0, <1>1, SMT DEF Start, Nonces
<1> HIDE DEF r, q
<1>4. (r + L) % NonceMod = Start(j + 1)
  <2> DEFINE t == (r + L) \div NonceMod
             u == (r + L) % NonceMod
  <2>1. t \in Int /\ u \in Int /\ r + L = NonceMod * t + u /\ 0 <= u /\ u < NonceMod
    BY <1>0, <1>1, SMT
  <2> HIDE DEF t, u
  <2>2. (j + 1) * L = NonceMod * (q + t) + u /\ (j + 1) * L \in Int /\ q + t \in Int
    BY <1>0, <1>1, <2>1, SMT
  <2>3. ((j + 1) * L) % NonceMod = u
    BY <1>0, <2>1, <2>2, RemainderUnique
  <2> QED BY <2>3 DEF Start, u
<1>5. Start(j + NonceMod) = r
  <2>1. /\ (j + NonceMod) * L = NonceMod * (q + L) + r
        /\ (j + NonceMod) * L \in Int /\ q + L \in Int
    BY <1>0, <1>1, SMT
  <2>2. ((j + NonceMod) * L) % NonceMod = r
    BY <1>0, <1>1, <2>1, RemainderUnique
  <2> QED BY <2>2 DEF Start
<1> QED BY <1>2, <1>3, <1>4, <1>5

(* Every round of the call so far has been refused.                        *)
Refused(n) ==
  \E j \in Nat : n = Start(j) /\ \A i \in 0 .. j - 1 : Start(i) \notin accept

History == (pc = "loop") => Refused(nonce)

HInv == TypeOK /\ History /\ FirstAccepted

(* A round that is accepted is the first one, and among the first NonceMod *)
(* rounds: any later one would start where a refused one did.              *)
LEMMA AcceptedIsFirst ==
  ASSUME Refused(nonce), nonce \in accept
  PROVE  \E j \in 0 .. NonceMod - 1 :
           /\ nonce = Start(j) /\ \A i \in 0 .. j - 1 : Start(i) \notin accept
<1>1. PICK j \in Nat : nonce = Start(j) /\ \A i \in 0 .. j - 1 : Start(i) \notin accept
  BY DEF Refused
<1>2. NonceMod \in Nat /\ NonceMod > 0
  BY RejectionLoopAssumption, SMT
<1>3. ASSUME j >= NonceMod PROVE FALSE
  <2>1. j - NonceMod \in Nat /\ j - NonceMod \in 0 .. j - 1 /\ (j - NonceMod) + NonceMod = j
    BY <1>2, <1>3, SMT
  <2>2. Start(j - NonceMod) = Start(j)
    BY <2>1, Starts
  <2> QED BY <1>1, <2>1, <2>2
<1>4. j \in 0 .. NonceMod - 1
  BY <1>2, <1>3, SMT
<1> QED BY <1>1, <1>4

(* A refused round is one more.                                            *)
LEMMA RefusedGoesOn ==
  ASSUME Refused(nonce), nonce \notin accept
  PROVE  Refused((nonce + L) % NonceMod)
<1>1. PICK j \in Nat : nonce = Start(j) /\ \A i \in 0 .. j - 1 : Start(i) \notin accept
  BY DEF Refused
<1>2. j + 1 \in Nat /\ \A i \in 0 .. (j + 1) - 1 : i = j \/ i \in 0 .. j - 1
  BY SMT
<1>3. (nonce + L) % NonceMod = Start(j + 1)
  BY <1>1, Starts
<1>4. \A i \in 0 .. (j + 1) - 1 : Start(i) \notin accept
  BY <1>1, <1>2
<1> QED BY <1>2, <1>3, <1>4 DEF Refused

(* What is known of the rounds survives every step.                        *)
LEMMA NextHInv == HInv /\ TypeOK' /\ [Next]_vars => HInv'
<1> SUFFICES ASSUME HInv, TypeOK', [Next]_vars PROVE HInv'
  OBVIOUS
<1>1. ASSUME NEW A \in SUBSET Nonces, Call(A) PROVE HInv'
  <2>1. pc' = "loop" /\ nonce' = 0
    BY <1>1 DEF Call
  <2>2. 0 \in Nat /\ 0 = Start(0) /\ \A i \in 0 .. 0 - 1 : FALSE
    BY Starts, SMT
  <2>3. Refused(nonce)'
    BY <2>1, <2>2 DEF Refused, Start
  <2> QED BY <2>1, <2>3 DEF HInv, History, FirstAccepted
<1>2. CASE Round
  <2>1. /\ pc = "loop" /\ Refused(nonce) /\ nonce' = (nonce + L) % NonceMod
        /\ accept' = accept
    BY <1>2, RoundEffect DEF HInv, History
  <2>2. CASE nonce \in accept
    <3>1. pc' = "returned" /\ from' = nonce
      BY <1>2, <2>2 DEF Round, RoundWith
    <3>2. FirstAccepted'
      BY <2>1, <2>2, <3>1, AcceptedIsFirst DEF FirstAccepted, Start
    <3> QED BY <3>1, <3>2 DEF HInv, History
  <2>3. CASE nonce \notin accept
    <3>1. pc' = "loop"
      BY <1>2, <2>1, <2>3 DEF Round, RoundWith
    <3>2. Refused(nonce)'
      BY <2>1, <2>3, RefusedGoesOn DEF Refused, Start
    <3> QED BY <3>1, <3>2 DEF HInv, History, FirstAccepted
  <2> QED BY <2>2, <2>3
<1>3. CASE UNCHANGED vars
  BY <1>3 DEF vars, HInv, History, Refused, FirstAccepted, Start
<1> QED BY <1>1, <1>2, <1>3 DEF Next

(* The signature returned is that of the first round that passes, for      *)
(* every L and every width of the counter: no round is skipped, and none   *)
(* of those before it would have passed (dilithium.go:119).                *)
THEOREM FirstIsReturned == Spec => []FirstAccepted
<1>1. Init => HInv
  BY InitIInv DEF Init, HInv, IInv, History, FirstAccepted
<1>2. HInv => FirstAccepted
  BY DEF HInv
<1> QED BY <1>1, <1>2, NextHInv, TypeCorrect, PTL DEF Spec
(* The safety half of Stops: a loop that can reach no accepted round goes  *)
(* on; neither the counter's wrap nor anything else ends it (sign.go:134). *)
THEOREM NothingElseStops ==
  Spec => [][pc = "loop" /\ accept \cap Reachable = {} => pc' = "loop"]_vars
<1> DEFINE GoesOn == pc = "loop" /\ accept \cap Reachable = {} => pc' = "loop"
<1>1. Init => HInv
  BY InitIInv DEF Init, HInv, IInv, History, FirstAccepted
<1>2. HInv /\ [Next]_vars => [GoesOn]_vars
  <2> SUFFICES ASSUME HInv, Next, pc = "loop", accept \cap Reachable = {}
               PROVE  pc' = "loop"
    OBVIOUS
  <2>1. CASE Round
    <3>1. nonce \in accept => nonce \in Reachable
      BY AcceptedIsFirst DEF HInv, History, Reachable
    <3> QED BY <2>1, <3>1 DEF Round, RoundWith
  <2> QED BY <2>1 DEF Next, Call
<1> QED BY <1>1, <1>2, NextHInv, TypeCorrect, PTL DEF Spec
=============================================================================
