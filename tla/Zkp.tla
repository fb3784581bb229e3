-------------------------------- MODULE Zkp --------------------------------
(***************************************************************************)
(* albus-core, zkp.ts: proofs, public signals and verifying keys as the       *)
(* bytes of accounts and instructions.  snarkjs keeps a point as projective  *)
(* coordinates, the chain as big endian ones without the last, with pi_a     *)
(* negated.                                                                  *)
(***************************************************************************)
EXTENDS BabyJub
LOCAL INSTANCE SequencesExt

CONSTANTS
  Width,               \* bytes of a number: 32 in the code
  BaseField,           \* the prime of the coordinates
  GroupOrder           \* and that of the signals

FiniteToBytes(n) == LeInt2Buff(n, Width)
BytesToFinite(bytes) == LeBuff2int(bytes)
Part(bytes, i) == SubSeq(bytes, (i - 1) * Width + 1, i * Width)
Concat(s) == FoldLeft(LAMBDA acc, x : acc \o x, <<>>, s)

EncodeG1(pt) ==
  SubSeq(Concat([i \in DOMAIN pt |-> Reverse(FiniteToBytes(pt[i]))]), 1, 2 * Width)
DecodeG1(bytes) ==
  <<BytesToFinite(Reverse(Part(bytes, 1))), BytesToFinite(Reverse(Part(bytes, 2))), 1>>

\* The two numbers of an extension field element come out swapped.
PairBytes(c) == Reverse(FiniteToBytes(c[1]) \o FiniteToBytes(c[2]))
PairInOrder(c) ==                   \* fault: the two are not swapped
  Reverse(FiniteToBytes(c[1])) \o Reverse(FiniteToBytes(c[2]))
G2Bytes(c) == PairBytes(c)
EncodeG2(pt) ==
  SubSeq(Concat([i \in DOMAIN pt |-> G2Bytes(pt[i])]), 1, 4 * Width)
DecodeG2(bytes) ==
  LET pair(i) == LET chunk == Reverse(Part(bytes, 2 * i - 1) \o Part(bytes, 2 * i))
                 IN <<BytesToFinite(Part(chunk, 1)), BytesToFinite(Part(chunk, 2))>>
  IN [i \in 1..(Len(bytes) \div (2 * Width)) |-> pair(i)] \o <<<<1, 0>>>>

AltBn128G1Neg(bytes) ==
  Part(bytes, 1) \o BeInt2Buff(Neg(Prime(BaseField), BeBuff2int(Part(bytes, 2))), Width)

EncodeProof(proof) ==
  [a |-> AltBn128G1Neg(EncodeG1(proof.pi_a)), b |-> EncodeG2(proof.pi_b),
   c |-> EncodeG1(proof.pi_c)]
DecodeProof(bytes) ==
  [pi_a |-> DecodeG1(AltBn128G1Neg(bytes.a)), pi_b |-> DecodeG2(bytes.b),
   pi_c |-> DecodeG1(bytes.c)]

EncodePublicSignals(signals) ==
  [i \in DOMAIN signals |-> Reverse(FiniteToBytes(signals[i]))]
\* The code turns the arrays it is given in place: they are not read again.
DecodePublicSignals(inputs) == [i \in DOMAIN inputs |-> BytesToFinite(Reverse(inputs[i]))]

EncodeVerifyingKey(vk) ==
  [alpha |-> EncodeG1(vk.alpha_1), beta |-> EncodeG2(vk.beta_2),
   gamma |-> EncodeG2(vk.gamma_2), delta |-> EncodeG2(vk.delta_2),
   ic |-> [i \in DOMAIN vk.IC |-> EncodeG1(vk.IC[i])]]
DecodeVerifyingKey(key) ==
  [nPublic |-> Len(key.ic) - 1, alpha_1 |-> DecodeG1(key.alpha),
   beta_2 |-> DecodeG2(key.beta), gamma_2 |-> DecodeG2(key.gamma),
   delta_2 |-> DecodeG2(key.delta), IC |-> [i \in DOMAIN key.ic |-> DecodeG1(key.ic[i])]]

\* A random value below the order: numbers below the remainder of 2^(8 * Width)
\* are drawn again, so that every value is as likely as any other.
Lowest(order, limit) == limit % order
DrawAny(order, limit) == 0          \* fault: no number is drawn again
Threshold(order, limit) == Lowest(order, limit)
BabyJubValue(rand, limit) ==
  IF rand < Threshold(GroupOrder, limit) THEN Null ELSE rand % GroupOrder
=============================================================================
