------------------------------- MODULE BabyJub -------------------------------
(***************************************************************************)
(* The twisted Edwards curve of albus-core (crypto/babyjub), its signatures *)
(* and the keys built on them.  A curve b is a record of its field, its      *)
(* parameters and its base point; the program's curve is one such record,   *)
(* the runs take a small one with the same shape: 8 times a prime points,   *)
(* A a square and D none.                                                    *)
(***************************************************************************)
EXTENDS Poseidon
LOCAL INSTANCE SequencesExt

CONSTANT KeyBits       \* bits of half a digest: 256 in the code
Zero == <<0, 1>>
NoPoint == <<>>

AddPoint(b, P, Q) ==
  LET f == b.F
      beta == Times(f, P[1], Q[2])
      gamma == Times(f, P[2], Q[1])
      delta == Times(f, Minus(f, P[2], Times(f, b.A, P[1])), Plus(f, Q[1], Q[2]))
      dtau == Times(f, b.D, Times(f, beta, gamma))
  IN <<Div(f, Plus(f, beta, gamma), Plus(f, 1, dtau)),
       Div(f, Plus(f, delta, Minus(f, Times(f, b.A, beta), gamma)), Minus(f, 1, dtau))>>

\* Double and add, from the lowest bit: a state is the sum and the doubled base.
SumThenDouble(b, s, bit) ==
  [s EXCEPT ![1] = IF bit = 1 THEN AddPoint(b, @, s[2]) ELSE @, ![2] = AddPoint(b, @, @)]
DoubleThenSum(b, s, bit) ==         \* fault: the base is doubled too early
  LET d == AddPoint(b, s[2], s[2])
  IN <<IF bit = 1 THEN AddPoint(b, s[1], d) ELSE s[1], d>>
MulStep(b, s, bit) == SumThenDouble(b, s, bit)
MulPointEscalar(b, base, e) ==
  FoldLeft(LAMBDA s, bit : MulStep(b, s, bit), <<Zero, base>>, Bits(e))[1]

InCurve(b, P) ==
  LET f == b.F
      x2 == Square(f, P[1])
      y2 == Square(f, P[2])
  IN Plus(f, Times(f, b.A, x2), y2) = Plus(f, 1, Times(f, Times(f, x2, y2), b.D))
InSubgroup(b, P) == InCurve(b, P) /\ MulPointEscalar(b, P, b.subOrder) = Zero

-----------------------------------------------------------------------------
\* Packed points: y, and the half of the field x is in as the top bit.

Top(buff) == buff[Len(buff)]
PackPoint(b, P) ==
  LET buff == ToRprLE(P[2], b.F.n8)
  IN IF P[1] > b.F.p \div 2
       THEN [buff EXCEPT ![Len(buff)] = (@ % (Byte \div 2)) + Byte \div 2]
       ELSE buff

\* A y equal to the prime is let through and stays as it is.
UnpackPoint(b, packed) ==
  LET f == b.F
      y == FromRprLE([packed EXCEPT ![Len(packed)] = @ % (Byte \div 2)])
      y2 == Square(f, y)
      x2 == Div(f, Minus(f, 1, y2), Minus(f, b.A, Times(f, b.D, y2)))
      x == CHOOSE r \in {Sqrt(f, z, x2) : z \in SqrtZ(f)} : TRUE
  IN IF y > f.p \/ Exp(f, x2, f.half) # 1 THEN NoPoint
     ELSE <<IF Top(packed) >= Byte \div 2 THEN Neg(f, x) ELSE x, y>>

-----------------------------------------------------------------------------
\* Signatures.  A digest is a pair of numbers, its halves read little endian;
\* Blake mixes two numbers into one.

Blake(x, y) == (x * 37 + y * 11 + 5) % 2^KeyBits
Prune(n) == (((n \div 8) * 8) % 2^(KeyBits - 2)) + 2^(KeyBits - 2)
Unpruned(n) == n                    \* fault: the key is used as it is hashed
KeyScalar(n) == Prune(n)
FormatPrivKey(digest) == KeyScalar(digest[1]) \div 8

Prv2pub(b, digest) == MulPointEscalar(b, b.Base8, FormatPrivKey(digest))

SignPoseidon(b, digest, msg) ==
  LET q == b.subOrder
      s == Prune(digest[1])
      pub == MulPointEscalar(b, b.Base8, s \div 8)
      r == Blake(digest[2], msg) % q
      R8 == MulPointEscalar(b, b.Base8, r)
      hm == Hash(b.F, <<R8[1], R8[2], pub[1], pub[2], msg>>)
  IN [R8 |-> R8, S |-> (r + hm * s) % q]

VerifyPoseidon(b, msg, sig, pub) ==
  /\ Len(sig.R8) = 2 /\ InCurve(b, sig.R8)
  /\ Len(pub) = 2 /\ InCurve(b, pub)
  /\ sig.S < b.subOrder
  /\ LET hms == Hash(b.F, <<sig.R8[1], sig.R8[2], pub[1], pub[2], msg>>)
     IN MulPointEscalar(b, b.Base8, sig.S)
          = AddPoint(b, sig.R8, MulPointEscalar(b, pub, hms * 8))

PackSignature(b, sig) == PackPoint(b, sig.R8) \o ToRprLE(sig.S, b.F.n8)
UnpackSignature(b, buff) ==
  LET n == b.F.n8
  IN [R8 |-> UnpackPoint(b, SubSeq(buff, 1, n)),
      S |-> FromRprLE(SubSeq(buff, n + 1, 2 * n))]

\* The classes Signature and PublicKey; an error for what does not unpack.
NoSignature == [R8 |-> NoPoint, S |-> Null]
SignatureFrom(b, buff) ==
  LET sig == UnpackSignature(b, buff)
  IN IF Len(buff) # 2 * b.F.n8 \/ sig.R8 = NoPoint THEN NoSignature ELSE sig
PublicKeyFrom(b, buff) == IF Len(buff) # b.F.n8 THEN NoPoint ELSE UnpackPoint(b, buff)

\* A shared key of two parties.
EcdhSharedKey(b, digest, pub) == MulPointEscalar(b, pub, FormatPrivKey(digest))
=============================================================================
