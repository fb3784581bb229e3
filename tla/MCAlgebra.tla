------------------------------ MODULE MCAlgebra ------------------------------
(***************************************************************************)
(* The pure functions of the code as jobs: the algorithms of albus-core and  *)
(* what clients and programs write for each other.  One job is picked with   *)
(* its inputs, the properties say what the operators must answer on them,    *)
(* and the next one follows.                                                 *)
(***************************************************************************)
EXTENDS UserData, FiniteSets
LOCAL INSTANCE SequencesExt
LOCAL INSTANCE FiniteSetsExt
LOCAL INSTANCE Bitwise

CONSTANTS HalfBits, Rounds
CONSTANTS Kinds         \* the kinds of jobs this run picks from
VARIABLE job

B512 == INSTANCE Blake512

Curve == [F |-> F1Field(37), A |-> 4, D |-> 8, subOrder |-> 5, Base8 |-> <<30, 2>>]
CF == Curve.F
Points == {P \in (0..36) \X (0..36) : InCurve(Curve, P)}
Primes == {3, 5, 7, 17, 37, 41, 97}
Fields == [p \in Primes |-> F1Field(p)]
\* Key scalars that are no multiple of the subgroup order, as none is in practice.
Digests == {<<9, 4>>, <<17, 17>>, <<890, 3>>, <<1007, 1>>}
Trustees == <<<<32, 1>>, <<40, 1>>, <<48, 1>>>>    \* of four different keys
Stranger == <<56, 1>>

\* What clients and programs exchange.
W == INSTANCE Wire
Calls == UNION {{<<p, n>> : n \in DOMAIN W!Programs[p]} : p \in DOMAIN W!Programs}
Optional(p, n) ==
  {a.name : a \in {b \in ToSet(W!Programs[p][n].accounts) : b.optional}}
Types == UNION {{<<p, n>> : n \in DOMAIN W!States[p]} : p \in DOMAIN W!States}
Criteria == UNION {{Append(x, f) : f \in W!Searches[x[1]][x[2]]} : x \in Types}

SeqsUpTo(S, n) == UNION {[1..m -> S] : m \in 0..n}
Jobs(kind) ==
  CASE kind = "pair" -> {[kind |-> kind, p |-> p, a |-> a, b |-> b] :
                           p \in {3, 5, 17}, a \in 0..16, b \in 0..16}
    [] kind = "root" -> {[kind |-> kind, p |-> p, a |-> a] : p \in Primes, a \in 0..96}
    [] kind = "bytes" -> {[kind |-> kind, n |-> n, size |-> size] :
                            n \in {0, 1, 3, 4, 63, 200, 255, 256, 1023, 4095, 65535},
                            size \in 0..8}
    [] kind = "point" -> {[kind |-> kind, x |-> x, y |-> y, u |-> u, v |-> v] :
                            x \in {0, 1, 200}, y \in {0, 7, 210}, u \in {0, 5, 100}, v \in {2, 210}}
    [] kind = "random" -> {[kind |-> kind, limit |-> n] : n \in GroupOrder..(3 * GroupOrder)}
    [] kind = "curve" -> {[kind |-> kind, P |-> P, Q |-> Q] : P \in Points, Q \in Points}
    [] kind = "sign" -> {[kind |-> kind, prv |-> d, msg |-> m, other |-> n] :
                           d \in Digests, m \in 0..4, n \in 0..4}
    [] kind = "sponge" -> {[kind |-> kind, parts |-> s, size |-> size] :
                             s \in SeqsUpTo({<<1, 2>>, <<0, 3>>}, 4)
                                   \cup {Append(s, <<3>>) : s \in SeqsUpTo({<<1, 2>>, <<2, 0>>}, 3)},
                             size \in 2..4}
    [] kind = "cipher" -> {[kind |-> kind, msg |-> m, nonce |-> n, at |-> i, to |-> x] :
                             m \in SeqsUpTo({0, 5}, 5), n \in {0, 3},
                             i \in 1..7, x \in {0, 1, 20}}
    [] kind = "share" -> {[kind |-> kind, user |-> d, secret |-> s, k |-> k, n |-> n, order |-> o] :
                            d \in Digests, s \in {0, 8, 36}, k \in 1..3, n \in 1..3,
                            o \in SeqsUpTo(1..3, 3)}
    [] kind = "data" -> {[kind |-> kind, user |-> <<310, 17>>, secret |-> s, data |-> m] :
                           s \in {8, 21}, m \in SeqsUpTo({1, 6}, 5) \ {<<>>}}
    [] kind = "blake" -> {[kind |-> kind, len |-> n, cut |-> c] :
                            n \in 33..66, c \in {0, 5, 31, 32, 33}}
                          \cup {[kind |-> kind, len |-> n, cut |-> n \div 2] : n \in 0..32}
    [] kind = "call" -> UNION {{[kind |-> kind, program |-> p, name |-> n, given |-> g, seed |-> s] :
                                  g \in SUBSET Optional(p, n), s \in 0..2} : <<p, n>> \in Calls}
    [] kind = "account" -> {[kind |-> kind, of |-> x, old |-> o, new |-> n] :
                              x \in Types, o \in 0..5, n \in 0..5}
    [] kind = "search" -> {[kind |-> kind, of |-> x, seed |-> s] : x \in Criteria, s \in 0..6}
    [] kind = "error" -> {[kind |-> kind, program |-> p, code |-> c] :
                            p \in DOMAIN W!Raised, c \in W!Albus!FirstCode..(W!Albus!FirstCode + 27)}

Idle == [kind |-> "idle"]
Init == job = Idle
Pick(kind) == job = Idle /\ job' \in Jobs(kind)
Return == job # Idle /\ job' = Idle
Next == Return \/ \E kind \in Kinds : Pick(kind)
Spec == Init /\ [][Next]_job

-----------------------------------------------------------------------------
\* Reference definitions.

RECURSIVE Pow(_, _, _)
Pow(p, a, n) == IF n = 0 THEN 1 % p ELSE (a * Pow(p, a, n - 1)) % p
RECURSIVE Times2(_, _, _)
Times2(b, n, P) == IF n = 0 THEN Zero ELSE AddPoint(b, Times2(b, n - 1, P), P)
ValueOf(digits, base) == FoldRight(LAMBDA d, acc : acc * base + d, digits, 0)

\* BLAKE over whole words: the message, a one, zeros, a one and the length, in
\* blocks, each with the count of message bits so far, or none when it has none.
Bits2 == 2 * HalfBits
Joined(x) == x[1] * B512!Half + x[2]
RotR(x, n) == (x \div 2^n) + ((x * 2^(Bits2 - n)) % 2^Bits2)
RefG(v, a, b, c, d, x, y, n) ==
  LET p == (v[a] + v[b] + x) % 2^Bits2
      q == RotR(v[d] ^^ p, Bits2 \div 2)
      r == (v[c] + q) % 2^Bits2
      s == RotR(v[b] ^^ r, B512!Turn(25))
      t == (p + s + y) % 2^Bits2
      u == RotR(q ^^ t, B512!Turn(16))
      w == (r + u) % 2^Bits2
  IN [v EXCEPT ![a] = t, ![d] = u, ![c] = w, ![b] = RotR(s ^^ w, B512!Turn(11))]
RefCompress(h, block, bits) ==
  LET n == Bits2 \div 8
      U(i) == Joined(B512!U512(i))
      m(i) == FoldLeft(LAMBDA acc, x : acc * 256 + x, 0, SubSeq(block, i * n + 1, (i + 1) * n))
      v == [i \in 0..15 |-> IF i < 8 THEN h[i]
                            ELSE IF i \in {12, 13} THEN U(i - 8) ^^ bits ELSE U(i - 8)]
      Step1(w, k) ==
        LET i == B512!Sigma[(((k - 1) \div 8) % 10) + 1]
            q == B512!Quads[((k - 1) % 8) + 1]
            e == 2 * ((k - 1) % 8)
            a == i[e + 1]
            b == i[e + 2]
        IN RefG(w, q[1], q[2], q[3], q[4], m(a) ^^ U(b), m(b) ^^ U(a), e)
      end == FoldLeft(Step1, v, UpTo(8 * Rounds))
  IN [i \in 0..7 |-> (h[i] ^^ end[i]) ^^ end[i + 8]]
RefBlake(msg) ==
  LET size == 2 * Bits2
      len == Bits2 \div 4
      zeros == (2 * size - 2 - len - Len(msg)) % size
      one == IF zeros = size - 1 THEN <<129>> ELSE <<128>> \o Zeros(zeros) \o <<1>>
      field == [i \in 1..len |-> ((Len(msg) * 8) \div 256^IF len - i > 2 THEN 3 ELSE len - i) % 256]
      all == msg \o one \o field
      bits(i) == IF (i - 1) * size >= Len(msg) THEN 0
                 ELSE IF i * size <= Len(msg) THEN i * size * 8 ELSE Len(msg) * 8
  IN FoldLeft(LAMBDA h, i : RefCompress(h, SubSeq(all, (i - 1) * size + 1, i * size), bits(i)),
              [i \in 0..7 |-> Joined(B512!IV(i))], UpTo(Len(all) \div size))

\* The digest of a message given in two pieces is that of BLAKE over words, at
\* every length around the block, where the padding, the counter and its carry
\* take their special cases.
DigestIsBlake == job.kind = "blake" =>
  LET msg == [i \in 1..job.len |-> (i * 37 + 11) % 256]
      state == FoldLeft(B512!Update, B512!New,
                        <<SubSeq(msg, 1, job.cut), SubSeq(msg, job.cut + 1, job.len)>>)
  IN \A digest \in {B512!Digest(state)} : [i \in 0..7 |-> Joined(digest[i])] = RefBlake(msg)

\* The arithmetic of the field is that of the integers modulo the prime, for
\* elements and for numbers out of its range: extended Euclid, square and
\* multiply, and double and add over the non-adjacent form.
FieldArithmetic == job.kind = "pair" =>
  LET f == Fields[job.p]
      a == job.a % f.p
      b == job.b % f.p
  IN /\ E(f, job.a - job.b) % f.p = (job.a - job.b) % f.p
     /\ Plus(f, a, b) = (a + b) % f.p /\ Minus(f, a, b) = (a - b) % f.p
     /\ b # 0 => Inv(f, b) \in 1..(f.p - 1) /\ Times(f, Inv(f, b), b) = 1
                 /\ Times(f, Div(f, a, b), b) = a
     /\ Exp(f, a, job.b) = Pow(f.p, a, job.b)
     /\ MulScalar(f, a, job.b) = (a * job.b) % f.p
     /\ f.p = 17 /\ 5 <= job.b => Shl(f, a, f.p - job.b) = Shr(f, a, job.b)
     /\ ValueOf(Naf(job.a), 2) = job.a
     /\ \A i \in 1..(Len(Naf(job.a)) - 1) : 0 \in {Naf(job.a)[i], Naf(job.a)[i + 1]}

\* A square has a root, the lower one, whichever non-residue the constructor
\* drew and in both versions of the algorithm; no other number has one.
RootsExact == job.kind = "root" =>
  LET f == Fields[job.p]
      a == job.a % f.p
      roots == {x \in 0..f.half : Square(f, x) = a}
      expected == IF roots = {} THEN Null ELSE CHOOSE x \in roots : TRUE
  IN \A r \in {Sqrt(f, z, a) : z \in SqrtZ(f)} \cup {SqrtOld(f, a)} : r = expected

\* A number that fits a buffer comes back from it, in either byte order and in
\* Montgomery form, and one that does not fit is refused by the buffer functions.
BytesRoundTrip == job.kind = "bytes" =>
  LET n == job.n
      size == job.size
      small == n % CF.p
  IN /\ size > 0 => IF n < Byte^size
           THEN /\ LeBuff2int(LeInt2Buff(n, size)) = n
                /\ BeBuff2int(BeInt2Buff(n, size)) = n
                /\ Len(LeInt2Buff(n, size)) = size
                /\ LeInt2Buff(n, size) = Reverse(BeInt2Buff(n, size))
           ELSE Len(LeInt2Buff(n, size)) < size \/ Len(BeInt2Buff(n, size)) < size
     /\ size \in {4, 8} /\ n < Byte^size =>
           FromRprLE(ToRprLE(n, size)) = n /\ FromRprBE(ToRprBE(n, size)) = n
     /\ FromRprLEM(CF, ToRprLEM(CF, small)) = small
     /\ LeBuff2int(ToLEBuff(n)) = n \/ n = 0

\* A proof, a verifying key and public signals come back from the bytes of an
\* account, and pi_a is the opposite point there.
ProofsRoundTrip == job.kind = "point" =>
  LET g1 == <<job.x, job.y, 1>>
      g2 == <<<<job.x, job.u>>, <<job.v, job.y>>, <<1, 0>>>>
      proof == [pi_a |-> g1, pi_b |-> g2, pi_c |-> <<job.v, job.u, 1>>]
      vk == [nPublic |-> 1, alpha_1 |-> g1, beta_2 |-> g2, gamma_2 |-> g2,
             delta_2 |-> g2, IC |-> <<g1, g1>>]
      signals == <<job.x, job.y, job.v>>
  IN /\ DecodeProof(EncodeProof(proof)) = proof
     /\ DecodeVerifyingKey(EncodeVerifyingKey(vk)) = vk
     /\ DecodePublicSignals(EncodePublicSignals(signals)) = signals
     /\ (DecodeG1(EncodeProof(proof).a)[2] + job.y) % BaseField = 0

\* Every value below the group order is drawn with the same probability.
RandomUniform == job.kind = "random" =>
  LET drawn(v) == {r \in 0..(job.limit - 1) : BabyJubValue(r, job.limit) = v}
  IN \A v \in 0..(GroupOrder - 1) : Cardinality(drawn(v)) = Cardinality(drawn(0))

\* Addition stays on the curve and commutes, multiplication is repeated
\* addition, and a packed point comes back, but for those with x = 0.
CurveLaws == job.kind = "curve" =>
  LET P == job.P
      Q == job.Q
      sum == AddPoint(Curve, P, Q)
      n == Q[1] % 16
  IN /\ sum \in Points /\ sum = AddPoint(Curve, Q, P)
     /\ MulPointEscalar(Curve, P, n) = Times2(Curve, n, P)
     /\ InSubgroup(Curve, P) = (Times2(Curve, Curve.subOrder, P) = Zero)
     /\ UnpackPoint(Curve, PackPoint(Curve, P)) = (IF P[1] = 0 THEN NoPoint ELSE P)

\* A signature verifies under the public key of the signer, also after packing,
\* and for no other message whose hash differs modulo the subgroup order.
SignaturesVerify == job.kind = "sign" =>
  \A sig \in {SignPoseidon(Curve, job.prv, job.msg)}, pub \in {Prv2pub(Curve, job.prv)} :
    LET hm(m) == Hash(CF, <<sig.R8[1], sig.R8[2], pub[1], pub[2], m>>) % Curve.subOrder
    IN
     /\ VerifyPoseidon(Curve, job.other, sig, pub) = (hm(job.other) = hm(job.msg))
     /\ ~VerifyPoseidon(Curve, job.msg, [sig EXCEPT !.S = @ + Curve.subOrder], pub)
     /\ SignatureFrom(Curve, PackSignature(Curve, sig))
          = (IF sig.R8[1] = 0 THEN NoSignature ELSE sig)
     /\ PublicKeyFrom(Curve, PackPoint(Curve, pub)) = (IF pub[1] = 0 THEN NoPoint ELSE pub)

\* The sponge over bytes is the sponge over the numbers of its chunks.
SpongesAgree == job.kind = "sponge" =>
  LET numbers == [i \in DOMAIN job.parts |-> BeBuff2int(Fill(job.parts[i], Chunk))]
  IN \A hash \in {HashBytesX(CF, Concat(job.parts), job.size)} :
       SpongeHashX(CF, numbers, job.size) = (IF hash = 0 THEN Null ELSE hash)

\* A message comes back under its key and nonce, and a ciphertext that is
\* accepted is the one its message encrypts to, once its padding is looked at.
CiphertextBinds == job.kind = "cipher" =>
  LET key == <<3, 30>>
      len == Len(job.msg)
      encrypt(msg) == Encrypt(CF, msg, key, job.nonce)
      decrypt(text) == Decrypt(CF, text, key, len, job.nonce)
  IN \A text \in {encrypt(job.msg)} :
       /\ decrypt(text) = job.msg
       /\ (len > 3 \/ len % 3 = 0) /\ job.at <= Len(text) =>
            \A back \in {decrypt([text EXCEPT ![job.at] = job.to])} \ {Refused} :
              encrypt(back) = [text EXCEPT ![job.at] = job.to]

\* Any k trustees, in any order, open their shares with their own keys and
\* rebuild the secret of the user's proof; a repeated or missing share is
\* refused, and a stranger opens none.
SharesReachSecret == job.kind = "share" /\ job.k <= job.n /\ Len(job.order) <= job.n
                     /\ (\A i \in DOMAIN job.order : job.order[i] <= job.n) =>
  LET keys == [i \in 1..job.n |-> Prv2pub(Curve, Trustees[i])]
      enough == Len(job.order) >= job.k
                /\ \A i, j \in DOMAIN job.order : job.order[i] = job.order[j] => i = j
  IN \A signals \in {EncryptionProof(Curve, job.user, keys, 3, job.secret, <<1>>, job.k)} :
       LET shares == [i \in DOMAIN job.order |->
                        RevealShare(Curve, signals, Trustees[job.order[i]])]
       IN /\ ReconstructSecret(CF, job.k, shares) = IF enough THEN job.secret ELSE Null
          /\ RevealShare(Curve, signals, Stranger) = Refused


\* f1field.ts and sqrt.ts compute in the field.
FieldExact == FieldArithmetic /\ RootsExact

\* utils/ff and zkp.ts: numbers, points, proofs, keys and signals survive their bytes.
EncodingsRoundTrip == BytesRoundTrip /\ ProofsRoundTrip

\* babyjub.ts and eddsa.ts: the curve is a group, and its signatures bind key and message.
SignaturesSound == CurveLaws /\ SignaturesVerify

\* blake512 and the sponges of poseidon.ts are the functions they claim to be.
DigestsAgree == DigestIsBlake /\ SpongesAgree

\* generated/* of the clients, their managers' searches and pda.ts, against the
\* programs: what one end writes is what the other one reads.
WireAgrees ==
  CASE job.kind = "call" -> W!CallArrives(job.program, job.name, job.given, job.seed)
    [] job.kind = "account" -> /\ W!AccountReads(job.of[1], job.of[2], job.old, job.new)
                               /\ job.of[1] = "albus" => W!AddressAgrees(job.of[2])
    [] job.kind = "search" -> W!SearchFinds(job.of[1], job.of[2], job.of[3], job.seed)
    [] job.kind = "error" -> job.code \in DOMAIN W!Raised[job.program]
                               => W!ErrorNamed(job.program, job.code)
    [] OTHER -> TRUE
=============================================================================
