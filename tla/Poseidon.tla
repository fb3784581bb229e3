------------------------------- MODULE Poseidon -------------------------------
(***************************************************************************)
(* The hash, the sponges and the cipher of albus-core, crypto/poseidon, and  *)
(* the reconstruction of a shared secret, crypto/shamir.  The round          *)
(* constants are data: any numbers give the control of the code.             *)
(***************************************************************************)
EXTENDS Field
LOCAL INSTANCE SequencesExt

CONSTANTS
  NRoundsF, NRoundsP,  \* full and partial rounds: 8 and 56 to 70 in the code
  Chunk,               \* bytes of a sponge chunk: 31 in the code
  Two128               \* 2^128 as an element: the unit of the length in a state
Refused == <<Null>>                 \* a failed assertion

Konst(f, i) == (7 * i * i + 3 * i + 5) % f.p
MatrixM(f, i, j) == Inv(f, i + 2 * j)
MatrixP(f, i, j) == Inv(f, 2 * i + j)

SumOver(f, s) == FoldLeft(LAMBDA acc, a : Plus(f, acc, a), 0, s)
UpTo(n) == [i \in 1..n |-> i]
Pow5(f, a) == Times(f, a, Square(f, Square(f, a)))
AddKonst(f, st, from) == [i \in DOMAIN st |-> Plus(f, st[i], Konst(f, from + i))]
\* The concatenation makes TLC evaluate the new state once.
Mix(f, m(_, _), st) ==
  <<>> \o [i \in DOMAIN st |->
             SumOver(f, [j \in DOMAIN st |-> Times(f, m(i, j), st[j])])]
Pow5All(f, st) == <<>> \o [i \in DOMAIN st |-> Pow5(f, st[i])]

\* The optimised permutation: half the full rounds, the last of them with a
\* matrix of its own, the partial rounds with a sparse one, the other half.
Hash(f, inputs) ==
  LET t == Len(inputs) + 1
      half == NRoundsF \div 2
      M(i, j) == MatrixM(f, j, i)
      P(i, j) == MatrixP(f, j, i)
      Full(st, from) == AddKonst(f, Pow5All(f, st), from)
      Outer(st, r) == Mix(f, M, Full(st, r * t))
      Partial(st, r) ==
        LET x == Plus(f, Pow5(f, st[1]), Konst(f, (half + 1) * t + r))
            S(j) == Konst(f, (2 * t - 1) * (r - 1) + j)
        IN <<>> \o [k \in 1..t |->
              IF k # 1 THEN Plus(f, st[k], Times(f, x, S(t + k - 1)))
              ELSE SumOver(f, [j \in 1..t |->
                     Times(f, S(j), IF j = 1 THEN x ELSE st[j])])]
      Later(st, r) == Mix(f, M, Full(st, (half + r) * t + NRoundsP))
      start == AddKonst(f, <<0>> \o [i \in DOMAIN inputs |-> E(f, inputs[i])], 0)
      first == FoldLeft(Outer, start, UpTo(half - 1))
      middle == FoldLeft(Partial, Mix(f, P, Full(first, half * t)), UpTo(NRoundsP))
  IN Mix(f, M, Pow5All(f, FoldLeft(Later, middle, UpTo(half - 1))))[1]

\* The plain permutation the cipher iterates.
Strategy(f, state) ==
  LET t == Len(state)
      IsFull(r) == r <= NRoundsF \div 2 \/ r > NRoundsF \div 2 + NRoundsP
      M(i, j) == MatrixM(f, i, j)
      Round(st, r) ==
        LET c == AddKonst(f, st, (r - 1) * t)
        IN Mix(f, M, IF IsFull(r) THEN Pow5All(f, c) ELSE [c EXCEPT ![1] = Pow5(f, @)])
  IN FoldLeft(Round, [i \in 1..t |-> E(f, state[i])], UpTo(NRoundsF + NRoundsP))

-----------------------------------------------------------------------------
\* Sponges over frames of a fixed size.  A state holds the frame so far, the
\* hash, and whether the frame has something that is not hashed yet.

Zeros(n) == [i \in 1..n |-> 0]
Fill(frame, size) == frame \o Zeros(size - Len(frame))

SpongeStep(f, s, x, size) ==
  LET frame == Append(s.frame, x)
  IN IF Len(frame) = size
       THEN LET h == Hash(f, frame) IN [frame |-> <<h>>, hash |-> h, dirty |-> FALSE]
       ELSE [s EXCEPT !.frame = frame, !.dirty = TRUE]
SpongeEnd(f, s, size) == IF s.dirty THEN Hash(f, Fill(s.frame, size)) ELSE s.hash
EmptySponge == [frame |-> <<>>, hash |-> Null, dirty |-> FALSE]

\* No hash at all is an error, and so is a hash of zero.
SpongeHashX(f, inputs, size) ==
  LET end == FoldLeft(LAMBDA s, x : SpongeStep(f, s, x, size), EmptySponge, inputs)
      h == SpongeEnd(f, end, size)
  IN IF size \notin 2..16 \/ h \in {Null, 0} THEN Null ELSE h

\* The same over the bytes of a message: whole chunks, then what is left over,
\* filled with zeros at its end.
ChunkAt(msg, i) == SubSeq(msg, Chunk * i + 1, Chunk * (i + 1))
FirstBytes(msg) == SubSeq(msg, 1, Len(msg) % Chunk)   \* fault: the wrong end
LeftOver(msg) == SubSeq(msg, (Len(msg) \div Chunk) * Chunk + 1, Len(msg))
HashBytesX(f, msg, size) ==
  LET chunk(i) == BeBuff2int(ChunkAt(msg, i - 1))
      whole == FoldLeft(LAMBDA s, i : SpongeStep(f, s, chunk(i), size), EmptySponge,
                        UpTo(Len(msg) \div Chunk))
      rest == Fill(LeftOver(msg), Chunk)
  IN IF Len(msg) % Chunk = 0 THEN SpongeEnd(f, whole, size)
     ELSE Hash(f, Fill(Append(whole.frame, BeBuff2int(rest)), size))
HashBytes(f, msg) == HashBytesX(f, msg, 16)

-----------------------------------------------------------------------------
\* The cipher: a block of three elements is added to the state, which is then
\* the block of the ciphertext; one more iteration gives the check element.

Start(f, key, nonce, length) ==
  <<0, E(f, key[1]), E(f, key[2]), Plus(f, E(f, nonce), Times(f, E(f, length), Two128))>>
Blocks(s) == [i \in 1..(Len(s) \div 3) |-> SubSeq(s, 3 * i - 2, 3 * i)]
Padded(msg) == msg \o Zeros((3 - (Len(msg) % 3)) % 3)

Encrypt(f, msg, key, nonce) ==
  LET absorb(acc, block) ==
        LET st == Strategy(f, acc.state)
            out == [i \in 1..3 |-> Plus(f, st[i + 1], block[i])]
        IN [state |-> <<st[1]>> \o out, text |-> acc.text \o out]
      end == FoldLeft(absorb, [state |-> Start(f, key, nonce, Len(msg)), text |-> <<>>],
                      Blocks(Padded([i \in DOMAIN msg |-> E(f, msg[i])])))
  IN IF nonce >= Two128 THEN Refused
     ELSE Append(end.text, Strategy(f, end.state)[2])

\* Zeros of the padding are looked at only beyond one block.
PaddingOk(message, length) ==
  length > 3 => \A i \in 1..((3 - (length % 3)) % 3) : message[Len(message) + 1 - i] = 0
PaddingUnread(message, length) == TRUE        \* fault: the padding is not looked at
GoodPadding(message, length) == PaddingOk(message, length)

Decrypt(f, text, key, length, nonce) ==
  LET release(acc, block) ==
        LET st == Strategy(f, acc.state)
        IN [state |-> <<st[1]>> \o block,
            message |-> acc.message \o [i \in 1..3 |-> Minus(f, block[i], st[i + 1])]]
      end == FoldLeft(release, [state |-> Start(f, key, nonce, length), message |-> <<>>],
                      Blocks(text))
  IN IF \/ nonce >= Two128
        \/ ~GoodPadding(end.message, length)
        \/ text[Len(text)] # Strategy(f, end.state)[2]
       THEN Refused
       ELSE SubSeq(end.message, 1, length)

-----------------------------------------------------------------------------
\* Shamir.  A share is a pair of index and value.  The circuit evaluates the
\* polynomial at 1..n; the code interpolates it at 0 from the first k shares.

Polynomial(f, coef, x) ==
  FoldRight(LAMBDA c, acc : Plus(f, Times(f, acc, x), c), coef, 0)
SecretShares(f, secret, salt, n, k) ==
  LET coef == <<secret>> \o [i \in 1..(k - 1) |-> Hash(f, <<salt, i - 1, secret>>)]
  IN <<>> \o [i \in 1..n |-> <<i, Polynomial(f, coef, i)>>]

ShareAtZero(f, shares, j, k) ==
  LET factor(m) == Div(f, E(f, shares[m][1]),
                       Minus(f, E(f, shares[m][1]), E(f, shares[j][1])))
  IN FoldLeft(LAMBDA acc, m : IF m = j THEN acc ELSE Times(f, acc, factor(m)), 1,
              UpTo(k))
ReconstructSecret(f, k, shares) ==
  IF Len(shares) < k \/ ~IsInjective([i \in DOMAIN shares |-> shares[i][1]]) THEN Null
  ELSE SumOver(f, [j \in 1..k |-> Times(f, E(f, shares[j][2]), ShareAtZero(f, shares, j, k))])
=============================================================================
