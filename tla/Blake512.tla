------------------------------- MODULE Blake512 -------------------------------
(***************************************************************************)
(* The hash of keys and nonces, albus-core crypto/blake.ts.  JavaScript has  *)
(* no words of 64 bits: a word is a pair of halves <<hi, lo>>, added with a   *)
(* carry and rotated across the pair.  The sizes follow from HalfBits: a      *)
(* block is sixteen words, the length at its end two.                         *)
(***************************************************************************)
EXTENDS Integers, Sequences, Bitwise
LOCAL INSTANCE SequencesExt

CONSTANTS
  HalfBits,            \* bits of half a word, a multiple of 8: 32 in the code
  Rounds               \* 16 in the code
Half == 2^HalfBits
HalfBytes == HalfBits \div 8
BlockBytes == 32 * HalfBytes
LengthBytes == 4 * HalfBytes
PadAt == BlockBytes - LengthBytes - 1      \* 111 in the code
Turn(n) == (n * HalfBits) \div 32          \* a rotation's amount at this size

\* Initial values and constants, any data.
IV(i) == <<(i * 59 + 106) % Half, (i * 83 + 201) % Half>>
U512(i) == <<(i * 67 + 36) % Half, (i * 101 + 133) % Half>>
Sigma == <<
  <<0, 1, 2, 3, 4, 5, 6, 7, 8, 9, 10, 11, 12, 13, 14, 15>>,
  <<14, 10, 4, 8, 9, 15, 13, 6, 1, 12, 0, 2, 11, 7, 5, 3>>,
  <<11, 8, 12, 0, 5, 2, 15, 13, 10, 14, 3, 6, 7, 1, 9, 4>>,
  <<7, 9, 3, 1, 13, 12, 11, 14, 2, 6, 5, 10, 4, 0, 15, 8>>,
  <<9, 0, 5, 7, 2, 4, 10, 15, 14, 1, 11, 12, 6, 8, 3, 13>>,
  <<2, 12, 6, 10, 0, 11, 8, 3, 4, 13, 7, 5, 15, 14, 1, 9>>,
  <<12, 5, 1, 15, 14, 13, 4, 10, 0, 7, 6, 3, 9, 2, 8, 11>>,
  <<13, 11, 7, 14, 12, 1, 3, 9, 5, 0, 15, 4, 8, 6, 2, 10>>,
  <<6, 15, 14, 9, 11, 3, 0, 8, 12, 2, 13, 7, 1, 4, 10, 5>>,
  <<10, 2, 8, 4, 7, 6, 1, 5, 15, 11, 9, 14, 3, 12, 13, 0>> >>

XorWord(x, y) == <<x[1] ^^ y[1], x[2] ^^ y[2]>>
Sum3(x, y, z) ==
  LET lo == x[2] + y[2] + z[2]
  IN <<(x[1] + y[1] + z[1] + (lo \div Half)) % Half, lo % Half>>
Rot(x, y, n) ==
  LET z == XorWord(x, y)
      s == IF n >= HalfBits THEN <<z[2], z[1]>> ELSE z
      k == n % HalfBits
      part(a, b) == (a \div 2^k) + ((b * 2^(HalfBits - k)) % Half)
  IN IF k = 0 THEN s ELSE <<part(s[1], s[2]), part(s[2], s[1])>>

\* Half of g: q names the four words of v it mixes, x is added first.
Stir(v, q, x, turn1, turn2) ==
  LET a == Sum3(v[q[1]], x, v[q[2]])
      d == Rot(v[q[4]], a, Turn(turn1))
      c == Sum3(v[q[3]], d, <<0, 0>>)
      b == Rot(v[q[2]], c, Turn(turn2))
  IN [v EXCEPT ![q[1]] = a, ![q[2]] = b, ![q[3]] = c, ![q[4]] = d]
G(v, m, i, q, e) ==
  LET s(k) == Sigma[(i % 10) + 1][k + 1]
      x(j, k) == XorWord(m[s(j)], U512(s(k)))
  IN Stir(Stir(v, q, x(e, e + 1), 32, 25), q, x(e + 1, e), 16, 11)

Quads == <<<<0, 4, 8, 12>>, <<1, 5, 9, 13>>, <<2, 6, 10, 14>>, <<3, 7, 11, 15>>,
           <<0, 5, 10, 15>>, <<1, 6, 11, 12>>, <<2, 7, 8, 13>>, <<3, 4, 9, 14>>>>

NumberAt(bytes, at, n) ==
  FoldLeft(LAMBDA acc, b : acc * 256 + b, 0, SubSeq(bytes, at + 1, at + n))
\* The salt is always zero.
Compress(s) ==
  LET m == [i \in 0..15 |->
              [j \in 1..2 |-> NumberAt(s.block, (2 * i + j - 1) * HalfBytes, HalfBytes)]]
      count(i) == IF s.nullt \/ i < 12 THEN <<0, 0>>
                  ELSE IF i < 14 THEN <<s.length[2], s.length[1]>>
                  ELSE <<s.length[4], s.length[3]>>
      v == [i \in 0..15 |-> IF i < 8 THEN s.h[i] ELSE XorWord(U512(i - 8), count(i))]
      round(w, i) == FoldLeft(LAMBDA u, k : G(u, m, i, Quads[k], 2 * (k - 1)), w,
                              <<1, 2, 3, 4, 5, 6, 7, 8>>)
      end == FoldLeft(round, v, [i \in 1..Rounds |-> i - 1])
  IN [s EXCEPT !.h = [i \in 0..7 |-> XorWord(XorWord(@[i], end[i]), end[i + 8])],
               !.block = <<>>]

\* The number of bits is kept in halves; a full one carries.
Carry(length, j) ==
  IF length[j] < Half \/ \E i \in 1..(j - 1) : length[i] >= Half THEN length
  ELSE [length EXCEPT ![j] = @ - Half, ![j + 1] = @ + 1]
LengthCarry(length) == FoldLeft(Carry, length, <<1, 2, 3>>)
Uncarried(length) == [length EXCEPT ![1] = @ % Half]     \* fault: the carry is lost
Carried(length) == LengthCarry(length)

RECURSIVE Update(_, _)
Update(s, data) ==
  LET room == BlockBytes - Len(s.block)
      full == [s EXCEPT !.block = @ \o SubSeq(data, 1, room),
                        !.length = Carried([@ EXCEPT ![1] = @ + BlockBytes * 8])]
  IN IF Len(data) < room THEN [s EXCEPT !.block = @ \o data]
     ELSE Update(Compress(full), SubSeq(data, room + 1, Len(data)))

\* The bytes of the padding are no bits of the message: they are taken off the
\* length before they are written.
Uncounted(s, n) == [s EXCEPT !.length[1] = @ - n * 8]
Write(s, data) == Update(Uncounted(s, Len(data)), data)
Zeros(n) == [i \in 1..n |-> 0]
PaddingBytes(n) == SubSeq(<<128>> \o Zeros(n), 1, n)

Padding(s) ==
  LET off == Len(s.block)
      len == Carried([s.length EXCEPT ![1] = @ + off * 8])
      bytes == [i \in 1..LengthBytes |->
                  (len[4 - ((i - 1) \div HalfBytes)]
                     \div 256^(HalfBytes - 1 - ((i - 1) % HalfBytes))) % 256]
      \* Without room for the length the padding fills this block and the next.
      first == IF off > PadAt THEN <<PaddingBytes(BlockBytes - off)>> ELSE <<>>
      start == [FoldLeft(Write, s, first) EXCEPT !.nullt = @ \/ off = 0 \/ off > PadAt]
      rest == CASE off = PadAt -> <<<<129>>>>
                [] off < PadAt -> <<PaddingBytes(PadAt - off), <<1>>>>
                [] OTHER -> <<Zeros(PadAt), <<1>>>>
  IN FoldLeft(Write, start, Append(rest, bytes))

New == [h |-> [i \in 0..7 |-> IV(i)], block |-> <<>>, length |-> <<0, 0, 0, 0>>,
        nullt |-> FALSE]
Digest(s) == Padding(s).h
=============================================================================
