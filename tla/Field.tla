-------------------------------- MODULE Field --------------------------------
(***************************************************************************)
(* The prime field and the integer conversions of albus-core, crypto/ff:   *)
(* F1Field, the Scalar helpers it is built from, and the buffer functions   *)
(* that carry field elements to and from accounts and transactions.         *)
(* A field f is the record its constructor computes from the prime.  A      *)
(* buffer is a sequence of bytes, a byte is below Byte: 256 in the code, a   *)
(* smaller square of Hex here, so that words stay in TLC's integers.        *)
(***************************************************************************)
EXTENDS Integers, Sequences
LOCAL INSTANCE SequencesExt

CONSTANT Hex           \* the value of a hexadecimal digit, 16 in the code
Byte == Hex * Hex
ByteBits == CHOOSE k \in 1..8 : 2^k = Byte
Word == Byte * Byte * Byte * Byte       \* a 32 bit word
Null == -1                              \* null, and a thrown error

-----------------------------------------------------------------------------
\* Scalar.

RECURSIVE Bits(_), Naf(_)
Bits(n) == IF n = 0 THEN <<>> ELSE <<n % 2>> \o Bits(n \div 2)

\* The non-adjacent form: a digit 1 or -1 leaves a multiple of four.
Naf(n) ==
  IF n = 0 THEN <<>>
  ELSE LET z == IF n % 2 = 1 THEN 2 - (n % 4) ELSE 0
       IN <<z>> \o Naf((n - z) \div 2)

RECURSIVE ToArray(_, _)
ToArray(n, radix) ==
  IF n = 0 THEN <<>> ELSE Append(ToArray(n \div radix, radix), n % radix)
FromArray(a, radix) == FoldLeft(LAMBDA acc, d : acc * radix + d, 0, a)

\* Bits of all hexadecimal digits but the first, and of the first one.
BitLength(n) ==
  LET digits == ToArray(n, 16)
  IN IF n = 0 THEN 0
     ELSE (Len(digits) - 1) * 4 + Len(ToArray(digits[1], 2))

\* Words of the digits that are there, zero words after them, and bytes one by
\* one where the buffer ends inside a word.  Words past the end are not stored.
HexLength(n) == IF n = 0 THEN 1 ELSE Len(ToArray(n, Hex))
WordsOf(n) == (HexLength(n) + 7) \div 8
WordAt(n, i) == IF i < WordsOf(n) THEN (n \div Word^i) % Word ELSE 0
ByteOf(w, j) == (w \div Byte^j) % Byte

ToRprLE(n, size) ==
  [k \in 1..size |->
     LET i == (k - 1) \div 4
     IN IF i < size \div 4 THEN ByteOf(WordAt(n, i), (k - 1) % 4)
        ELSE ByteOf(n, k - 1)]
\* Into a buffer of zeros of whole words; a word that does not fit throws.
ToRprBE(n, size) ==
  IF WordsOf(n) * 4 > size THEN <<>>
  ELSE [k \in 1..size |->
          ByteOf(WordAt(n, (size - k) \div 4), (size - k) % 4)]

\* Whole words are read; what is left of the buffer is not.
FromRprLE(buff) ==
  FromArray(Reverse(SubSeq(buff, 1, (Len(buff) \div 4) * 4)), Byte)
FromRprBE(buff) == FromArray(SubSeq(buff, 1, (Len(buff) \div 4) * 4), Byte)

ToLEBuff(n) ==
  ToRprLE(n, (BitLength(n) - 1) \div ByteBits + 1)

-----------------------------------------------------------------------------
\* The buffer functions of ff/utils: four bytes at a time, then two, then one.

RECURSIVE BeBuff2int(_), LeBuff2int(_), BeInt2Buff(_, _), LeInt2Buff(_, _)
Step(n) == IF n >= 4 THEN 4 ELSE IF n >= 2 THEN 2 ELSE 1

BeBuff2int(buff) ==
  IF buff = <<>> THEN 0
  ELSE LET n == Step(Len(buff))
           rest == Len(buff) - n
       IN FromArray(SubSeq(buff, rest + 1, Len(buff)), Byte)
            + Byte^n * BeBuff2int(SubSeq(buff, 1, rest))

LeBuff2int(buff) ==
  IF buff = <<>> THEN 0
  ELSE LET n == Step(Len(buff))
       IN FromArray(Reverse(SubSeq(buff, 1, n)), Byte)
            + Byte^n * LeBuff2int(SubSeq(buff, n + 1, Len(buff)))

\* <<>> stands for the error of a number that does not fit.
BeInt2Buff(n, len) ==
  IF len = 0 THEN <<>>
  ELSE LET k == Step(len)
           low == [i \in 1..k |-> ByteOf(n, k - i)]
       IN IF n >= Byte^len THEN <<>> ELSE BeInt2Buff(n \div Byte^k, len - k) \o low

WholeNumber(n, len) == n            \* fault: the number is not moved on
RestOf(n, k) == n \div Byte^k
LeInt2Buff(n, len) ==
  IF len = 0 THEN <<>>
  ELSE LET k == Step(len)
           low == [i \in 1..k |-> ByteOf(n, i - 1)]
       IN IF n >= Byte^len THEN <<>> ELSE low \o LeInt2Buff(RestOf(n, k), len - k)

-----------------------------------------------------------------------------
\* F1Field: its arithmetic.

E(f, a) == IF a < 0 THEN f.p - (IF -a >= f.p THEN (-a) % f.p ELSE -a)
           ELSE IF a >= f.p THEN a % f.p ELSE a
Plus(f, a, b) == IF a + b >= f.p THEN a + b - f.p ELSE a + b
Minus(f, a, b) == IF a >= b THEN a - b ELSE f.p - b + a
Neg(f, a) == IF a # 0 THEN f.p - a ELSE a
Times(f, a, b) == (a * b) % f.p
Square(f, a) == (a * a) % f.p
Signed(f, a) == IF a > f.half THEN a - f.p ELSE a
Geq(f, a, b) == Signed(f, a) >= Signed(f, b)

\* The extended Euclidean algorithm.
RECURSIVE Euclid(_, _, _, _)
Euclid(t, newt, r, newr) ==
  IF newr = 0 THEN t
  ELSE LET q == r \div newr IN Euclid(newt, t - q * newt, newr, r - q * newr)
Inv(f, a) ==
  IF a = 0 THEN Null
  ELSE LET t == Euclid(0, 1, f.p, a % f.p) IN IF t < 0 THEN t + f.p ELSE t
Div(f, a, b) == Times(f, a, Inv(f, b))

\* Shifts: by close to the prime is a shift the other way.
Reduced(f, r) == IF r >= f.p THEN r - f.p ELSE r
Shl(f, a, n) ==
  IF n < BitLength(f.p) THEN Reduced(f, (a * 2^n) % 2^BitLength(f.p))
  ELSE IF f.p - n < BitLength(f.p) THEN a \div 2^(f.p - n)
  ELSE 0
Shr(f, a, n) ==
  IF n < BitLength(f.p) THEN a \div 2^n
  ELSE IF f.p - n < BitLength(f.p) THEN Reduced(f, (a * 2^(f.p - n)) % 2^BitLength(f.p))
  ELSE 0

\* Square and multiply, from the second highest bit down.
LowBits(bits) == bits               \* fault: lowest bit first
HighBits(bits) == Reverse(bits)
Exp(f, base, e) ==
  IF e = 0 THEN 1
  ELSE LET bits == HighBits(Bits(e))
           Next1(res, bit) == IF bit = 1 THEN Times(f, Square(f, res), base)
                              ELSE Square(f, res)
       IN FoldLeft(Next1, base, Tail(bits))

\* Double and add or subtract, over the non-adjacent form.
MulScalar(f, base, e) ==
  IF e = 0 THEN 0
  ELSE LET naf == Reverse(Naf(e))
           double(res) == Plus(f, res, res)
           Next1(res, d) == CASE d = 1 -> Plus(f, double(res), base)
                              [] d = -1 -> Minus(f, double(res), base)
                              [] OTHER -> double(res)
       IN FoldLeft(Next1, base, Tail(naf))

RECURSIVE Halvings(_), OddPart(_)
Halvings(n) == IF n % 2 = 1 THEN 0 ELSE 1 + Halvings(n \div 2)
OddPart(n) == IF n % 2 = 1 THEN n ELSE OddPart(n \div 2)

\* nqr is the first number from 2 on that is no square; n8 is the size of an
\* element's buffer, R its Montgomery factor.
Prime(p) == [p |-> p, half |-> p \div 2, negone |-> p - 1]
F1Field(p) ==
  LET f == Prime(p)
      isNqr(n) == Exp(f, n, (p - 1) \div 2) = p - 1
      nqr == CHOOSE n \in 2..(p - 1) : isNqr(n) /\ \A m \in 2..(n - 1) : ~isNqr(m)
      t == OddPart(p - 1)
      n8 == ((BitLength(p) - 1) \div (8 * ByteBits) + 1) * 8
      R == E(f, 2^(n8 * ByteBits))
  IN [p |-> p, half |-> p \div 2, negone |-> p - 1, nqr |-> nqr,
      s |-> Halvings(p - 1), t |-> t, nqr_to_t |-> Exp(f, nqr, t),
      n8 |-> n8, R |-> R, Ri |-> Inv(f, R)]

ToRprLEM(f, a) == ToRprLE(Times(f, f.R, a), f.n8)
FromRprLEM(f, buff) == Times(f, FromRprLE(buff), f.Ri)

-----------------------------------------------------------------------------
\* Square roots.  The constructor draws numbers until one is no square; z is
\* its power.  (It also stops at 0, which a random number of 254 bits is not.)

SqrtZ(f) == {Exp(f, c, f.t) : c \in {x \in 1..(f.p - 1) :
               Exp(f, Exp(f, x, f.t), 2^(f.s - 1)) # 1}}

\* Least k >= 1 whose k-th squaring of b is one.
RECURSIVE Order2(_, _)
Order2(f, b) == IF Square(f, b) = 1 THEN 1 ELSE 1 + Order2(f, Square(f, b))
RECURSIVE Squared(_, _, _)
Squared(f, a, n) == IF n <= 0 THEN a ELSE Squared(f, Square(f, a), n - 1)

RECURSIVE TonelliLoop(_, _, _, _, _)
TonelliLoop(f, v, x, b, z) ==
  IF b = 1 THEN x
  ELSE LET k == Order2(f, b)
           w == Squared(f, z, v - k - 1)
       IN TonelliLoop(f, k, Times(f, x, w), Times(f, b, Square(f, w)), Square(f, w))

AnyRoot(f, x) == x                  \* fault: whichever root comes out
LowerRoot(f, x) == IF Geq(f, x, 0) THEN x ELSE Neg(f, x)

Sqrt(f, z, a) ==
  IF a = 0 THEN 0
  ELSE LET w == Exp(f, a, (f.t - 1) \div 2)
           x == Times(f, a, w)
           b == Times(f, x, w)
       IN IF Exp(f, b, 2^(f.s - 1)) = f.negone THEN Null
          ELSE LowerRoot(f, TonelliLoop(f, f.s, x, b, z))

SqrtOld(f, a) ==
  IF a = 0 THEN 0
  ELSE IF Exp(f, a, f.negone \div 2) # 1 THEN Null
  ELSE LET r == TonelliLoop(f, f.s, Exp(f, a, Plus(f, f.t, 1) \div 2),
                            Exp(f, a, f.t), f.nqr_to_t)
       IN IF r > f.half THEN Neg(f, r) ELSE r
=============================================================================
