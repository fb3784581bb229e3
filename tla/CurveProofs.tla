------------------------------ MODULE CurveProofs ------------------------------
(***************************************************************************)
(* What the rounding of albus-swap can cost: for all amounts, fees and        *)
(* prices, the steps of the arithmetic behind ValuePerShareKept.  Every        *)
(* division favours the pool; the theorems put those of a handler together.    *)
(* Square roots are a fold over a sequence and stay with TLC: what a product    *)
(* curve gives for one side only, and the tokens minted for its owner's fee.    *)
(***************************************************************************)
EXTENDS Swap, TLAPS

-----------------------------------------------------------------------------
\* Arithmetic.

\* What div and mod are to each other.
LEMMA Division ==
  ASSUME NEW n \in Nat, NEW d \in Nat \ {0}
  PROVE  /\ n \div d \in Nat
         /\ n % d \in 0..(d - 1)
         /\ n = d * (n \div d) + (n % d)
  OBVIOUS

\* A product with a natural number grows with its other factor.
LEMMA Products ==
  ASSUME NEW x \in Nat, NEW y \in Nat, NEW z \in Nat
  PROVE  /\ x * z \in Nat
         /\ x * z = z * x
         /\ (x + y) * z = x * z + y * z
         /\ x <= y => x * z <= y * z
<1>1. x * z \in Nat  OBVIOUS
<1>2. x * z = z * x  OBVIOUS
<1>3. (x + y) * z = x * z + y * z OBVIOUS
<1>4. ASSUME x <= y PROVE x * z <= y * z
  <2>1. PICK k \in Nat : y = x + k BY <1>4, SMT
  <2>2. y * z = x * z + k * z BY <2>1
  <2>3. k * z \in Nat OBVIOUS
  <2> QED BY <2>2, <2>3, <1>1
<1> QED BY <1>1, <1>2, <1>3, <1>4

\* Rounding down loses nothing to the dividend: what most of curve/*.rs does.
LEMMA DivisionDown ==
  ASSUME NEW n \in Nat, NEW d \in Nat \ {0}
  PROVE  n \div d \in Nat /\ d * (n \div d) <= n
<1> DEFINE q == n \div d
           rest == n % d
<1>1. q \in Nat /\ rest \in 0..(d - 1) /\ n = d * q + rest
  BY Division
<1>2. d * q \in Nat
  BY <1>1
<1> HIDE DEF q, rest
<1>3. d * q <= n
  BY <1>1, <1>2
<1> QED BY <1>1, <1>3 DEF q

\* checked_ceil_div of spl_math: the quotient times the divisor it was given, or times
\* the one it hands back, is not less than the dividend, unless it is 0; and the divisor
\* it hands back is not above its own.
LEMMA CeilingDivision ==
  ASSUME NEW n \in Nat, NEW d \in Nat \ {0}
  PROVE  /\ CheckedCeilDiv(n, d)[1] \in Nat
         /\ CheckedCeilDiv(n, d)[2] \in 0..d
         /\ CheckedCeilDiv(n, d)[1] # 0 => n <= CheckedCeilDiv(n, d)[1] * d
         /\ CheckedCeilDiv(n, d)[2] # 0 => n <= CheckedCeilDiv(n, d)[1] * CheckedCeilDiv(n, d)[2]
<1> DEFINE q == n \div d
           rest == n % d
           half == IF 2 * n >= d THEN 1 ELSE 0
<1>1. q \in Nat /\ rest \in 0..(d - 1) /\ n = d * q + rest
  BY Division
<1>2. CheckedCeilDiv(n, d) =
        IF q = 0 THEN <<half, 0>>
        ELSE IF rest = 0 THEN <<q, d>>
        ELSE <<IF rest > 0 THEN q + 1 ELSE q,
               (n + (IF rest > 0 THEN q + 1 ELSE q) - 1) \div (IF rest > 0 THEN q + 1 ELSE q)>>
  BY DEF CheckedCeilDiv
<1> HIDE DEF q, rest, half
<1>3. CASE q = 0
  <2>1. n < d
    BY <1>1, <1>3
  <2>2. CheckedCeilDiv(n, d) = <<half, 0>>
    BY <1>2, <1>3
  <2> QED BY <2>1, <2>2 DEF half
<1>4. CASE q # 0 /\ rest = 0
  <2>1. CheckedCeilDiv(n, d) = <<q, d>>
    BY <1>2, <1>4
  <2>2. d * q = q * d
    BY <1>1
  <2> QED BY <2>1, <2>2, <1>1, <1>4
<1>5. CASE q # 0 /\ rest # 0
  <2> DEFINE up == q + 1
             low == (n + up - 1) \div up
  <2>1. CheckedCeilDiv(n, d) = <<up, low>>
    BY <1>1, <1>2, <1>5
  <2>2. up \in Nat \ {0} /\ n + up - 1 \in Nat
    BY <1>1
  <2>3. low \in Nat /\ (n + up - 1) % up \in 0..(up - 1) /\ n + up - 1 = up * low + ((n + up - 1) % up)
    BY <2>2, Division
  <2>4. up * d = q * d + d
    BY <1>1
  <2>5. n <= up * d
    BY <1>1, <2>4
  <2> HIDE DEF up, low
  <2>6. n <= up * low
    <3>1. up * low \in Nat
      BY <2>2, <2>3
    <3> QED BY <2>2, <2>3, <3>1
  <2>7. low <= d
    <3>1. SUFFICES ASSUME d < low PROVE FALSE
      BY <2>3
    <3>2. PICK k \in Nat : low = d + k + 1
      BY <2>3, <3>1, SMT
    <3>3. up * low = up * d + up * k + up
      BY <2>2, <3>2
    <3>4. up * k \in Nat /\ up * d \in Nat
      BY <2>2
    <3> DEFINE z == (n + up - 1) % up
    <3>5. z \in Nat /\ n + up - 1 = up * low + z
      BY <2>3, <2>2
    <3> HIDE DEF z
    <3> QED BY <2>2, <2>5, <3>3, <3>4, <3>5
  <2> QED BY <2>1, <2>2, <2>3, <2>5, <2>6, <2>7
<1> QED BY <1>3, <1>4, <1>5

\* The same for CeilDiv, which is the quotient alone, and 0 for 0.
LEMMA DivisionUp ==
  ASSUME NEW n \in Nat, NEW d \in Nat \ {0}
  PROVE  CeilDiv(n, d) \in Nat /\ (CeilDiv(n, d) # 0 => n <= CeilDiv(n, d) * d)
                              /\ (n = 0 => CeilDiv(n, d) = 0)
<1>1. CeilDiv(n, d) = CheckedCeilDiv(n, d)[1]
  BY DEF CeilDiv
<1>2. ASSUME n = 0 PROVE CeilDiv(n, d) = 0
  <2>1. 0 \div d = 0
    BY Division
  <2> QED BY <1>1, <1>2, <2>1 DEF CheckedCeilDiv
<1> QED BY <1>1, <1>2, CeilingDivision

-----------------------------------------------------------------------------
\* What Initialize lets in: the curves, and the fractions that validate_fraction accepts.
Curves == [type : {"product", "price", "offset"}, param : Nat]
Fractions == {f \in Nat \X Nat : ValidateFraction(f)}
FeeSchedules == [trade : Fractions, ownerTrade : Fractions,
                 ownerWithdraw : Fractions, host : Fractions]

\* calculate_fee of fees.rs is defined for every fraction that was validated.
LEMMA FeeIsNatural ==
  ASSUME NEW amount \in Nat, NEW f \in Fractions
  PROVE  CalculateFee(amount, f) \in Nat
<1>1. CASE f[1] = 0 \/ amount = 0
  BY <1>1 DEF CalculateFee
<1>2. CASE f[1] # 0 /\ amount # 0
  <2>1. f[1] \in Nat /\ f[2] \in Nat \ {0}
    BY <1>2 DEF Fractions, ValidateFraction
  <2> DEFINE n == f[1]
             d == f[2]
  <2> HIDE DEF n, d
  <2>3. amount * n \in Nat
    BY <2>1 DEF n
  <2>2. (amount * n) \div d \in Nat
    BY <2>1, <2>3, Division DEF d
  <2>4. CalculateFee(amount, f) = Larger(1, (amount * n) \div d)
    BY <1>2 DEF CalculateFee, n, d
  <2> QED BY <2>2, <2>4 DEF Larger
<1> QED BY <1>1, <1>2

\* swap of constant_product.rs takes at most what it is given, and the product of what
\* it leaves is not below the one it found: both numbers of CheckedCeilDiv are needed.
LEMMA ProductNeverFalls ==
  ASSUME NEW amount \in Nat, NEW source \in Nat, NEW destination \in Nat, NEW in, NEW out,
         ProductSwap(amount, source, destination) = <<in, out>>, <<in, out>> # NoSwap
  PROVE  /\ in \in 0..amount /\ out \in 0..destination
         /\ (source + in) * (destination - out) >= source * destination
<1> DEFINE k == source * destination
           d == source + amount
           div == CheckedCeilDiv(k, d)
<1>1. d \in Nat \ {0} /\ k \in Nat
  BY DEF ProductSwap
<1>2. /\ ~(div[2] < source \/ div[1] >= destination)
      /\ ProductSwap(amount, source, destination) = <<div[2] - source, destination - div[1]>>
  BY <1>1 DEF ProductSwap
<1>3. /\ div[1] \in Nat /\ div[2] \in 0..d
      /\ div[2] # 0 => k <= div[1] * div[2]
  BY <1>1, CeilingDivision
<1> HIDE DEF div
<1>4. div[2] >= source /\ div[1] < destination
  BY <1>2, <1>3
<1>5. CASE div[2] = 0
  <2>1. source = 0 /\ k = 0
    BY <1>4, <1>5
  <2>2. (source + (div[2] - source)) * (destination - (destination - div[1])) = 0
    BY <1>3, <1>5, <2>1
  <2>3. in = div[2] - source /\ out = destination - div[1]
    BY <1>2
  <2> QED BY <1>3, <1>4, <1>5, <2>1, <2>2, <2>3
<1>6. CASE div[2] # 0
  <2>1. source + (div[2] - source) = div[2] /\ destination - (destination - div[1]) = div[1]
    BY <1>3
  <2>2. div[2] * div[1] >= k
    BY <1>1, <1>3, <1>6
  <2>3. in = div[2] - source /\ out = destination - div[1]
    BY <1>2
  <2>4. div[2] - source \in 0..amount /\ destination - div[1] \in 0..destination
    BY <1>3, <1>4
  <2> QED BY <2>1, <2>2, <2>3, <2>4
<1> QED BY <1>5, <1>6

\* swap of constant_price.rs takes at most what it is given, whole units of the price,
\* and gives at most their worth.
LEMMA PriceNeverFalls ==
  ASSUME NEW amount \in Nat, NEW price \in Nat \ {0}, NEW AtoB \in BOOLEAN,
         PriceSwap(amount, price, AtoB) # NoSwap
  PROVE  LET r == PriceSwap(amount, price, AtoB)
         IN /\ r[1] \in 0..amount /\ r[2] \in Nat
            /\ IF AtoB THEN r[1] >= price * r[2] ELSE price * r[1] >= r[2]
<1> DEFINE q == amount \div price
           rest == amount % price
<1>1. q \in Nat /\ rest \in 0..(price - 1) /\ amount = price * q + rest
  BY Division
<1>2. price * q \in Nat /\ price * amount \in Nat /\ price * amount = amount * price
  BY <1>1
<1>3. PriceSwap(amount, price, AtoB) = IF AtoB THEN <<amount - rest, q>> ELSE <<amount, amount * price>>
  BY DEF PriceSwap
<1> HIDE DEF q, rest
<1>4. CASE AtoB
  <2>1. PriceSwap(amount, price, AtoB) = <<amount - rest, q>>
    BY <1>3, <1>4
  <2>2. amount - rest = price * q /\ amount - rest \in 0..amount
    BY <1>1, <1>2
  <2>3. /\ PriceSwap(amount, price, AtoB)[1] = price * q
        /\ PriceSwap(amount, price, AtoB)[2] = q
    BY <2>1, <2>2
  <2>4. price * q >= price * q
    BY <1>2
  <2> QED BY <1>1, <1>4, <2>2, <2>3, <2>4
<1>5. CASE ~AtoB
  <2>1. PriceSwap(amount, price, AtoB) = <<amount, amount * price>>
    BY <1>3, <1>5
  <2> QED BY <1>2, <1>5, <2>1
<1> QED BY <1>4, <1>5

\* The amounts a curve proposes, whatever the pool has.
LEMMA SwapAmounts ==
  ASSUME NEW curve \in Curves, ValidCurve(curve), NEW amount \in Nat,
         NEW a \in Nat, NEW b \in Nat, NEW AtoB \in BOOLEAN, NEW in, NEW out,
         SwapWithoutFees(curve, amount, a, b, AtoB) = <<in, out>>, <<in, out>> # NoSwap
  PROVE  in \in 0..amount /\ out \in Nat
<1> DEFINE b2 == b + OffsetOf(curve)
           price == curve.param
<1>1. CASE curve.type = "price"
  <2>1. PriceSwap(amount, price, AtoB) = <<in, out>> /\ price \in Nat \ {0}
    BY <1>1 DEF Curves, ValidCurve, SwapWithoutFees
  <2> HIDE DEF price
  <2> QED BY <2>1, PriceNeverFalls
<1>2. CASE curve.type # "price"
  <2>1. b2 \in Nat
    BY DEF Curves, OffsetOf
  <2>2. ProductSwap(amount, IF AtoB THEN a ELSE b2, IF AtoB THEN b2 ELSE a) = <<in, out>>
    BY <1>2 DEF SwapWithoutFees
  <2> HIDE DEF b2
  <2>3. PICK s \in Nat, d \in Nat : ProductSwap(amount, s, d) = <<in, out>>
    BY <2>1, <2>2
  <2> QED BY <2>3, ProductNeverFalls
<1> QED BY <1>1, <1>2

\* A swap of any curve keeps what the pool is worth, whatever else stays in the pool.
LEMMA CurveNeverFalls ==
  ASSUME NEW curve \in Curves, ValidCurve(curve), NEW amount \in Nat, NEW kept \in Nat,
         NEW a \in Nat, NEW b \in Nat, NEW AtoB \in BOOLEAN, NEW in, NEW out,
         SwapWithoutFees(curve, amount, a, b, AtoB) = <<in, out>>, <<in, out>> # NoSwap,
         out <= (IF AtoB THEN b ELSE a)
  PROVE  /\ in \in 0..amount /\ out \in Nat
         /\ Worth(curve, IF AtoB THEN a + in + kept ELSE a - out,
                         IF AtoB THEN b - out ELSE b + in + kept) >= Worth(curve, a, b)
<1> DEFINE price == curve.param
           b2 == b + OffsetOf(curve)
<1>1. CASE curve.type = "price"
  <2>1. PriceSwap(amount, price, AtoB) = <<in, out>> /\ price \in Nat \ {0}
    BY <1>1 DEF Curves, ValidCurve, SwapWithoutFees
  <2>2. \A x, y : Worth(curve, x, y) = x + price * y
    BY <1>1 DEF Worth
  <2> HIDE DEF price
  <2>3. /\ in \in 0..amount /\ out \in Nat
        /\ IF AtoB THEN in >= price * out ELSE price * in >= out
    BY <2>1, PriceNeverFalls
  <2>4. CASE AtoB
    <3>1. a + in + kept + price * (b - out) >= a + price * b
      <4>1. price * (b - out) = price * b - price * out
        BY <2>1, <2>3
      <4>2. price * b \in Nat /\ price * out \in Nat
        BY <2>1, <2>3
      <4>3. in >= price * out
        BY <2>3, <2>4
      <4> QED BY <2>3, <4>1, <4>2, <4>3
    <3> QED BY <2>2, <2>3, <2>4, <3>1
  <2>5. CASE ~AtoB
    <3>1. a - out + price * (b + in + kept) >= a + price * b
      <4>1. price * (b + in + kept) = price * b + price * in + price * kept
        BY <2>1, <2>3
      <4>2. price * b \in Nat /\ price * in \in Nat /\ price * kept \in Nat
        BY <2>1, <2>3
      <4>3. price * in >= out
        BY <2>3, <2>5
      <4> QED BY <2>3, <4>1, <4>2, <4>3
    <3> QED BY <2>2, <2>3, <2>5, <3>1
  <2> QED BY <2>4, <2>5
<1>2. CASE curve.type # "price"
  <2>1. b2 \in Nat /\ OffsetOf(curve) \in Nat
    BY DEF Curves, OffsetOf
  <2>2. \A x, y : Worth(curve, x, y) = x * (y + OffsetOf(curve))
    BY <1>2 DEF Worth
  <2>3. CASE AtoB
    <3>1. ProductSwap(amount, a, b2) = <<in, out>>
      BY <1>2, <2>3 DEF SwapWithoutFees
    <3>2. in \in 0..amount /\ out \in 0..b2 /\ (a + in) * (b2 - out) >= a * b2
      <4>1. ProductSwap(amount, a, b2) # NoSwap
        BY <3>1
      <4> HIDE DEF b2
      <4> QED BY <2>1, <3>1, <4>1, ProductNeverFalls
    <3>3. (a + in + kept) * (b2 - out) >= (a + in) * (b2 - out)
      <4>1. b2 - out \in Nat /\ a + in \in Nat /\ a + in + kept \in Nat /\ a + in <= a + in + kept
        BY <2>1, <3>2
      <4> QED BY <4>1, Products
    <3>4. b - out + OffsetOf(curve) = b2 - out
      BY <2>1, <3>2
    <3>5. /\ (a + in + kept) * (b2 - out) \in Nat /\ (a + in) * (b2 - out) \in Nat /\ a * b2 \in Nat
      BY <2>1, <3>2
    <3>6. (a + in + kept) * (b2 - out) >= a * b2
      BY <3>2, <3>3, <3>5
    <3> QED BY <2>2, <2>3, <3>2, <3>4, <3>6
  <2>4. CASE ~AtoB
    <3>1. ProductSwap(amount, b2, a) = <<in, out>>
      BY <1>2, <2>4 DEF SwapWithoutFees
    <3>2. in \in 0..amount /\ out \in 0..a /\ (b2 + in) * (a - out) >= b2 * a
      <4>1. ProductSwap(amount, b2, a) # NoSwap
        BY <3>1
      <4> HIDE DEF b2
      <4> QED BY <2>1, <3>1, <4>1, ProductNeverFalls
    <3>3. (b2 + in + kept) * (a - out) >= (b2 + in) * (a - out)
      <4>1. a - out \in Nat /\ b2 + in \in Nat /\ b2 + in + kept \in Nat /\ b2 + in <= b2 + in + kept
        BY <2>1, <3>2
      <4> QED BY <4>1, Products
    <3>4. b + in + kept + OffsetOf(curve) = b2 + in + kept
      BY <2>1, <3>2
    <3>5. /\ (b2 + in + kept) * (a - out) = (a - out) * (b2 + in + kept)
          /\ b2 * a = a * b2
          /\ (b2 + in + kept) * (a - out) \in Nat /\ (b2 + in) * (a - out) \in Nat /\ a * b2 \in Nat
      BY <2>1, <3>2
    <3>6. (a - out) * (b2 + in + kept) >= a * b2
      BY <3>2, <3>3, <3>5
    <3> QED BY <2>2, <2>4, <3>2, <3>4, <3>6
  <2> QED BY <2>3, <2>4
<1> QED BY <1>1, <1>2

\* SwapCurve::swap of base.rs: a swap with its fees takes no more than the trader
\* offered, gives no more than the pool has, and leaves the pool worth at least as much,
\* on all three curves, for every amount and every schedule of fees that was validated.
THEOREM SwapKeepsValue ==
  ASSUME NEW curve \in Curves, ValidCurve(curve), NEW fees \in FeeSchedules,
         NEW amount \in Nat, NEW a \in Nat, NEW b \in Nat, NEW AtoB \in BOOLEAN,
         NEW r, r = SwapResult(curve, fees, amount, a, b, AtoB), r.in # None
  PROVE  /\ r.in \in 0..amount
         /\ r.out \in 0..(IF AtoB THEN b ELSE a)
         /\ Worth(curve, IF AtoB THEN a + r.in ELSE a - r.out,
                         IF AtoB THEN b - r.out ELSE b + r.in) >= Worth(curve, a, b)
<1> DEFINE owner == CalculateFee(amount, fees.ownerTrade)
           total == CalculateFee(amount, fees.trade) + owner
           swapped == SwapWithoutFees(curve, amount - total, a, b, AtoB)
           in == swapped[1]
           out == swapped[2]
<1>1. owner \in Nat /\ total \in Nat
  <2>1. fees.ownerTrade \in Fractions /\ fees.trade \in Fractions
    BY DEF FeeSchedules
  <2> QED BY <2>1, FeeIsNatural
<1>2. /\ ~(total > amount \/ swapped = NoSwap \/ swapped[2] > (IF AtoB THEN b ELSE a))
      /\ r = [in |-> swapped[1] + total, out |-> swapped[2], ownerFee |-> owner]
  BY DEF SwapResult, None
<1>3. swapped = <<in, out>>
  BY DEF SwapWithoutFees, PriceSwap, ProductSwap, NoSwap
<1> HIDE DEF owner, total, swapped, in, out
<1>4. amount - total \in Nat /\ total <= amount
  BY <1>1, <1>2
<1>5. SwapWithoutFees(curve, amount - total, a, b, AtoB) = <<in, out>> /\ <<in, out>> # NoSwap
  BY <1>2, <1>3 DEF swapped
<1>6. ~(out > (IF AtoB THEN b ELSE a))
  BY <1>2 DEF out
<1>7. in \in 0..(amount - total) /\ out \in Nat
  BY <1>4, <1>5, SwapAmounts
<1>8. out <= (IF AtoB THEN b ELSE a)
  BY <1>6, <1>7
<1>9. Worth(curve, IF AtoB THEN a + in + total ELSE a - out,
                   IF AtoB THEN b - out ELSE b + in + total) >= Worth(curve, a, b)
  BY <1>1, <1>4, <1>5, <1>8, CurveNeverFalls
<1>10. r.in = in + total /\ r.out = out
  BY <1>2 DEF in, out
<1>11. /\ a + r.in = a + in + total /\ b + r.in = b + in + total
       /\ r.in \in 0..amount /\ r.out \in 0..(IF AtoB THEN b ELSE a)
  BY <1>1, <1>4, <1>7, <1>8, <1>10
<1> QED BY <1>9, <1>10, <1>11

\* If either side keeps its share, so does the product.
LEMMA SquareOfShares ==
  ASSUME NEW x \in Nat, NEW y \in Nat, NEW u \in Nat, NEW v \in Nat,
         NEW before \in Nat, NEW after \in Nat,
         x * before >= u * after, y * before >= v * after
  PROVE  (x * y) * (before * before) >= (u * v) * (after * after)
<1> DEFINE xs == x * before
           ys == y * before
           ut == u * after
           vt == v * after
<1>1. xs \in Nat /\ ys \in Nat /\ ut \in Nat /\ vt \in Nat /\ ut <= xs /\ vt <= ys
  OBVIOUS
<1>2. (x * y) * (before * before) = xs * ys
  OBVIOUS
<1>3. (u * v) * (after * after) = ut * vt
  OBVIOUS
<1> HIDE DEF xs, ys, ut, vt
<1>4. ut * ys <= xs * ys
  BY <1>1, Products
<1>5. vt * ut <= ys * ut /\ vt * ut = ut * vt /\ ys * ut = ut * ys
  BY <1>1, Products
<1>6. ut * vt \in Nat /\ ut * ys \in Nat /\ xs * ys \in Nat
  BY <1>1
<1> QED BY <1>2, <1>3, <1>4, <1>5, <1>6

\* pool_tokens_to_trading_tokens of the product: a share rounded down is at most the
\* exact one, and one rounded up at least, unless it is 0, which a deposit rejects.
LEMMA ShareRounding ==
  ASSUME NEW tokens \in Nat, NEW supply \in Nat \ {0}, NEW amount \in Nat, NEW up \in BOOLEAN
  PROVE  /\ Share(tokens, supply, amount, up) \in Nat
         /\ ~up => Share(tokens, supply, amount, up) * supply <= tokens * amount
         /\ up /\ Share(tokens, supply, amount, up) # 0 =>
              Share(tokens, supply, amount, up) * supply >= tokens * amount
<1> DEFINE n == tokens * amount
           q == n \div supply
           rest == n % supply
           m == q * supply
           share == Share(tokens, supply, amount, up)
<1>1. n \in Nat
  OBVIOUS
<1>2. share = q + (IF up /\ rest > 0 /\ q > 0 THEN 1 ELSE 0)
  BY DEF Share
<1>3. q \in Nat /\ rest \in 0..(supply - 1) /\ n = supply * q + rest
  <2> HIDE DEF n
  <2> QED BY <1>1, Division
<1> HIDE DEF q, rest
<1>4. m \in Nat /\ supply * q = m /\ (q + 1) * supply = m + supply /\ (q = 0 => m = 0)
  BY <1>3
<1> HIDE DEF n, m, share
<1>5. n = m + rest
  BY <1>3, <1>4
<1>6. CASE up /\ rest > 0 /\ q > 0
  <2>1. share = q + 1 /\ m + supply >= n
    BY <1>2, <1>3, <1>4, <1>5, <1>6
  <2>2. share * supply = m + supply
    BY <1>4, <2>1
  <2>3. share \in Nat /\ share * supply >= n
    BY <1>3, <2>1, <2>2
  <2> QED BY <1>6, <2>3 DEF n, share
<1>7. CASE ~(up /\ rest > 0 /\ q > 0)
  <2>1. share = q /\ share * supply = m
    BY <1>2, <1>3, <1>7 DEF m
  <2>2. m <= n /\ (up /\ q # 0 => m >= n)
    BY <1>3, <1>4, <1>5, <1>7
  <2>3. share \in Nat /\ share * supply <= n /\ (up /\ share # 0 => share * supply >= n)
    BY <1>3, <2>1, <2>2
  <2> QED BY <2>3 DEF n, share
<1> QED BY <1>6, <1>7

\* withdraw_all_token_types: whoever burns pool tokens, whatever part, leaves those who
\* stay with at least their share of a product, and of a constant-price pool all but the
\* token its normalized value drops.  ValuePerShareKept says this of the step.
THEOREM WithdrawKeepsShare ==
  ASSUME NEW curve \in Curves, ValidCurve(curve), AllowsDeposits(curve),
         NEW supply \in Nat \ {0}, NEW tokens \in 0..supply, NEW a \in Nat, NEW b \in Nat,
         NEW dueA, NEW dueB,
         PoolTokensToTradingTokens(curve, tokens, supply, a, b, FALSE) = <<dueA, dueB>>
  PROVE  /\ Smaller(a, dueA) \in 0..a /\ Smaller(b, dueB) \in 0..b
         /\ Worth(curve, a - Smaller(a, dueA), b - Smaller(b, dueB)) * Power(curve, supply)
              >= Normalized(curve, Worth(curve, a, b)) * Power(curve, supply - tokens)
<1> DEFINE outA == Smaller(a, dueA)
           outB == Smaller(b, dueB)
           rest == supply - tokens
<1>1. rest \in Nat /\ tokens \in Nat /\ rest + tokens = supply
  OBVIOUS
<1> SUFFICES /\ outA \in 0..a /\ outB \in 0..b
             /\ Worth(curve, a - outA, b - outB) * Power(curve, supply)
                  >= Normalized(curve, Worth(curve, a, b)) * Power(curve, rest)
  OBVIOUS
<1>2. ASSUME dueA \in Nat, dueB \in Nat
      PROVE  outA \in 0..a /\ outA <= dueA /\ outB \in 0..b /\ outB <= dueB
  BY <1>2 DEF Smaller
<1> HIDE DEF outA, outB, rest
<1>3. CASE curve.type # "price"
  <2>1. OffsetOf(curve) = 0
    BY <1>3 DEF Curves, AllowsDeposits, OffsetOf
  <2>2. dueA = Share(tokens, supply, a, FALSE) /\ dueB = Share(tokens, supply, b, FALSE)
    <3>1. b + OffsetOf(curve) = b
      BY <2>1
    <3>2. ProductTradingTokens(tokens, supply, a, b, FALSE) = <<dueA, dueB>>
      BY <1>3, <3>1 DEF PoolTokensToTradingTokens
    <3> QED BY <3>2 DEF ProductTradingTokens
  <2>3. /\ dueA \in Nat /\ dueA * supply <= tokens * a
        /\ dueB \in Nat /\ dueB * supply <= tokens * b
    BY <1>1, <2>2, ShareRounding
  <2>4. ASSUME NEW h \in Nat, NEW due \in Nat, NEW out \in 0..h, out <= due,
               due * supply <= tokens * h
        PROVE  (h - out) * supply >= h * rest
    <3>1. (h - out) * supply = h * supply - out * supply
      OBVIOUS
    <3>2. h * supply = h * rest + tokens * h
      BY <1>1
    <3>3. out * supply <= due * supply
      BY <2>4, Products
    <3>4. /\ h * rest \in Nat /\ tokens * h \in Nat /\ out * supply \in Nat
          /\ due * supply \in Nat /\ h * supply \in Nat
      BY <1>1
    <3> QED BY <2>4, <3>1, <3>2, <3>3, <3>4
  <2>5. outA \in 0..a /\ outA <= dueA /\ outB \in 0..b /\ outB <= dueB
    BY <1>2, <2>3
  <2>6. (a - outA) * supply >= a * rest /\ (b - outB) * supply >= b * rest
    BY <2>3, <2>4, <2>5
  <2>7. a - outA \in Nat /\ b - outB \in Nat
    BY <2>5
  <2>8. ((a - outA) * (b - outB)) * (supply * supply) >= (a * b) * (rest * rest)
    BY <1>1, <2>6, <2>7, SquareOfShares
  <2>9. /\ Worth(curve, a - outA, b - outB) = (a - outA) * (b - outB)
        /\ Normalized(curve, Worth(curve, a, b)) = a * b
        /\ Power(curve, supply) = supply * supply /\ Power(curve, rest) = rest * rest
    BY <1>3, <2>1, <2>7 DEF Worth, Normalized, Power
  <2> QED BY <2>5, <2>8, <2>9
<1>4. CASE curve.type = "price"
  <2> DEFINE price == curve.param
             worth == a + price * b
             half == worth \div 2
             given == tokens * half
             inB == given \div price
  <2>1. price \in Nat \ {0} /\ worth \in Nat
    BY <1>4 DEF Curves, ValidCurve
  <2>2. half \in Nat /\ 2 * half <= worth
    <3> HIDE DEF worth
    <3> QED BY <2>1, DivisionDown
  <2>3. given \in Nat
    BY <1>1, <2>2
  <2>4. dueA = given \div supply /\ dueB = inB \div supply
    <3>1. a + b * price = worth
      BY <2>1
    <3> QED BY <1>4, <3>1 DEF PoolTokensToTradingTokens, PriceTradingTokens
  <2>5. /\ \A x, y : Worth(curve, x, y) = x + price * y
        /\ Normalized(curve, Worth(curve, a, b)) = 2 * half
        /\ Power(curve, supply) = supply /\ Power(curve, rest) = rest
    BY <1>4 DEF Worth, Normalized, Power
  <2> HIDE DEF price, worth, half, given, inB
  <2>6. inB \in Nat /\ price * inB <= given
    BY <2>1, <2>3, DivisionDown DEF inB
  <2>7. dueA \in Nat /\ supply * dueA <= given /\ dueB \in Nat /\ supply * dueB <= inB
    BY <2>3, <2>4, <2>6, DivisionDown
  <2>8. outA \in 0..a /\ outA <= dueA /\ outB \in 0..b /\ outB <= dueB
    BY <1>2, <2>7
  <2>9. outA * supply <= given
    <3>1. outA * supply <= dueA * supply /\ dueA * supply = supply * dueA
      BY <2>7, <2>8, Products
    <3>2. outA * supply \in Nat /\ supply * dueA \in Nat
      BY <2>7, <2>8
    <3> QED BY <2>3, <2>7, <3>1, <3>2
  <2>10. (price * outB) * supply <= given
    <3>1. outB * supply <= dueB * supply /\ dueB * supply = supply * dueB
      BY <2>7, <2>8, Products
    <3>2. outB * supply \in Nat /\ supply * dueB \in Nat
      BY <2>7, <2>8
    <3>3. outB * supply <= inB
      BY <2>6, <2>7, <3>1, <3>2
    <3>4. (outB * supply) * price <= inB * price
      BY <2>1, <2>6, <3>2, <3>3, Products
    <3>5. (outB * supply) * price = (price * outB) * supply /\ inB * price = price * inB
      BY <2>1, <2>6, <2>8
    <3>6. (price * outB) * supply \in Nat /\ price * inB \in Nat
      BY <2>1, <2>6, <2>8
    <3> QED BY <2>3, <2>6, <3>4, <3>5, <3>6
  <2>11. ((a - outA) + price * (b - outB)) * supply
           = worth * supply - outA * supply - (price * outB) * supply
    BY <2>1, <2>8 DEF worth
  <2>12. worth * supply >= (2 * half) * supply
    BY <2>1, <2>2, Products
  <2>13. (2 * half) * supply = (2 * half) * rest + given + given
    BY <1>1, <2>2 DEF given
  <2>14. /\ worth * supply \in Nat /\ outA * supply \in Nat /\ (price * outB) * supply \in Nat
         /\ (2 * half) * supply \in Nat /\ (2 * half) * rest \in Nat
    BY <1>1, <2>1, <2>2, <2>8
  <2>15. ((a - outA) + price * (b - outB)) * supply >= (2 * half) * rest
    BY <2>3, <2>9, <2>10, <2>11, <2>12, <2>13, <2>14
  <2> QED BY <2>5, <2>8, <2>15
<1> QED BY <1>3, <1>4

\* deposit_all_token_types: pool tokens cost at least their share.  The handler rejects
\* a deposit that comes to 0 on a side, and must: rounding up starts from 1.
THEOREM DepositKeepsShare ==
  ASSUME NEW curve \in Curves, ValidCurve(curve), AllowsDeposits(curve),
         NEW supply \in Nat \ {0}, NEW tokens \in Nat, NEW a \in Nat, NEW b \in Nat,
         NEW dueA, NEW dueB, dueA # 0, dueB # 0,
         PoolTokensToTradingTokens(curve, tokens, supply, a, b, TRUE) = <<dueA, dueB>>
  PROVE  /\ dueA \in Nat /\ dueB \in Nat
         /\ Worth(curve, a + dueA, b + dueB) * Power(curve, supply)
              >= Normalized(curve, Worth(curve, a, b)) * Power(curve, supply + tokens)
<1> DEFINE sum == supply + tokens
<1>1. sum \in Nat /\ sum = supply + tokens
  OBVIOUS
<1> HIDE DEF sum
<1> SUFFICES /\ dueA \in Nat /\ dueB \in Nat
             /\ Worth(curve, a + dueA, b + dueB) * Power(curve, supply)
                  >= Normalized(curve, Worth(curve, a, b)) * Power(curve, sum)
  BY DEF sum
<1>2. CASE curve.type # "price"
  <2>1. OffsetOf(curve) = 0
    BY <1>2 DEF Curves, AllowsDeposits, OffsetOf
  <2>2. dueA = Share(tokens, supply, a, TRUE) /\ dueB = Share(tokens, supply, b, TRUE)
    <3>1. b + OffsetOf(curve) = b
      BY <2>1
    <3>2. ProductTradingTokens(tokens, supply, a, b, TRUE) = <<dueA, dueB>>
      BY <1>2, <3>1 DEF PoolTokensToTradingTokens
    <3> QED BY <3>2 DEF ProductTradingTokens
  <2>3. /\ dueA \in Nat /\ dueA * supply >= tokens * a
        /\ dueB \in Nat /\ dueB * supply >= tokens * b
    BY <2>2, ShareRounding
  <2>4. ASSUME NEW h \in Nat, NEW due \in Nat, due * supply >= tokens * h
        PROVE  (h + due) * supply >= h * sum
    <3>1. (h + due) * supply = h * supply + due * supply
      OBVIOUS
    <3>2. h * sum = h * supply + tokens * h
      BY <1>1
    <3>3. h * supply \in Nat /\ tokens * h \in Nat /\ due * supply \in Nat
      OBVIOUS
    <3> QED BY <2>4, <3>1, <3>2, <3>3
  <2>5. (a + dueA) * supply >= a * sum /\ (b + dueB) * supply >= b * sum
    BY <2>3, <2>4
  <2>6. a + dueA \in Nat /\ b + dueB \in Nat
    BY <2>3
  <2>7. ((a + dueA) * (b + dueB)) * (supply * supply) >= (a * b) * (sum * sum)
    BY <1>1, <2>5, <2>6, SquareOfShares
  <2>8. /\ Worth(curve, a + dueA, b + dueB) = (a + dueA) * (b + dueB)
        /\ Normalized(curve, Worth(curve, a, b)) = a * b
        /\ Power(curve, supply) = supply * supply /\ Power(curve, sum) = sum * sum
    BY <1>2, <2>1, <2>6 DEF Worth, Normalized, Power
  <2> QED BY <2>3, <2>7, <2>8
<1>3. CASE curve.type = "price"
  <2> DEFINE price == curve.param
             worth == a + price * b
             half == worth \div 2
             given == tokens * half
             inB == CeilDiv(given, price)
  <2>1. price \in Nat \ {0} /\ worth \in Nat
    BY <1>3 DEF Curves, ValidCurve
  <2>2. half \in Nat /\ 2 * half <= worth
    <3> HIDE DEF worth
    <3> QED BY <2>1, DivisionDown
  <2>3. given \in Nat
    BY <2>2
  <2>4. dueA = CeilDiv(given, supply) /\ dueB = CeilDiv(inB, supply)
    <3>1. a + b * price = worth
      BY <2>1
    <3> QED BY <1>3, <3>1 DEF PoolTokensToTradingTokens, PriceTradingTokens
  <2>5. /\ \A x, y : Worth(curve, x, y) = x + price * y
        /\ Normalized(curve, Worth(curve, a, b)) = 2 * half
        /\ Power(curve, supply) = supply /\ Power(curve, sum) = sum
    BY <1>3 DEF Worth, Normalized, Power
  <2> HIDE DEF price, worth, half, given, inB
  <2>6. inB \in Nat /\ (inB # 0 => given <= inB * price)
    BY <2>1, <2>3, DivisionUp DEF inB
  <2>7. dueA \in Nat /\ given <= dueA * supply /\ dueB \in Nat /\ inB <= dueB * supply /\ inB # 0
    BY <2>3, <2>4, <2>6, DivisionUp
  <2>8. given <= (price * dueB) * supply
    <3>1. dueB * supply \in Nat /\ inB * price \in Nat /\ (dueB * supply) * price \in Nat
      BY <2>1, <2>6, <2>7
    <3>2. inB * price <= (dueB * supply) * price
      BY <2>1, <2>6, <2>7, <3>1, Products
    <3>3. (dueB * supply) * price = (price * dueB) * supply
      BY <2>1, <2>7
    <3> QED BY <2>3, <2>6, <2>7, <3>1, <3>2, <3>3
  <2>9. ((a + dueA) + price * (b + dueB)) * supply
           = worth * supply + dueA * supply + (price * dueB) * supply
    BY <2>1, <2>7 DEF worth
  <2>10. worth * supply >= (2 * half) * supply
    BY <2>1, <2>2, Products
  <2>11. (2 * half) * sum = (2 * half) * supply + given + given
    BY <1>1, <2>2 DEF given
  <2>12. /\ worth * supply \in Nat /\ dueA * supply \in Nat /\ (price * dueB) * supply \in Nat
         /\ (2 * half) * supply \in Nat
    BY <2>1, <2>2, <2>7
  <2>13. ((a + dueA) + price * (b + dueB)) * supply >= (2 * half) * sum
    BY <2>3, <2>7, <2>8, <2>9, <2>10, <2>11, <2>12
  <2> QED BY <2>5, <2>7, <2>13
<1> QED BY <1>2, <1>3

\* pre_fee_amount of fees.rs adds to the amount, unless the fraction is the whole.
LEMMA PreFeeIsMore ==
  ASSUME NEW amount \in Nat, NEW n \in Nat, NEW d \in Nat, NEW pre,
         n = d => n = 0, pre = PreFeeAmount(amount, <<n, d>>), pre # None
  PROVE  pre \in Nat /\ pre >= amount
<1>1. CASE n = 0 \/ d = 0 \/ amount = 0
  BY <1>1 DEF PreFeeAmount
<1>2. CASE n # 0 /\ d # 0 /\ amount # 0
  <2> DEFINE gap == d - n
             scaled == amount * d + d - n - 1
  <2>1. gap \in Nat \ {0} /\ pre = scaled \div gap
    BY <1>2 DEF PreFeeAmount
  <2>2. /\ amount * d = amount * gap + amount * n
        /\ amount * d \in Nat /\ amount * gap \in Nat /\ amount * n \in Nat
    BY <2>1
  <2>3. scaled \in Nat /\ scaled >= amount * gap + gap - 1
    BY <2>1, <2>2
  <2> HIDE DEF gap, scaled
  <2>4. /\ pre \in Nat
        /\ scaled % gap \in 0..(gap - 1) /\ scaled = gap * pre + (scaled % gap)
    BY <2>1, <2>3, Division
  <2>5. ASSUME pre < amount PROVE FALSE
    <3> DEFINE k == amount - pre - 1
    <3>1. k \in Nat /\ amount = pre + k + 1
      BY <2>4, <2>5
    <3> HIDE DEF k
    <3>2. amount * gap = gap * pre + k * gap + gap
      BY <2>1, <2>4, <3>1
    <3>3. k * gap \in Nat /\ gap * pre \in Nat
      BY <2>1, <2>4, <3>1
    <3> DEFINE rest == scaled % gap
    <3>4. rest \in 0..(gap - 1) /\ scaled = gap * pre + rest
      BY <2>4
    <3> HIDE DEF rest
    <3>5. gap * pre + rest >= (gap * pre + k * gap + gap) + gap - 1
      BY <2>3, <3>2, <3>4
    <3> QED BY <2>1, <3>3, <3>4, <3>5
  <2> QED BY <2>4, <2>5
<1> QED BY <1>1, <1>2

\* The two trading fees together are not the whole: nothing in Fees::validate checks
\* this, and without it pre_trading_fee_amount is 0.
FeesLeaveSomething(fees) ==
  LET t == fees.trade
      o == fees.ownerTrade
  IN t[1] * o[2] + o[1] * t[2] # t[2] * o[2] \/ t[1] * o[2] + o[1] * t[2] = 0

\* deposit_single_token_type on a constant-price pool: the tokens minted for what is
\* left after the fees are worth no more than what was paid, on either side.
THEOREM PriceDepositKeepsShare ==
  ASSUME NEW curve \in Curves, ValidCurve(curve), curve.type = "price", NEW fees \in FeeSchedules,
         NEW supply \in Nat \ {0}, NEW amount \in Nat, NEW a \in Nat, NEW b \in Nat,
         NEW AtoB \in BOOLEAN, NEW tokens,
         tokens = DepositSingle(curve, fees, amount, a, b, supply, AtoB), tokens # None
  PROVE  /\ tokens \in Nat
         /\ Worth(curve, IF AtoB THEN a + amount ELSE a, IF AtoB THEN b ELSE b + amount)
              * Power(curve, supply)
              >= Normalized(curve, Worth(curve, a, b)) * Power(curve, supply + tokens)
<1> DEFINE price == curve.param
           half == Larger(1, amount \div 2)
           total == CalculateFee(half, fees.trade) + CalculateFee(half, fees.ownerTrade)
           paid == amount - total
           worth == a + price * b
           sent(n) == IF AtoB THEN n ELSE n * price
<1>1. price \in Nat \ {0} /\ worth \in Nat
  BY DEF Curves, ValidCurve
<1>2. total \in Nat
  <2>1. half \in Nat
    BY DivisionDown DEF Larger
  <2>2. fees.ownerTrade \in Fractions /\ fees.trade \in Fractions
    BY DEF FeeSchedules
  <2> QED BY <2>1, <2>2, FeeIsNatural
<1>3. /\ \A x, y : Worth(curve, x, y) = x + price * y
      /\ \A w : Normalized(curve, w) = 2 * (w \div 2)
      /\ \A n : Power(curve, n) = n
  BY DEF Worth, Normalized, Power
<1>4. 2 * (worth \div 2) \in Nat /\ 2 * (worth \div 2) <= worth
  <2> HIDE DEF worth
  <2> QED BY <1>1, DivisionDown
<1>5. \A n \in Nat : sent(n) \in Nat
  BY <1>1
<1>6. Worth(curve, IF AtoB THEN a + amount ELSE a, IF AtoB THEN b ELSE b + amount) = worth + sent(amount)
  BY <1>1, <1>3
<1>7. tokens \in Nat /\ tokens * worth <= supply * sent(amount)
  <2>1. CASE amount = 0
    BY <1>1, <1>5, <2>1 DEF DepositSingle
  <2>2. CASE amount # 0
    <3>1. total <= amount /\ tokens = DepositTokens(curve, paid, a, b, supply, AtoB)
      BY <1>2, <2>2 DEF DepositSingle
    <3> HIDE DEF total
    <3>2. paid \in Nat /\ paid <= amount
      BY <1>2, <3>1
    <3>3. b * price + a = worth
      BY <1>1
    <3> HIDE DEF paid
    <3>4. tokens = PricePoolTokens(paid, price, AtoB, a, b, supply, FALSE)
      BY <3>1 DEF DepositTokens
    <3>5. worth # 0 /\ tokens = (supply * sent(paid)) \div worth
      BY <3>3, <3>4 DEF PricePoolTokens
    <3>6. sent(paid) \in Nat /\ sent(amount) \in Nat /\ sent(paid) <= sent(amount)
      BY <1>1, <1>5, <3>2, Products
    <3> HIDE DEF sent, worth
    <3>7. supply * sent(paid) \in Nat
      BY <3>6
    <3>8. tokens \in Nat /\ worth * tokens <= supply * sent(paid)
      BY <1>1, <3>5, <3>7, DivisionDown
    <3>9. sent(paid) * supply <= sent(amount) * supply
      BY <3>6, Products
    <3>10. /\ sent(paid) * supply = supply * sent(paid) /\ sent(amount) * supply = supply * sent(amount)
           /\ tokens * worth = worth * tokens
           /\ worth * tokens \in Nat /\ supply * sent(amount) \in Nat
      BY <1>1, <3>6, <3>8
    <3> QED BY <3>7, <3>8, <3>9, <3>10
  <2> QED BY <2>1, <2>2
<1> DEFINE kept == 2 * (worth \div 2)
           add == sent(amount)
<1>8. add \in Nat /\ kept \in Nat /\ kept <= worth
  BY <1>4, <1>5
<1> HIDE DEF kept, worth, sent, add
<1>9. (worth + add) * supply >= kept * (supply + tokens)
  <2>1. kept * (supply + tokens) <= worth * (supply + tokens)
    <3>1. supply + tokens \in Nat
      BY <1>7
    <3> QED BY <1>1, <1>8, <3>1, Products
  <2>2. /\ worth * (supply + tokens) = worth * supply + tokens * worth
        /\ (worth + add) * supply = worth * supply + supply * add
        /\ tokens * worth <= supply * add
    BY <1>1, <1>7, <1>8 DEF add
  <2>3. /\ worth * supply \in Nat /\ tokens * worth \in Nat /\ supply * add \in Nat
        /\ kept * (supply + tokens) \in Nat
    BY <1>1, <1>7, <1>8
  <2> QED BY <2>1, <2>2, <2>3
<1> QED BY <1>3, <1>6, <1>7, <1>9 DEF kept, add, worth

\* withdraw_single_token_type_exact_out on a constant-price pool: the tokens burnt are
\* worth at least what was taken out, whatever the fees, if they leave something.
THEOREM PriceWithdrawKeepsShare ==
  ASSUME NEW curve \in Curves, ValidCurve(curve), curve.type = "price",
         NEW fees \in FeeSchedules, FeesLeaveSomething(fees),
         NEW supply \in Nat \ {0}, NEW a \in Nat, NEW b \in Nat, NEW AtoB \in BOOLEAN,
         NEW amount \in 0..(IF AtoB THEN a ELSE b), NEW tokens,
         tokens = WithdrawSingle(curve, fees, amount, a, b, supply, AtoB), tokens \in 1..supply
  PROVE  Worth(curve, IF AtoB THEN a - amount ELSE a, IF AtoB THEN b ELSE b - amount)
           * Power(curve, supply)
           >= Normalized(curve, Worth(curve, a, b)) * Power(curve, supply - tokens)
<1> DEFINE price == curve.param
           half == (amount + 1) \div 2
           pre == PreTradingFeeAmount(half, fees)
           charged == amount - half + pre
           worth == a + price * b
           sent(n) == IF AtoB THEN n ELSE n * price
<1>1. price \in Nat \ {0} /\ worth \in Nat /\ amount \in Nat
  BY DEF Curves, ValidCurve
<1>2. half \in Nat
  BY <1>1, DivisionDown
<1>3. pre # None /\ tokens = WithdrawTokens(curve, charged, a, b, supply, AtoB, TRUE)
  <2>1. tokens # 0 /\ tokens # None
    BY DEF None
  <2>2. tokens = IF amount = 0 THEN 0 ELSE IF pre = None THEN None
                 ELSE WithdrawTokens(curve, charged, a, b, supply, AtoB, TRUE)
    BY Zenon DEF WithdrawSingle
  <2> HIDE DEF pre, charged
  <2> QED BY <2>1, <2>2, Zenon
<1>4. pre \in Nat /\ pre >= half
  <2> HIDE DEF half
  <2> DEFINE t == fees.trade
             o == fees.ownerTrade
  <2>1. t \in Fractions /\ o \in Fractions
    BY DEF FeeSchedules
  <2>2. /\ t = <<t[1], t[2]>> /\ t[1] \in Nat /\ t[2] \in Nat /\ (t[1] = t[2] => t[1] = 0)
        /\ o = <<o[1], o[2]>> /\ o[1] \in Nat /\ o[2] \in Nat /\ (o[1] = o[2] => o[1] = 0)
    BY <2>1 DEF Fractions, ValidateFraction
  <2> DEFINE n == t[1] * o[2] + o[1] * t[2]
             d == t[2] * o[2]
  <2>3. n \in Nat /\ d \in Nat /\ (n = d => n = 0)
    <3>1. n # d \/ n = 0
      BY DEF FeesLeaveSomething
    <3> QED BY <2>2, <3>1
  <2>4. CASE None0(t)
    <3>1. pre = PreFeeAmount(half, <<o[1], o[2]>>)
      BY <2>2, <2>4 DEF PreTradingFeeAmount
    <3> HIDE DEF o, pre
    <3> QED BY <1>2, <1>3, <2>2, <3>1, PreFeeIsMore
  <2>5. CASE ~None0(t) /\ None0(o)
    <3>1. pre = PreFeeAmount(half, <<t[1], t[2]>>)
      BY <2>2, <2>5 DEF PreTradingFeeAmount
    <3> HIDE DEF t, pre
    <3> QED BY <1>2, <1>3, <2>2, <3>1, PreFeeIsMore
  <2>6. CASE ~None0(t) /\ ~None0(o)
    <3>1. pre = PreFeeAmount(half, <<n, d>>)
      BY <2>6 DEF PreTradingFeeAmount
    <3> HIDE DEF n, d, pre
    <3> QED BY <1>2, <1>3, <2>3, <3>1, PreFeeIsMore
  <2> QED BY <2>4, <2>5, <2>6
<1>5. charged \in Nat /\ charged >= amount
  <2>1. half <= amount \/ half = 0 \/ amount - half + pre >= amount
    BY <1>1, <1>2, <1>4
  <2> HIDE DEF half, pre
  <2> QED BY <1>1, <1>2, <1>4
<1> HIDE DEF half, pre, charged
<1>6. /\ \A x, y : Worth(curve, x, y) = x + price * y
      /\ \A w : Normalized(curve, w) = 2 * (w \div 2)
      /\ \A n : Power(curve, n) = n
  BY DEF Worth, Normalized, Power
<1> DEFINE kept == 2 * (worth \div 2)
           less == sent(amount)
<1>7. kept \in Nat /\ kept <= worth
  <2> HIDE DEF worth
  <2> QED BY <1>1, DivisionDown
<1>8. /\ less \in Nat /\ sent(charged) \in Nat /\ less <= sent(charged)
      /\ Worth(curve, IF AtoB THEN a - amount ELSE a, IF AtoB THEN b ELSE b - amount) = worth - less
  <2>1. less \in Nat /\ sent(charged) \in Nat /\ less <= sent(charged)
    BY <1>1, <1>5, Products
  <2>2. Worth(curve, IF AtoB THEN a - amount ELSE a, IF AtoB THEN b ELSE b - amount) = worth - less
    BY <1>1, <1>6
  <2> QED BY <2>1, <2>2
<1>9. supply * sent(charged) <= tokens * worth
  <2>1. b * price + a = worth
    BY <1>1
  <2>2. tokens = PricePoolTokens(charged, price, AtoB, a, b, supply, TRUE)
    BY <1>3 DEF WithdrawTokens
  <2>3. worth # 0 /\ tokens = CeilDiv(supply * sent(charged), worth)
    BY <2>1, <2>2 DEF PricePoolTokens, None
  <2> HIDE DEF sent, worth
  <2>4. supply * sent(charged) \in Nat
    BY <1>8
  <2> QED BY <1>1, <2>3, <2>4, DivisionUp
<1> DEFINE rest == supply - tokens
<1>10. rest \in Nat /\ tokens \in Nat /\ rest + tokens = supply
  OBVIOUS
<1> HIDE DEF kept, worth, sent, less, rest
<1>11. (worth - less) * supply >= kept * rest
  <2>1. kept * rest <= worth * rest
    BY <1>1, <1>7, <1>10, Products
  <2>2. /\ (worth - less) * supply = worth * supply - less * supply
        /\ worth * supply = worth * rest + tokens * worth
    <3>1. (worth - less) * supply = worth * supply - less * supply
      BY <1>1, <1>8
    <3>2. worth * (rest + tokens) = worth * rest + tokens * worth
      BY <1>1, <1>10
    <3> QED BY <1>10, <3>1, <3>2
  <2>3. less * supply <= sent(charged) * supply
    BY <1>8, Products
  <2>4. /\ worth * rest \in Nat /\ tokens * worth \in Nat /\ less * supply \in Nat
        /\ sent(charged) * supply \in Nat /\ kept * rest \in Nat
    BY <1>1, <1>7, <1>8, <1>10
  <2>5. supply * sent(charged) = sent(charged) * supply
    BY <1>8
  <2> QED BY <1>9, <2>1, <2>2, <2>3, <2>4, <2>5
<1> QED BY <1>6, <1>8, <1>11 DEF kept, worth, rest

\* swap on a constant-price pool: the pool tokens minted for the owner's part of the
\* fee, at the value after the swap, take nothing from the others.
THEOREM PriceSwapKeepsShare ==
  ASSUME NEW curve \in Curves, ValidCurve(curve), curve.type = "price", NEW fees \in FeeSchedules,
         NEW supply \in Nat \ {0}, NEW amount \in Nat, NEW a \in Nat, NEW b \in Nat,
         NEW AtoB \in BOOLEAN, NEW r, NEW a2, NEW b2, NEW minted,
         r = SwapResult(curve, fees, amount, a, b, AtoB), r.in # None,
         a2 = (IF AtoB THEN a + r.in ELSE a - r.out),
         b2 = (IF AtoB THEN b - r.out ELSE b + r.in)
  PROVE  /\ minted = IF r.ownerFee = 0 THEN 0
                     ELSE WithdrawTokens(curve, r.ownerFee, a2, b2, supply, AtoB, FALSE)
         /\ minted # None
         => /\ minted \in Nat
            /\ Worth(curve, a2, b2) * Power(curve, supply)
                 >= Normalized(curve, Worth(curve, a, b)) * Power(curve, supply + minted)
<1> DEFINE price == curve.param
           owner == CalculateFee(amount, fees.ownerTrade)
           trade == CalculateFee(amount, fees.trade)
           total == trade + owner
           swapped == SwapWithoutFees(curve, amount - total, a, b, AtoB)
           in == swapped[1]
           out == swapped[2]
           sent(n) == IF AtoB THEN n ELSE n * price
           before == a + price * b
           after == a2 + price * b2
<1>1. price \in Nat \ {0} /\ before \in Nat
  BY DEF Curves, ValidCurve
<1>2. owner \in Nat /\ trade \in Nat /\ total \in Nat
  <2>1. fees.ownerTrade \in Fractions /\ fees.trade \in Fractions
    BY DEF FeeSchedules
  <2> QED BY <2>1, FeeIsNatural
<1>3. /\ ~(total > amount \/ swapped = NoSwap \/ swapped[2] > (IF AtoB THEN b ELSE a))
      /\ r = [in |-> swapped[1] + total, out |-> swapped[2], ownerFee |-> owner]
  BY DEF SwapResult, None
<1>4. swapped = <<in, out>>
  BY DEF SwapWithoutFees, PriceSwap, ProductSwap, NoSwap
<1> HIDE DEF owner, trade, swapped, in, out
<1>5. amount - total \in Nat /\ total <= amount
  BY <1>2, <1>3
<1>6. SwapWithoutFees(curve, amount - total, a, b, AtoB) = <<in, out>> /\ <<in, out>> # NoSwap
  BY <1>3, <1>4 DEF swapped
<1> HIDE DEF total
<1>7. in \in 0..(amount - total) /\ out \in Nat
  BY <1>5, <1>6, SwapAmounts
<1>8. out <= (IF AtoB THEN b ELSE a)
  BY <1>3, <1>7 DEF out
<1>9. r.in = in + trade + owner /\ r.out = out /\ r.ownerFee = owner
  BY <1>2, <1>3, <1>7 DEF in, out, total
<1>10. /\ \A x, y : Worth(curve, x, y) = x + price * y
       /\ \A w : Normalized(curve, w) = 2 * (w \div 2)
       /\ \A n : Power(curve, n) = n
  BY DEF Worth, Normalized, Power
<1>11. /\ a2 \in Nat /\ b2 \in Nat /\ after \in Nat /\ sent(owner) \in Nat
       /\ after >= before + sent(owner)
  <2>1. Worth(curve, IF AtoB THEN a + in + trade ELSE a - out,
                     IF AtoB THEN b - out ELSE b + in + trade) >= Worth(curve, a, b)
    BY <1>2, <1>5, <1>6, <1>8, CurveNeverFalls
  <2> HIDE DEF price
  <2>2. CASE AtoB
    <3>1. a2 = a + in + trade + owner /\ b2 = b - out
      BY <1>2, <1>7, <1>9, <2>2
    <3>2. a2 \in Nat /\ b2 \in Nat
      <4>1. out <= b
        BY <1>8, <2>2
      <4>2. b - out \in Nat
        BY <1>7, <4>1
      <4>3. a + in + trade + owner \in Nat
        BY <1>2, <1>7
      <4> QED BY <3>1, <4>2, <4>3
    <3>3. a + in + trade + price * (b - out) >= before
      BY <1>10, <2>1, <2>2
    <3>4. price * b2 \in Nat
      BY <1>1, <3>2
    <3> HIDE DEF before
    <3>5. a + in + trade + owner + price * b2 >= before + owner
      BY <1>1, <1>2, <1>7, <3>1, <3>3, <3>4
    <3>6. sent(owner) = owner
      BY <2>2
    <3>7. after \in Nat /\ after >= before + owner
      <4>1. after = a + in + trade + owner + price * b2
        BY <3>1
      <4> HIDE DEF after
      <4> QED BY <3>2, <3>1, <3>4, <3>5, <4>1
    <3> QED BY <1>2, <3>2, <3>6, <3>7
  <2>3. CASE ~AtoB
    <3>1. a2 = a - out /\ b2 = b + in + trade + owner
      BY <1>2, <1>7, <1>9, <2>3
    <3>2. a2 \in Nat /\ b2 \in Nat
      BY <1>2, <1>7, <1>8, <2>3, <3>1
    <3>3. a - out + price * (b + in + trade) >= before
      BY <1>10, <2>1, <2>3
    <3>4. price * b2 = price * (b + in + trade) + owner * price
      BY <1>1, <1>2, <1>7, <3>1
    <3>5. price * b2 \in Nat /\ price * (b + in + trade) \in Nat /\ owner * price \in Nat
      BY <1>1, <1>2, <1>7, <3>2
    <3> HIDE DEF before
    <3>6. a2 + price * b2 >= before + owner * price
      BY <1>1, <3>1, <3>2, <3>3, <3>4, <3>5
    <3> QED BY <2>3, <3>2, <3>5, <3>6
  <2> QED BY <2>2, <2>3
<1> DEFINE Fee == IF r.ownerFee = 0 THEN 0
                 ELSE WithdrawTokens(curve, r.ownerFee, a2, b2, supply, AtoB, FALSE)
<1>12. ASSUME minted = Fee, minted # None
       PROVE  minted \in Nat /\ minted * after <= supply * sent(owner)
  <2>1. CASE owner = 0
    BY <1>1, <1>9, <1>11, <1>12, <2>1
  <2>2. CASE owner # 0
    <3>1. b2 * price + a2 = after
      BY <1>1, <1>11
    <3>2. minted = PricePoolTokens(owner, price, AtoB, a2, b2, supply, FALSE)
      BY <1>9, <1>12, <2>2 DEF WithdrawTokens
    <3>3. after # 0 /\ minted = (supply * sent(owner)) \div after
      BY <1>12, <3>1, <3>2 DEF PricePoolTokens
    <3> HIDE DEF sent, after
    <3>4. supply * sent(owner) \in Nat
      BY <1>11
    <3>5. minted \in Nat /\ after * minted <= supply * sent(owner)
      BY <1>11, <3>3, <3>4, DivisionDown
    <3>6. after * minted = minted * after
      BY <1>11, <3>5
    <3> QED BY <3>5, <3>6
  <2> QED BY <2>1, <2>2
<1> DEFINE kept == 2 * (before \div 2)
           add == sent(owner)
<1>13. kept \in Nat /\ kept <= before
  <2> HIDE DEF before
  <2> QED BY <1>1, DivisionDown
<1>14. add \in Nat /\ after >= before + add
  BY <1>11
<1>15. ASSUME minted \in Nat, minted * after <= supply * add
       PROVE  after * supply >= kept * (supply + minted)
  <2> HIDE DEF kept, before, after, sent, add
  <2>1. before + add \in Nat /\ supply + minted \in Nat /\ before <= after
    BY <1>1, <1>11, <1>14, <1>15
  <2>2. (before + add) * supply <= after * supply
    BY <1>11, <1>14, <2>1, Products
  <2>3. kept * (supply + minted) <= before * (supply + minted)
    BY <1>1, <1>13, <2>1, Products
  <2>4. before * minted <= after * minted
    BY <1>1, <1>11, <1>15, <2>1, Products
  <2>5. /\ (before + add) * supply = before * supply + supply * add
        /\ before * (supply + minted) = before * supply + before * minted
        /\ after * minted = minted * after
    BY <1>1, <1>11, <1>14, <1>15
  <2>6. /\ before * supply \in Nat /\ supply * add \in Nat /\ before * minted \in Nat
        /\ minted * after \in Nat /\ after * supply \in Nat /\ kept * (supply + minted) \in Nat
    BY <1>1, <1>11, <1>13, <1>14, <1>15
  <2> QED BY <1>15, <2>2, <2>3, <2>4, <2>5, <2>6
<1>16. /\ Worth(curve, a2, b2) = after /\ Power(curve, supply) = supply
       /\ Normalized(curve, Worth(curve, a, b)) = kept
       /\ Power(curve, supply + minted) = supply + minted
  BY <1>10
<1> HIDE DEF kept, before, after, Fee
<1>17. ASSUME minted = Fee, minted # None
       PROVE  /\ minted \in Nat
              /\ Worth(curve, a2, b2) * Power(curve, supply)
                   >= Normalized(curve, Worth(curve, a, b)) * Power(curve, supply + minted)
  BY <1>12, <1>15, <1>16, <1>17
<1> QED BY <1>17, Zenon DEF Fee
=============================================================================
