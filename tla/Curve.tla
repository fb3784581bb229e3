-------------------------------- MODULE Curve --------------------------------
(***************************************************************************)
(* The arithmetic of a pool of albus-swap: fees, the three curves and what   *)
(* their pool tokens are worth, with the rounding of every division.         *)
(* Amounts are whole tokens, far from the limits of their types; a           *)
(* PreciseNumber is a whole number of parts of One.                          *)
(***************************************************************************)
EXTENDS Integers, Sequences
LOCAL INSTANCE SequencesExt

CONSTANTS One,             \* the parts of a PreciseNumber, 10^12 in the code
          InitialSupply    \* INITIAL_SWAP_POOL_AMOUNT

ASSUME PrecisionAssumption == One \in Nat \ {0} /\ InitialSupply \in Nat \ {0}

None == -1   \* Option::None
Larger(x, y) == IF x > y THEN x ELSE y
Smaller(x, y) == IF x < y THEN x ELSE y

-----------------------------------------------------------------------------
\* fees.rs.  A fraction is <<numerator, denominator>>; a fee is at least one token.
CalculateFee(amount, f) ==
  IF f[1] = 0 \/ amount = 0 THEN 0 ELSE Larger(1, (amount * f[1]) \div f[2])

PreFeeAmount(amount, f) ==
  IF f[1] = 0 \/ f[2] = 0 THEN amount
  ELSE IF f[1] = f[2] \/ amount = 0 THEN 0
  ELSE IF f[1] > f[2] THEN None
  ELSE (amount * f[2] + f[2] - f[1] - 1) \div (f[2] - f[1])

None0(f) == f[1] = 0 \/ f[2] = 0
PreTradingFeeAmount(amount, fees) ==
  LET t == fees.trade
      o == fees.ownerTrade
  IN PreFeeAmount(amount, IF None0(t) THEN o
                          ELSE IF None0(o) THEN t
                          ELSE <<t[1] * o[2] + o[1] * t[2], t[2] * o[2]>>)

ValidateFraction(f) == f = <<0, 0>> \/ f[1] < f[2]
Validate(fees) == \A f \in {fees.trade, fees.ownerTrade, fees.ownerWithdraw, fees.host} :
                    ValidateFraction(f)

-----------------------------------------------------------------------------
\* spl_math: division up with the least divisor that gives the same quotient,
\* and numbers with a fixed fraction, rounded to the nearest.
CheckedCeilDiv(n, d) ==
  LET q == n \div d
      up == IF n % d > 0 THEN q + 1 ELSE q
  IN IF q = 0 THEN <<IF 2 * n >= d THEN 1 ELSE 0, 0>>
     ELSE IF n % d = 0 THEN <<q, d>>
     ELSE <<up, (n + up - 1) \div up>>
CeilDiv(n, d) == IF d = 0 THEN None ELSE CheckedCeilDiv(n, d)[1]

\* A ratio of whole numbers: half a part added to a whole numerator is lost again.
Ratio(n, d) == (n * One) \div d
Powers == <<16384, 8192, 4096, 2048, 1024, 512, 256, 128, 64, 32, 16, 8, 4, 2, 1>>
\* Newton's iteration comes from above: the root, or the next number.
PreciseSqrt(x) ==
  LET root == FoldLeft(LAMBDA r, b : IF (r + b) * (r + b) <= x * One THEN r + b ELSE r, 0, Powers)
  IN IF root * root = x * One THEN root ELSE root + 1
Floor(x) == x \div One
Ceiling(x) == (x + One - 1) \div One

-----------------------------------------------------------------------------
\* constant_product.rs.
NoSwap == <<None, None>>
ProductSwap(amount, source, destination) ==
  IF source + amount = 0 THEN NoSwap
  ELSE LET div == CheckedCeilDiv(source * destination, source + amount)
       IN IF div[2] < source \/ div[1] >= destination THEN NoSwap
          ELSE <<div[2] - source, destination - div[1]>>

RoundedDown(tokens, supply, amount, up) == (tokens * amount) \div supply
Share(tokens, supply, amount, up) ==
  LET n == tokens * amount
  IN n \div supply + (IF up /\ n % supply > 0 /\ n \div supply > 0 THEN 1 ELSE 0)
ProductTradingTokens(tokens, supply, a, b, up) ==
  IF supply = 0 THEN NoSwap ELSE <<Share(tokens, supply, a, up), Share(tokens, supply, b, up)>>

ProductDeposit(amount, source, supply) ==
  IF source = 0 THEN None ELSE Floor(supply * (PreciseSqrt(One + Ratio(amount, source)) - One))

ProductWithdraw(amount, source, supply, up) ==
  LET tokens == supply * (One - PreciseSqrt(Larger(0, One - Ratio(amount, source))))
  IN IF source = 0 THEN None ELSE IF up THEN Ceiling(tokens) ELSE Floor(tokens)

-----------------------------------------------------------------------------
\* constant_price.rs.
PriceSwap(amount, price, AtoB) ==
  LET in == IF AtoB THEN amount - (amount % price) ELSE amount
      out == IF AtoB THEN amount \div price ELSE amount * price
  IN IF in = 0 \/ out = 0 THEN NoSwap ELSE <<in, out>>

PricePoolTokens(amount, price, AtoB, a, b, supply, up) ==
  LET given == supply * (IF AtoB THEN amount ELSE amount * price)
      total == b * price + a
  IN IF total = 0 THEN None ELSE IF up THEN CeilDiv(given, total) ELSE given \div total

\* Half of the pool's value on each side, whatever the pool holds of them.
PriceTradingTokens(tokens, supply, price, a, b, up) ==
  LET value == tokens * ((a + b * price) \div 2)
  IN IF supply = 0 THEN NoSwap
     ELSE IF up THEN <<CeilDiv(value, supply), CeilDiv(CeilDiv(value, price), supply)>>
     ELSE <<value \div supply, (value \div price) \div supply>>

-----------------------------------------------------------------------------
\* The calculator of a curve, [type, param]: the price of B or its offset.
\* offset.rs is the product with the offset added to B.
OffsetOf(curve) == IF curve.type = "offset" THEN curve.param ELSE 0

SwapWithoutFees(curve, amount, a, b, AtoB) ==
  IF curve.type = "price" THEN PriceSwap(amount, curve.param, AtoB)
  ELSE LET b2 == b + OffsetOf(curve)
       IN IF AtoB THEN ProductSwap(amount, a, b2) ELSE ProductSwap(amount, b2, a)

PoolTokensToTradingTokens(curve, tokens, supply, a, b, up) ==
  IF curve.type = "price" THEN PriceTradingTokens(tokens, supply, curve.param, a, b, up)
  ELSE ProductTradingTokens(tokens, supply, a, b + OffsetOf(curve), up)

DepositTokens(curve, amount, a, b, supply, AtoB) ==
  IF curve.type = "price" THEN PricePoolTokens(amount, curve.param, AtoB, a, b, supply, FALSE)
  ELSE ProductDeposit(amount, IF AtoB THEN a ELSE b + OffsetOf(curve), supply)

WithdrawTokens(curve, amount, a, b, supply, AtoB, up) ==
  IF curve.type = "price" THEN PricePoolTokens(amount, curve.param, AtoB, a, b, supply, up)
  ELSE ProductWithdraw(amount, IF AtoB THEN a ELSE b + OffsetOf(curve), supply, up)

ValidCurve(curve) == curve.type = "product" \/ curve.param > 0
ValidateSupply(curve, a, b) == a > 0 /\ (curve.type = "product" => b > 0)
AllowsDeposits(curve) == curve.type # "offset"

-----------------------------------------------------------------------------
\* base.rs: the calculator behind the fees.
SwapResult(curve, fees, amount, a, b, AtoB) ==
  LET owner == CalculateFee(amount, fees.ownerTrade)
      total == CalculateFee(amount, fees.trade) + owner
      swapped == SwapWithoutFees(curve, amount - total, a, b, AtoB)
  IN IF total > amount \/ swapped = NoSwap \/ swapped[2] > (IF AtoB THEN b ELSE a)
     THEN [in |-> None, out |-> None, ownerFee |-> 0]
     ELSE [in |-> swapped[1] + total, out |-> swapped[2], ownerFee |-> owner]

\* The fee is that of a swap of half the amount, at least one token.
DepositSingle(curve, fees, amount, a, b, supply, AtoB) ==
  LET half == Larger(1, amount \div 2)
      total == CalculateFee(half, fees.trade) + CalculateFee(half, fees.ownerTrade)
  IN IF amount = 0 THEN 0
     ELSE IF total > amount THEN None
     ELSE DepositTokens(curve, amount - total, a, b, supply, AtoB)

WithdrawSingle(curve, fees, amount, a, b, supply, AtoB) ==
  LET half == (amount + 1) \div 2
      pre == PreTradingFeeAmount(half, fees)
  IN IF amount = 0 THEN 0
     ELSE IF pre = None THEN None
     ELSE WithdrawTokens(curve, amount - half + pre, a, b, supply, AtoB, TRUE)
=============================================================================
