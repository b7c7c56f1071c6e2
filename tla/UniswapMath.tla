---------------------------- MODULE UniswapMath -----------------------------
(***************************************************************************)
(* The integer arithmetic of the Uniswap tools: signing/uniswap-liquidity.ts *)
(* (amounts of a position and back, over square roots of prices scaled by    *)
(* Q96 = 2^96), signing/uniswap-price-impact.ts, the snapping of a price to  *)
(* a tick in signing/uniswap-tick.ts and the slippage floor every tool uses. *)
(***************************************************************************)
EXTENDS Integers

CONSTANTS
    Q96,
    Fine    \* parts of a tick that prices are told apart by

ASSUME Q96Assumption == Q96 \in Nat \ {0}

ASSUME FineAssumption == Fine \in Nat \ {0}

Lower(a, b) == IF a <= b THEN a ELSE b
Upper(a, b) == IF a <= b THEN b ELSE a

getAmount0ForLiquidity(sqrtA, sqrtB, liquidity) ==
    LET a == Lower(sqrtA, sqrtB)
        b == Upper(sqrtA, sqrtB)
    IN ((liquidity * Q96 * (b - a)) \div b) \div a

getAmount1ForLiquidity(sqrtA, sqrtB, liquidity) ==
    (liquidity * (Upper(sqrtA, sqrtB) - Lower(sqrtA, sqrtB))) \div Q96

getAmountsForLiquidity(sqrtPrice, sqrtA, sqrtB, liquidity) ==
    LET a == Lower(sqrtA, sqrtB)
        b == Upper(sqrtA, sqrtB)
    IN CASE sqrtPrice <= a -> <<getAmount0ForLiquidity(a, b, liquidity), 0>>
         [] a < sqrtPrice /\ sqrtPrice < b ->
              <<getAmount0ForLiquidity(sqrtPrice, b, liquidity),
                getAmount1ForLiquidity(a, sqrtPrice, liquidity)>>
         [] OTHER -> <<0, getAmount1ForLiquidity(a, b, liquidity)>>

getLiquidityForAmount0(sqrtA, sqrtB, amount0) ==
    (amount0 * ((sqrtA * sqrtB) \div Q96)) \div (Upper(sqrtA, sqrtB) - Lower(sqrtA, sqrtB))

getLiquidityForAmount1(sqrtA, sqrtB, amount1) ==
    (amount1 * Q96) \div (Upper(sqrtA, sqrtB) - Lower(sqrtA, sqrtB))

getLiquidityForAmounts(sqrtPrice, sqrtA, sqrtB, amount0, amount1) ==
    LET a == Lower(sqrtA, sqrtB)
        b == Upper(sqrtA, sqrtB)
    IN CASE sqrtPrice <= a -> getLiquidityForAmount0(a, b, amount0)
         [] a < sqrtPrice /\ sqrtPrice < b ->
              Lower(getLiquidityForAmount0(sqrtPrice, b, amount0),
                    getLiquidityForAmount1(a, sqrtPrice, amount1))
         [] OTHER -> getLiquidityForAmount1(a, b, amount1)

\* bigintIsqrt and bigintSqrt: Newton's iteration, which ends at the floor of the root.
isqrt(n) == CHOOSE x \in 0..n : x * x <= n /\ (x + 1) * (x + 1) > n

computePriceImpactBps(fairOut, actualOut) ==
    IF fairOut = 0 THEN 10000
    ELSE IF fairOut > actualOut THEN ((fairOut - actualOut) * 10000) \div fairOut
    ELSE 0

\* amount * (10000 - slippageBps) / 10000n.
SlippageFloor(amount, slippageBps) == (amount * (10000 - slippageBps)) \div 10000

\* A price is where it lies among the ticks, its logarithm, in parts of a tick: a price
\* between two ticks has the lower one.  (What is lost of a decimal after 36 places is no
\* part of a tick.)
priceToTick(price) == price \div Fine

\* Math.round(rawTick / spacing) * spacing, where halves go up.
snapPriceToTick(price, spacing) ==
    ((2 * priceToTick(price) + spacing) \div (2 * spacing)) * spacing
=============================================================================
