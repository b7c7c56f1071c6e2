---------------------------- MODULE TradeProofs ----------------------------
(***************************************************************************)
(* Proofs about the tools that trade, stake and move tokens, for every      *)
(* request, every price, pool and position, and any number of moves of the  *)
(* chain between the reads of a call and its transaction.                   *)
(***************************************************************************)
EXTENDS WalletTools, NumberLemmas, TLAPS

-----------------------------------------------------------------------------
(* Arithmetic                                                               *)

-----------------------------------------------------------------------------
(* The liquidity pool                                                       *)

\* What a number of one token is worth in liquidity costs no more of it.
LEMMA Amount0Fits ==
    ASSUME NEW a \in Nat \ {0}, NEW b \in Nat \ {0}, a < b, NEW x \in Nat,
           NEW l \in Nat, l <= getLiquidityForAmount0(a, b, x)
    PROVE  getAmount0ForLiquidity(a, b, l) \in Nat /\ getAmount0ForLiquidity(a, b, l) <= x
<1>1. Lower(a, b) = a /\ Upper(a, b) = b /\ Q96 \in Nat /\ Q96 > 0
  BY Q96Assumption DEF Lower, Upper
<1>2. PICK d \in Nat : d = b - a /\ d > 0
  OBVIOUS
<1>3. PICK p \in Nat : p = a * b
  BY Products
<1>4. PICK s \in Nat : s = p \div Q96 /\ s * Q96 <= p
  BY <1>1, Floor
<1>5. PICK m \in Nat : m = x * s
  BY Products
<1>6. PICK k \in Nat : k = m \div d /\ k * d <= m
  BY <1>2, Floor
<1>7. l <= k
  BY <1>1, <1>2, <1>3, <1>4, <1>5, <1>6 DEF getLiquidityForAmount0
<1>8. l * d <= k * d /\ l * d \in Nat /\ k * d \in Nat
  BY <1>7, Times, Products
<1>9. l * d <= x * s
  BY <1>5, <1>6, <1>8
<1>10. (l * d) * Q96 <= (x * s) * Q96 /\ (l * d) * Q96 \in Nat
  BY <1>1, <1>5, <1>8, <1>9, Times, Products
<1>11. s * Q96 \in Nat /\ (s * Q96) * x <= p * x
  BY <1>1, <1>4, Times, Products
<1>12. (x * s) * Q96 = (s * Q96) * x /\ p * x = (x * a) * b
  BY <1>1, <1>3
<1>13. PICK n \in Nat : n = (l * d) * Q96
  BY <1>10
<1>14. x * a \in Nat /\ n <= (x * a) * b
  <2>1. (x * a) * b \in Nat /\ p * x \in Nat /\ (x * s) * Q96 \in Nat /\ x * a \in Nat
    BY <1>1, <1>5, Products
  <2> QED BY <2>1, <1>10, <1>11, <1>12, <1>13
<1>15. n \div b \in Nat /\ n \div b <= x * a
  BY <1>14, Divides
<1>16. (n \div b) \div a \in Nat /\ (n \div b) \div a <= x
  BY <1>15, Divides
<1>17. l * Q96 * (b - a) = n
  BY <1>1, <1>2, <1>13
<1> QED BY <1>1, <1>16, <1>17 DEF getAmount0ForLiquidity

LEMMA Amount1Fits ==
    ASSUME NEW a \in Nat \ {0}, NEW b \in Nat \ {0}, a < b, NEW y \in Nat,
           NEW l \in Nat, l <= getLiquidityForAmount1(a, b, y)
    PROVE  getAmount1ForLiquidity(a, b, l) \in Nat /\ getAmount1ForLiquidity(a, b, l) <= y
<1>1. Lower(a, b) = a /\ Upper(a, b) = b /\ Q96 \in Nat /\ Q96 > 0
  BY Q96Assumption DEF Lower, Upper
<1>2. PICK d \in Nat : d = b - a /\ d > 0
  OBVIOUS
<1>3. PICK m \in Nat : m = y * Q96
  BY <1>1, Products
<1>4. PICK k \in Nat : k = m \div d /\ k * d <= m
  BY <1>2, Floor
<1>5. l <= k
  BY <1>1, <1>2, <1>3, <1>4 DEF getLiquidityForAmount1
<1>6. l * d <= k * d /\ l * d \in Nat /\ k * d \in Nat
  BY <1>5, Times, Products
<1>7. l * d <= y * Q96
  BY <1>3, <1>4, <1>6
<1>8. (l * d) \div Q96 \in Nat /\ (l * d) \div Q96 <= y
  BY <1>1, <1>6, <1>7, Divides
<1> QED BY <1>1, <1>2, <1>8 DEF getAmount1ForLiquidity

LEMMA LiquidityTypes ==
    ASSUME NEW a \in Nat \ {0}, NEW b \in Nat \ {0}, a < b, NEW x \in Nat
    PROVE  getLiquidityForAmount0(a, b, x) \in Nat /\ getLiquidityForAmount1(a, b, x) \in Nat
<1>1. Lower(a, b) = a /\ Upper(a, b) = b /\ Q96 \in Nat /\ Q96 > 0
  BY Q96Assumption DEF Lower, Upper
<1>2. PICK d \in Nat : d = b - a /\ d > 0
  OBVIOUS
<1>3. PICK s \in Nat : s = (a * b) \div Q96
  BY <1>1, Products, Floor
<1>4. x * s \in Nat /\ x * Q96 \in Nat
  BY <1>1, Products
<1>5. (x * s) \div d \in Nat /\ (x * Q96) \div d \in Nat
  BY <1>2, <1>4, Floor
<1> QED BY <1>1, <1>2, <1>3, <1>5 DEF getLiquidityForAmount0, getLiquidityForAmount1

\* The position takes no more of either token than it was worked out from.
LEMMA UsedFits ==
    ASSUME NEW p \in Nat \ {0}, NEW a \in Nat \ {0}, NEW b \in Nat \ {0}, a < b,
           NEW x \in Nat, NEW y \in Nat, NEW used,
           used = getAmountsForLiquidity(p, a, b, getLiquidityForAmounts(p, a, b, x, y))
    PROVE  used \in Nat \X Nat /\ used[1] <= x /\ used[2] <= y
<1>1. Lower(a, b) = a /\ Upper(a, b) = b
  BY DEF Lower, Upper
<1>2. CASE p <= a
  <2>1. used = <<getAmount0ForLiquidity(a, b, getLiquidityForAmount0(a, b, x)), 0>>
    BY <1>1, <1>2 DEF getAmountsForLiquidity, getLiquidityForAmounts
  <2>2. PICK l \in Nat : l = getLiquidityForAmount0(a, b, x)
    BY LiquidityTypes
  <2>3. l <= getLiquidityForAmount0(a, b, x)
    BY <2>2
  <2>4. PICK u \in Nat : u = getAmount0ForLiquidity(a, b, l) /\ u <= x
    BY <2>3, Amount0Fits
  <2> QED BY <2>1, <2>2, <2>4
<1>3. CASE a < p /\ p < b
  <2>1. PICK l \in Nat, k \in Nat : l = getLiquidityForAmount0(p, b, x) /\ k = getLiquidityForAmount1(a, p, y)
    BY <1>3, LiquidityTypes
  <2>2. PICK m \in Nat : m = Lower(l, k) /\ m <= l /\ m <= k
    BY <2>1 DEF Lower
  <2>3. used = <<getAmount0ForLiquidity(p, b, m), getAmount1ForLiquidity(a, p, m)>>
    BY <1>1, <1>3, <2>1, <2>2 DEF getAmountsForLiquidity, getLiquidityForAmounts
  <2>4. m <= getLiquidityForAmount0(p, b, x) /\ m <= getLiquidityForAmount1(a, p, y)
    BY <2>1, <2>2
  <2>5. PICK u \in Nat : u = getAmount0ForLiquidity(p, b, m) /\ u <= x
    BY <1>3, <2>4, Amount0Fits
  <2>6. PICK v \in Nat : v = getAmount1ForLiquidity(a, p, m) /\ v <= y
    BY <1>3, <2>4, Amount1Fits
  <2> QED BY <2>3, <2>5, <2>6
<1>4. CASE ~(p <= a) /\ ~(a < p /\ p < b)
  <2>1. used = <<0, getAmount1ForLiquidity(a, b, getLiquidityForAmount1(a, b, y))>>
    BY <1>1, <1>4 DEF getAmountsForLiquidity, getLiquidityForAmounts
  <2>2. PICK l \in Nat : l = getLiquidityForAmount1(a, b, y)
    BY LiquidityTypes
  <2>3. l <= getLiquidityForAmount1(a, b, y)
    BY <2>2
  <2>4. PICK u \in Nat : u = getAmount1ForLiquidity(a, b, l) /\ u <= y
    BY <2>3, Amount1Fits
  <2> QED BY <2>1, <2>2, <2>4
<1> QED BY <1>2, <1>3, <1>4

\* A price is snapped to the nearest tick that the pool has, but for the part of a tick that
\* was rounded off before.
LEMMA SnapsNear ==
    ASSUME NEW p \in Int, NEW s \in Nat \ {0}, NEW q, q = snapPriceToTick(p, s)
    PROVE  /\ q \in Int
           /\ 2 * Distance(Fine * q, p) <= (s + 1) * Fine
           /\ Distance(Fine * q, p) = Distance(Fine * (0 - q), 0 - p)
<1>1. PICK f \in Nat : f = Fine /\ f > 0
  BY FineAssumption
<1>2. PICK t \in Int : t = p \div f /\ t * f <= p /\ p < t * f + f
  BY <1>1, IntFloor
<1>3. PICK n \in Int : n = 2 * t + s
  OBVIOUS
<1>4. PICK d \in Nat : d = 2 * s /\ d > 0
  OBVIOUS
<1>5. PICK k \in Int : k = n \div d /\ k * d <= n /\ n < k * d + d
  BY <1>3, <1>4, IntFloor
<1>6. q = k * s /\ q \in Int /\ k * d = 2 * q
  BY <1>1, <1>2, <1>3, <1>4, <1>5 DEF snapPriceToTick, priceToTick
<1>7. PICK below \in Nat, above \in Nat : below = 2 * t + s - 2 * q /\ above = s - 1 - (2 * t - 2 * q)
  BY <1>3, <1>4, <1>5, <1>6
<1>8. PICK x \in Int, y \in Int, z \in Nat : x = f * q /\ y = t * f /\ z = s * f
  BY <1>6
<1>9. below * f \in Nat /\ above * f \in Nat
  OBVIOUS
<1>10. below * f = 2 * y + z - 2 * x /\ above * f = z - f - (2 * y - 2 * x)
  BY <1>6, <1>7, <1>8
<1>11. (s + 1) * f = z + f /\ f * (0 - q) = 0 - x
  BY <1>6, <1>8
<1>12. 2 * x - 2 * p <= z + f /\ 2 * p - 2 * x <= z + f
  BY <1>2, <1>8, <1>9, <1>10
<1>13. 2 * Distance(x, p) <= z + f /\ Distance(x, p) = Distance(0 - x, 0 - p)
  BY <1>12 DEF Distance
<1> QED BY <1>1, <1>6, <1>8, <1>11, <1>13

LEMMA SlippageIsBps ==
    ASSUME NEW r, SlippageOk(r)
    PROVE  SlippageOf(r) \in Bps
<1>1. r.slippage = None \/ r.slippage \in Bps
  BY DEF SlippageOk
<1>2. 50 \in Bps
  BY DEF Bps
<1>3. CASE r.slippage = None
  <2>1. SlippageOf(r) = 50
    BY <1>3, Zenon DEF SlippageOf
  <2> QED BY <1>2, <2>1, Zenon
<1>4. CASE r.slippage # None
  <2>1. SlippageOf(r) = r.slippage
    BY <1>4, Zenon DEF SlippageOf
  <2> QED BY <1>1, <1>4, <2>1, Zenon
<1> QED BY <1>3, <1>4

\* What a slippage allows at least is no more than the amount itself.
LEMMA FloorIsLess ==
    ASSUME NEW amount \in Nat, NEW bps \in Bps
    PROVE  SlippageFloor(amount, bps) \in Nat /\ SlippageFloor(amount, bps) <= amount
<1>1. PICK k \in Nat : k = 10000 - bps /\ k <= 10000
  BY DEF Bps
<1>2. k * amount <= 10000 * amount /\ amount * k \in Nat
  BY <1>1, Times, Products
<1>3. amount * k <= amount * 10000
  BY <1>2
<1>4. (amount * k) \div 10000 \in Nat /\ (amount * k) \div 10000 <= amount
  BY <1>2, <1>3, Divides
<1> QED BY <1>1, <1>4 DEF SlippageFloor

-----------------------------------------------------------------------------
(* Powers of ten                                                            *)

\* The powers up to the n-th.
ArePowers(f, n) ==
    /\ f \in [0..n -> Nat]
    /\ f[0] = 1
    /\ \A k \in 0..n : k # 0 => f[k] = 10 * f[k - 1]

LEMMA PowersExist == \A n \in Nat : \E f : ArePowers(f, n)
<1> DEFINE S == {n \in Nat : \E f : ArePowers(f, n)}
<1>1. 0 \in S
  <2>1. ArePowers([k \in 0..0 |-> 1], 0)
    BY DEF ArePowers
  <2> QED BY <2>1
<1>2. ASSUME NEW n \in Nat, n \in S PROVE n + 1 \in S
  <2>1. PICK f : ArePowers(f, n)
    BY <1>2
  <2> DEFINE g == [k \in 0..(n + 1) |-> IF k = n + 1 THEN 10 * f[n] ELSE f[k]]
  <2>2. g \in [0..(n + 1) -> Nat] /\ g[0] = 1
    BY <2>1 DEF ArePowers
  <2>3. ASSUME NEW k \in 0..(n + 1), k # 0 PROVE g[k] = 10 * g[k - 1]
    <3>1. CASE k = n + 1
      BY <3>1, <2>1 DEF ArePowers
    <3>2. CASE k # n + 1
      <4>1. k \in 0..n /\ k - 1 \in 0..n
        BY <3>2, <2>3
      <4> QED BY <4>1, <2>1, <2>3, <3>2 DEF ArePowers
    <3> QED BY <3>1, <3>2
  <2>4. ArePowers(g, n + 1)
    BY <2>2, <2>3 DEF ArePowers
  <2> QED BY <2>4
<1> HIDE DEF S
<1>3. Nat \subseteq S
  BY <1>1, <1>2, Induction
<1> QED BY <1>3 DEF S

LEMMA PowersAgree ==
    ASSUME NEW m \in Nat, NEW n \in Nat, NEW f, NEW g, ArePowers(f, m), ArePowers(g, n),
           NEW k \in Nat, k <= m, k <= n
    PROVE  f[k] = g[k]
<1> DEFINE S == {i \in Nat : i <= m /\ i <= n => f[i] = g[i]}
<1>1. 0 \in S
  BY DEF ArePowers
<1>2. ASSUME NEW i \in Nat, i \in S PROVE i + 1 \in S
  <2>1. SUFFICES ASSUME i + 1 <= m, i + 1 <= n PROVE f[i + 1] = g[i + 1]
    OBVIOUS
  <2>2. f[i] = g[i]
    BY <1>2, <2>1
  <2>3. i + 1 \in 0..m /\ i + 1 \in 0..n /\ i + 1 # 0 /\ (i + 1) - 1 = i
    BY <2>1
  <2> QED BY <2>2, <2>3 DEF ArePowers
<1> HIDE DEF S
<1>3. Nat \subseteq S
  BY <1>1, <1>2, Induction
<1> QED BY <1>3 DEF S

LEMMA TenToDef == TenTo = [n \in Nat |-> IF n = 0 THEN 1 ELSE 10 * TenTo[n - 1]]
<1> DEFINE P(n) == CHOOSE f : ArePowers(f, n)
           t == [n \in Nat |-> P(n)[n]]
<1>1. \A n \in Nat : ArePowers(P(n), n)
  BY PowersExist
<1> HIDE DEF P
<1>2. ASSUME NEW n \in Nat PROVE t[n] = IF n = 0 THEN 1 ELSE 10 * t[n - 1]
  <2>1. CASE n = 0
    BY <1>1, <2>1 DEF ArePowers
  <2>2. CASE n # 0
    <3>1. n - 1 \in Nat /\ n \in 0..n /\ n - 1 <= n
      BY <2>2
    <3>2. P(n)[n] = 10 * P(n)[n - 1]
      BY <1>1, <2>2, <3>1 DEF ArePowers
    <3>3. ArePowers(P(n), n) /\ ArePowers(P(n - 1), n - 1)
      BY <1>1, <3>1
    <3>4. P(n)[n - 1] = P(n - 1)[n - 1]
      BY <3>1, <3>3, PowersAgree
    <3>5. t[n] = P(n)[n] /\ t[n - 1] = P(n - 1)[n - 1]
      BY <3>1
    <3> QED BY <2>2, <3>2, <3>4, <3>5
  <2> QED BY <2>1, <2>2
<1>3. t = [n \in Nat |-> IF n = 0 THEN 1 ELSE 10 * t[n - 1]]
  BY <1>2
<1> HIDE DEF t
<1> DEFINE Q(f) == f = [n \in Nat |-> IF n = 0 THEN 1 ELSE 10 * f[n - 1]]
<1>4. \E f : Q(f)
  BY <1>3
<1>5. TenTo = CHOOSE f : Q(f)
  BY DEF TenTo
<1> HIDE DEF Q
<1>6. Q(TenTo)
  BY <1>4, <1>5, Zenon
<1> QED BY <1>6 DEF Q

LEMMA TenToType == TenTo \in [Nat -> Nat]
<1> DEFINE S == {n \in Nat : TenTo[n] \in Nat}
<1>1. 0 \in S
  BY TenToDef
<1>2. ASSUME NEW n \in Nat, n \in S PROVE n + 1 \in S
  BY <1>2, TenToDef
<1> HIDE DEF S
<1>3. Nat \subseteq S
  BY <1>1, <1>2, Induction
<1>4. \A n \in Nat : TenTo[n] \in Nat
  BY <1>3 DEF S
<1> QED BY <1>4, TenToDef

LEMMA TenToSum == \A k, p \in Nat : TenTo[k] * TenTo[p] = TenTo[k + p]
<1> DEFINE S == {p \in Nat : \A k \in Nat : TenTo[k] * TenTo[p] = TenTo[k + p]}
<1>1. 0 \in S
  BY TenToDef, TenToType
<1>2. ASSUME NEW p \in Nat, p \in S PROVE p + 1 \in S
  <2>1. SUFFICES ASSUME NEW k \in Nat PROVE TenTo[k] * TenTo[p + 1] = TenTo[k + (p + 1)]
    OBVIOUS
  <2>2. TenTo[p + 1] = 10 * TenTo[p] /\ TenTo[k + (p + 1)] = 10 * TenTo[k + p]
    BY TenToDef
  <2>3. TenTo[k] * TenTo[p] = TenTo[k + p]
    BY <1>2
  <2>4. PICK x \in Nat, y \in Nat : x = TenTo[k] /\ y = TenTo[p]
    BY TenToType
  <2>5. x * (10 * y) = 10 * (x * y)
    OBVIOUS
  <2> QED BY <2>2, <2>3, <2>4, <2>5
<1> HIDE DEF S
<1>3. Nat \subseteq S
  BY <1>1, <1>2, Induction
<1> QED BY <1>3 DEF S

\* An amount in units, of a decimal that has no more places than the token, is worth it.
LEMMA UnitsAreExact ==
    ASSUME NEW amount \in [n : Nat, places : Nat], NEW decimals \in Nat, NEW units,
           units = amount.n * TenTo[decimals - amount.places], amount.places <= decimals
    PROVE  units * TenTo[amount.places] = amount.n * TenTo[decimals]
<1>1. PICK k \in Nat, p \in Nat : k = decimals - amount.places /\ p = amount.places /\ k + p = decimals
  OBVIOUS
<1>2. PICK x \in Nat, y \in Nat, n \in Nat : x = TenTo[k] /\ y = TenTo[p] /\ n = amount.n
  BY TenToType
<1>3. x * y = TenTo[decimals]
  <2>1. TenTo[k] * TenTo[p] = TenTo[k + p]
    BY TenToSum
  <2> QED BY <1>1, <1>2, <2>1
<1>4. (n * x) * y = n * (x * y)
  OBVIOUS
<1>5. units = n * x /\ units * TenTo[amount.places] = (n * x) * y
  BY <1>1, <1>2
<1> QED BY <1>2, <1>3, <1>4, <1>5

-----------------------------------------------------------------------------
(* The inductive invariant                                                  *)

CallRec == [req : Requests, pc : {"asked", "quoting", "allowance", "queue", "refused", "made"},
            read : SUBSET {"single", "multi", "tiny"},
            single : [route : Tiers, out : Nat] \cup {None}, multi : Nat \cup {None}, tiny : Nat]

ChainRec == [pools : PoolStates, allowance : Nat \X Nat,
             position : [liquidity : Nat, owed : Nat, mine : BOOLEAN],
             sqrtPrice : SqrtPrices, level : Levels]

\* What a call that got as far as its pc was asked, and knows.
StageOK ==
    LET r == call.req IN
    /\ call.pc # "made" => tx = NoTx
    /\ call.pc = "quoting" => r.tool = "uniswap_swap"
    /\ call.pc = "allowance" =>
          /\ r.tool \in {"uniswap_swap", "uniswap_v3_mint", "uniswap_v3_increase_liquidity",
                         "lido_wrap", "lido_unstake"}
          /\ r.tool = "uniswap_swap" => ~(call.single = None /\ call.multi = None)
          /\ r.tool = "uniswap_v3_mint" => RangeOk(AskedRange(r), r.spacing)
    /\ call.pc = "queue" => r.tool = "lido_unstake"
    /\ r.tool = "uniswap_swap" /\ call.pc \in {"quoting", "allowance"} => SwapAccepts(r)

\* What a transaction says, of what was asked and read.
TxOK ==
    LET r == call.req IN
    call.pc = "made" =>
        /\ tx.op = r.tool
        /\ tx.op = "uniswap_swap" =>
              /\ tx.amount = <<r.amount, 0>> /\ tx.route = SwapRouteTaken /\ tx.value = SwapValue
              /\ tx.min[2] = SlippageFloor(Quoted, SlippageOf(r))
              /\ SwapAccepts(r) /\ ~(call.single = None /\ call.multi = None)
        /\ tx.op = "uniswap_v3_mint" =>
              /\ tx.amount = DesiredAmounts(r) /\ tx.range = Snapped(AskedRange(r), r.spacing)
              /\ RangeOk(AskedRange(r), r.spacing)
        /\ tx.op = "uniswap_v3_increase_liquidity" => tx.amount = r.amounts /\ tx.range = OldRange
        /\ tx.op \in {"lido_wrap", "lido_unstake", "eigenlayer_deposit"} => tx.amount = <<r.amount, 0>>
        /\ tx.op = "revoke_approval" => tx.amount[1] = 0
        /\ tx.op = "solana_lifi_swap" => tx.to = tx.route.recipient
        /\ PaysAsNamed
        /\ AmountAsNamed

\* A quote is what the pools still pay, unless they moved since.
QuotesOK ==
    call.req.tool = "uniswap_swap" /\ "pools" \notin moved =>
        /\ call.single # None => call.single.out = Out(chain.pools[call.single.route], call.req.amount)
        /\ call.multi # None => call.multi = Out(chain.pools[Multi], call.req.amount)

Gated == {"uniswap_v3_mint", "uniswap_v3_increase_liquidity", "lido_wrap", "lido_unstake",
          "eigenlayer_deposit"}

\* The allowance that was compared covers the transaction, unless it changed.
GateOK ==
    "allowance" \notin moved =>
        /\ call.pc = "queue" => AllowanceCovers(<<call.req.amount, 0>>)
        /\ tx.op \in Gated => AllowanceCovers(tx.amount)
        /\ tx.op = "uniswap_swap" /\ ~call.req.ethIn => AllowanceCovers(tx.amount)

PositionOK ==
    "position" \notin moved =>
        /\ tx.op = "uniswap_v3_burn" => chain.position.liquidity = 0 /\ chain.position.owed = 0
        /\ tx.op = "uniswap_v3_rebalance" =>
              chain.position.mine /\ tx.liquidity = chain.position.liquidity
        /\ tx.op = "uniswap_v3_decrease_liquidity" =>
              /\ call.req.delta = None =>
                    tx.liquidity \in Nat /\ tx.liquidity <= chain.position.liquidity
              /\ call.req.percent = 100 => tx.liquidity = chain.position.liquidity

LevelOK ==
    "level" \notin moved =>
        /\ tx.op = "rocketpool_stake" =>
              tx.min[1] = FallbackMinimum \/ ~(tx.amount[1] < chain.level)
        /\ tx.op = "rocketpool_unstake" => ~(chain.level < tx.amount[1])
        /\ tx.op = "lido_unstake" => tx.min[1] = chain.level + 1

\* Until the transaction executes.
Pending ==
    tx.outcome = "none" =>
        /\ tx.paid = <<0, 0>>
        /\ chain \in ChainRec
        /\ QuotesOK
        /\ GateOK
        /\ PositionOK
        /\ LevelOK

\* What the properties say of a transaction that executed or failed.
EndsWell ==
    tx.outcome # "none" =>
        /\ ChecksHold
        /\ SwapDelivers
        /\ NothingLeftBehind
        /\ tx.op = "uniswap_v3_mint" => tx.paid[1] <= tx.amount[1] /\ tx.paid[2] <= tx.amount[2]
        /\ MovesAsNamed

IInv ==
    /\ call \in CallRec
    /\ DOMAIN tx = DOMAIN NoTx
    /\ StageOK
    /\ TxOK
    /\ Pending
    /\ EndsWell

LEMMA NoneIsNoTool ==
    NoTx.op \notin Gated \cup ThirdParty \cup InTokens \cup
       {"uniswap_swap", "uniswap_v3_burn", "uniswap_v3_rebalance", "uniswap_v3_decrease_liquidity",
        "rocketpool_stake", "rocketpool_unstake", "solana_lifi_swap"}
BY TradeAssumption, WalletAssumption DEF NoTx, Gated, Trades

\* The values of a part of the chain.
LEMMA ValuesAreTyped ==
    /\ ValuesOf("pools") = PoolStates /\ PoolStates # {}
    /\ ValuesOf("allowance") \subseteq Nat \X Nat /\ ValuesOf("allowance") # {}
    /\ ValuesOf("position") \subseteq [liquidity : Nat, owed : Nat, mine : BOOLEAN]
    /\ ValuesOf("position") # {}
    /\ ValuesOf("sqrtPrice") = SqrtPrices /\ SqrtPrices # {}
    /\ ValuesOf("level") = Levels /\ Levels # {}
<1>1. [route \in Routes |-> None] \in PoolStates
  BY DEF PoolStates
<1>2. PICK n \in Allowances : TRUE
  BY TradeAssumption
<1>3. <<n, n>> \in Allowances \X Allowances /\ Allowances \X Allowances \subseteq Nat \X Nat
  BY TradeAssumption
<1> QED BY <1>1, <1>3, TradeAssumption DEF ValuesOf

LEMMA InitHolds == Init => IInv
<1> SUFFICES ASSUME Init PROVE IInv
  OBVIOUS
<1>1. PICK r \in Requests :
        /\ call = [req |-> r, pc |-> "asked", read |-> {}, single |-> None, multi |-> None, tiny |-> 0]
        /\ tx = NoTx
        /\ chain \in ChainsFor(r.tool)
  BY DEF Init
<1>2. call \in CallRec /\ call.pc = "asked" /\ call.single = None /\ call.multi = None
  BY <1>1 DEF CallRec
<1>3. /\ Still.pools \in ValuesOf("pools") /\ Still.allowance \in ValuesOf("allowance")
      /\ Still.position \in ValuesOf("position") /\ Still.sqrtPrice \in ValuesOf("sqrtPrice")
      /\ Still.level \in ValuesOf("level")
  BY ValuesAreTyped DEF Still, ValuesOf, PoolStates
<1>4. chain \in [pools : ValuesOf("pools"), allowance : ValuesOf("allowance"),
                position : ValuesOf("position"), sqrtPrice : ValuesOf("sqrtPrice"),
                level : ValuesOf("level")]
  BY <1>1, <1>3 DEF ChainsFor
<1>5. chain \in ChainRec
  BY <1>4, ValuesAreTyped DEF ChainRec
<1>6. StageOK /\ QuotesOK
  BY <1>1, <1>2 DEF StageOK, QuotesOK
<1>7. tx.outcome = "none" /\ tx.paid = <<0, 0>> /\ DOMAIN tx = DOMAIN NoTx
  BY <1>1 DEF NoTx
<1>8. GateOK /\ PositionOK /\ LevelOK
  BY <1>1, <1>2, NoneIsNoTool DEF GateOK, PositionOK, LevelOK, Gated
<1> QED BY <1>2, <1>5, <1>6, <1>7, <1>8 DEF IInv, TxOK, Pending, EndsWell

-----------------------------------------------------------------------------
(* The steps of a call                                                      *)

\* A step of a call that makes no transaction.
LEMMA QuietStep ==
    ASSUME IInv, call.pc # "made", call'.pc # "made", UNCHANGED <<tx, chain>>,
           (call \in CallRec)', StageOK', QuotesOK',
           call'.pc = "queue" /\ "allowance" \notin moved' =>
              AllowanceCovers(<<call.req.amount, 0>>)'
    PROVE  IInv'
<1>1. tx = NoTx /\ tx' = NoTx /\ chain \in ChainRec
  BY DEF IInv, StageOK, Pending, NoTx
<1>2. tx'.outcome = "none" /\ tx'.paid = <<0, 0>> /\ DOMAIN tx' = DOMAIN NoTx
  BY <1>1 DEF NoTx
<1>3. GateOK' /\ PositionOK' /\ LevelOK'
  BY <1>1, NoneIsNoTool DEF GateOK, PositionOK, LevelOK, Gated
<1> QED BY <1>1, <1>2, <1>3 DEF IInv, TxOK, Pending, EndsWell

LEMMA RefuseStep ==
    ASSUME IInv, Refuse, UNCHANGED chain, call.pc # "made", "pools" \in moved => "pools" \in moved'
    PROVE  IInv'
<1>1. call' = [call EXCEPT !.pc = "refused"] /\ tx' = tx /\ tx = NoTx /\ tx.outcome = "none"
  BY DEF Refuse, IInv, StageOK, NoTx
<1>2. call' \in CallRec /\ call'.pc = "refused" /\ call'.req = call.req /\ call'.single = call.single
      /\ call'.multi = call.multi
  BY <1>1 DEF IInv, CallRec
<1>3. StageOK' /\ QuotesOK'
  BY <1>1, <1>2 DEF IInv, StageOK, Pending, QuotesOK, NoTx
<1> QED BY <1>1, <1>2, <1>3, QuietStep

\* The new pc of a call that goes on.
LEMMA GoesStep ==
    ASSUME IInv, NEW pc \in {"quoting", "allowance", "queue"}, Goes(pc), UNCHANGED chain,
           call.pc # "made", "pools" \in moved => "pools" \in moved'
    PROVE  /\ call'.pc = pc /\ call'.req = call.req
           /\ call'.single = call.single /\ call'.multi = call.multi
           /\ StageOK' /\ (pc = "queue" /\ "allowance" \notin moved' =>
                              AllowanceCovers(<<call.req.amount, 0>>)') => IInv'
<1>1. call' = [call EXCEPT !.pc = pc] /\ tx' = tx /\ tx = NoTx /\ tx.outcome = "none"
  BY DEF Goes, IInv, StageOK, NoTx
<1>2. call' \in CallRec /\ call'.pc = pc /\ call'.req = call.req /\ call'.single = call.single
      /\ call'.multi = call.multi
  BY <1>1 DEF IInv, CallRec
<1>3. QuotesOK'
  BY <1>1, <1>2 DEF IInv, Pending, QuotesOK
<1>4. call'.pc # "made"
  BY <1>2
<1> QED BY <1>1, <1>2, <1>3, <1>4, QuietStep

\* What a transaction is when it is made.
LEMMA MakeStep ==
    ASSUME IInv, NEW fields, Make(fields), UNCHANGED chain, call.pc # "made",
           fields.op = call.req.tool, "op" \in DOMAIN fields,
           DOMAIN fields \cap {"outcome", "paid", "got"} = {},
           "pools" \in moved => "pools" \in moved'
    PROVE  /\ call'.pc = "made" /\ call'.req = call.req
           /\ call'.single = call.single /\ call'.multi = call.multi
           /\ tx'.op = call.req.tool
           /\ \A f \in DOMAIN NoTx : tx'[f] = IF f \in DOMAIN fields THEN fields[f] ELSE NoTx[f]
           /\ TxOK' /\ GateOK' /\ PositionOK' /\ LevelOK' => IInv'
<1>1. /\ call' = [call EXCEPT !.pc = "made"]
      /\ tx' = [f \in DOMAIN NoTx |-> IF f \in DOMAIN fields THEN fields[f] ELSE NoTx[f]]
      /\ tx = NoTx /\ tx.outcome = "none"
  BY DEF Make, IInv, StageOK, NoTx
<1>2. call' \in CallRec /\ call'.pc = "made" /\ call'.req = call.req /\ call'.single = call.single
      /\ call'.multi = call.multi
  BY <1>1 DEF IInv, CallRec
<1>3. "op" \in DOMAIN NoTx /\ "outcome" \in DOMAIN NoTx /\ "paid" \in DOMAIN NoTx
      /\ NoTx.outcome = "none" /\ NoTx.paid = <<0, 0>>
  BY DEF NoTx
<1>4. tx'.op = call.req.tool /\ tx'.outcome = "none" /\ tx'.paid = <<0, 0>> /\ DOMAIN tx' = DOMAIN NoTx
  BY <1>1, <1>3
<1>5. QuotesOK' /\ StageOK' /\ chain \in ChainRec
  BY <1>1, <1>2 DEF IInv, Pending, QuotesOK, StageOK
<1> QED BY <1>1, <1>2, <1>4, <1>5 DEF IInv, Pending, EndsWell

-----------------------------------------------------------------------------
(* Quotes                                                                   *)

LEMMA OutIs ==
    ASSUME NEW pool \in PoolKinds \cup {None}, NEW amount \in Nat
    PROVE  Out(pool, amount) \in Nat \cup {None}
<1>1. CASE pool = None
  BY <1>1 DEF Out
<1>2. CASE pool # None
  <2>1. pool.rate \in Nat /\ pool.depth \in Nat
    BY <1>2, TradeAssumption
  <2>2. pool.rate * amount \in Nat
    BY <2>1, Products
  <2> QED BY <1>2, <2>1, <2>2 DEF Out
<1> QED BY <1>1, <1>2

LEMMA BestTierIs ==
    ASSUME NEW quotes \in [Tiers -> Nat \cup {None}], NEW best, best = BestTier(quotes), best # None
    PROVE  best \in [route : Tiers, out : Nat] /\ best.out = quotes[best.route]
<1> DEFINE Beats(t) == /\ quotes[t] # None
                       /\ \A u \in Tiers : \/ quotes[u] = None
                                           \/ quotes[u] < quotes[t]
                                           \/ quotes[u] = quotes[t] /\ t <= u
           tier == CHOOSE t \in Tiers : Beats(t)
<1>1. ~(\A t \in Tiers : quotes[t] = None) /\ best = [route |-> tier, out |-> quotes[tier]]
  BY DEF BestTier
<1>2. \E t \in Tiers : Beats(t)
  <2>1. Tiers = {500, 3000}
    BY DEF Tiers
  <2>2. quotes[500] \in Nat \cup {None} /\ quotes[3000] \in Nat \cup {None}
    BY <2>1
  <2>3. CASE quotes[500] = None
    BY <1>1, <2>1, <2>2, <2>3
  <2>4. CASE quotes[500] # None /\ quotes[3000] = None
    BY <1>1, <2>1, <2>2, <2>4
  <2>5. CASE quotes[500] # None /\ quotes[3000] # None
    <3>1. PICK x \in Nat, y \in Nat : x = quotes[500] /\ y = quotes[3000]
      BY <2>2, <2>5
    <3>2. CASE y <= x
      BY <2>1, <2>5, <3>1, <3>2
    <3>3. CASE x < y
      BY <2>1, <2>5, <3>1, <3>3
    <3> QED BY <3>1, <3>2, <3>3
  <2> QED BY <2>3, <2>4, <2>5
<1> HIDE DEF Beats
<1>3. tier \in Tiers /\ Beats(tier)
  BY <1>2
<1> HIDE DEF tier
<1>4. quotes[tier] \in Nat
  BY <1>3 DEF Beats
<1> QED BY <1>1, <1>3, <1>4

\* The best of the quotes that were answered is what its pool pays.
LEMMA QuoteIsPaid ==
    ASSUME chain \in ChainRec, NEW amount \in Nat, NEW answered, NEW best,
           best = BestTier(Answered(amount, answered)), best # None
    PROVE  best \in [route : Tiers, out : Nat] /\ best.out = Out(chain.pools[best.route], amount)
<1>1. \A t \in Tiers : chain.pools[t] \in PoolKinds \cup {None}
  BY DEF ChainRec, PoolStates, Routes
<1>2. PICK quotes : quotes = Answered(amount, answered)
  OBVIOUS
<1>3. quotes \in [Tiers -> Nat \cup {None}]
  BY <1>1, <1>2, OutIs DEF Answered
<1>4. best \in [route : Tiers, out : Nat] /\ best.out = quotes[best.route]
  BY <1>2, <1>3, BestTierIs
<1>5. best.route \in Tiers /\ quotes[best.route] # None
  BY <1>4, TradeAssumption
<1> QED BY <1>2, <1>4, <1>5 DEF Answered

LEMMA QuoteStep ==
    ASSUME IInv, quoteAllSingleHopFeeTiers \/ quoteMultiHopCandidates \/ quoteTiny
    PROVE  IInv'
<1>1. /\ call.pc = "quoting" /\ call \in CallRec /\ chain \in ChainRec /\ UNCHANGED <<tx, chain, moved>>
      /\ call.req.tool = "uniswap_swap" /\ call.req.amount \in Nat /\ StageOK /\ QuotesOK
  <2>1. call.pc = "quoting" /\ UNCHANGED <<tx, chain, moved>>
    BY DEF quoteAllSingleHopFeeTiers, quoteMultiHopCandidates, quoteTiny
  <2>2. tx.outcome = "none"
    BY <2>1 DEF IInv, StageOK, NoTx
  <2> QED BY <2>1, <2>2, RequestAssumption DEF IInv, StageOK, Pending, CallRec
<1>2. CASE quoteAllSingleHopFeeTiers
  <2>1. PICK answered \in SUBSET Tiers :
            call' = [call EXCEPT !.read = @ \cup {"single"},
                                 !.single = BestTier(Answered(call.req.amount, answered))]
    BY <1>2, Zenon DEF quoteAllSingleHopFeeTiers
  <2>2. PICK best : best = BestTier(Answered(call.req.amount, answered))
    OBVIOUS
  <2>3. call' = [call EXCEPT !.read = @ \cup {"single"}, !.single = best]
    BY <2>1, <2>2
  <2>4. best # None => /\ best \in [route : Tiers, out : Nat]
                       /\ best.out = Out(chain.pools[best.route], call.req.amount)
    BY <1>1, <2>2, QuoteIsPaid
  <2>5. call' \in CallRec /\ call'.single = best /\ call'.multi = call.multi /\ call'.req = call.req
        /\ call'.pc = "quoting"
    BY <1>1, <2>3, <2>4 DEF CallRec
  <2>6. StageOK' /\ QuotesOK'
    BY <1>1, <2>4, <2>5 DEF StageOK, QuotesOK
  <2> QED BY <1>1, <2>5, <2>6, QuietStep
<1>3. CASE quoteMultiHopCandidates
  <2>1. PICK out \in {None, Out(chain.pools[Multi], call.req.amount)} :
            call' = [call EXCEPT !.read = @ \cup {"multi"}, !.multi = out]
    BY <1>3 DEF quoteMultiHopCandidates
  <2>2. out \in Nat \cup {None}
    <3>1. chain.pools[Multi] \in PoolKinds \cup {None}
      BY <1>1 DEF ChainRec, PoolStates, Routes
    <3> QED BY <1>1, <3>1, OutIs
  <2>3. call' \in CallRec /\ call'.single = call.single /\ call'.multi = out /\ call'.req = call.req
        /\ call'.pc = "quoting"
    BY <1>1, <2>1, <2>2 DEF CallRec
  <2>4. StageOK' /\ QuotesOK'
    BY <1>1, <2>1, <2>3 DEF StageOK, QuotesOK
  <2> QED BY <1>1, <2>3, <2>4, QuietStep
<1>4. CASE quoteTiny
  <2>1. PICK answered \in SUBSET Tiers :
            LET best == BestTier(Answered(TinyAmount(call.req.amount), answered)) IN
            call' = [call EXCEPT !.read = @ \cup {"tiny"}, !.tiny = IF best = None THEN 0 ELSE best.out]
    BY <1>4, Zenon DEF quoteTiny
  <2>2. PICK best : best = BestTier(Answered(TinyAmount(call.req.amount), answered))
    OBVIOUS
  <2>3. call' = [call EXCEPT !.read = @ \cup {"tiny"}, !.tiny = IF best = None THEN 0 ELSE best.out]
    BY <2>1, <2>2
  <2>4. PICK tiny \in Nat : tiny = TinyAmount(call.req.amount)
    BY <1>1, Floor DEF TinyAmount
  <2>5. PICK n \in Nat : n = IF best = None THEN 0 ELSE best.out
    BY <1>1, <2>2, <2>4, QuoteIsPaid
  <2>6. call' \in CallRec /\ call'.single = call.single /\ call'.multi = call.multi
        /\ call'.req = call.req /\ call'.pc = "quoting"
    BY <1>1, <2>3, <2>5 DEF CallRec
  <2>7. StageOK' /\ QuotesOK'
    BY <1>1, <2>6 DEF StageOK, QuotesOK
  <2> QED BY <1>1, <2>6, <2>7, QuietStep
<1> QED BY <1>2, <1>3, <1>4

-----------------------------------------------------------------------------
(* Swaps and positions                                                      *)

\* The fields of a transaction after those that were set.
LEMMA SwapFields ==
    ASSUME IInv, call.req.tool = "uniswap_swap", call.pc \in {"quoting", "allowance"},
           SwapAccepts(call.req), ~(call.single = None /\ call.multi = None), Make(SwapTx),
           UNCHANGED chain, "pools" \in moved => "pools" \in moved',
           ~call.req.ethIn => AllowanceCovers(<<call.req.amount, 0>>)
    PROVE  IInv'
<1> DEFINE fields == SwapTx
<1>1. /\ DOMAIN fields = {"op", "amount", "route", "value", "min"} /\ fields.op = "uniswap_swap"
      /\ fields.amount = <<call.req.amount, 0>> /\ fields.route = SwapRouteTaken
      /\ fields.value = SwapValue
      /\ fields.min = <<0, SlippageFloor(Quoted, SlippageOf(call.req))>>
  BY DEF SwapTx
<1> HIDE DEF fields
<1>2. /\ call'.pc = "made" /\ call'.req = call.req
      /\ call'.single = call.single /\ call'.multi = call.multi
      /\ tx'.op = "uniswap_swap" /\ tx'.amount = fields.amount /\ tx'.route = fields.route
      /\ tx'.min = fields.min /\ tx'.value = fields.value
      /\ TxOK' /\ GateOK' /\ PositionOK' /\ LevelOK' => IInv'
  <2>1. Make(fields)
    BY DEF fields
  <2>2. "amount" \in DOMAIN NoTx /\ "route" \in DOMAIN NoTx /\ "min" \in DOMAIN NoTx
        /\ "value" \in DOMAIN NoTx
    BY DEF NoTx
  <2> QED BY <1>1, <2>1, <2>2, MakeStep
<1>3. SwapRouteTaken' = SwapRouteTaken /\ Quoted' = Quoted /\ SwapValue' = SwapValue
  BY <1>2 DEF SwapRouteTaken, SwapValue, Quoted, MultiWins
<1>4. TxOK'
  BY <1>1, <1>2, <1>3 DEF TxOK, PaysAsNamed, AmountAsNamed, ThirdParty, InTokens
<1>5. GateOK' /\ PositionOK' /\ LevelOK'
  BY <1>1, <1>2 DEF GateOK, PositionOK, LevelOK, AllowanceCovers, Gated
<1> QED BY <1>2, <1>4, <1>5

LEMMA SwapStep ==
    ASSUME IInv, Swap \/ RouteSwap
    PROVE  IInv'
<1>1. CASE Swap
  <2>1. call.pc = "asked" /\ call.req.tool = "uniswap_swap" /\ UNCHANGED <<chain, moved>>
        /\ ((SwapAccepts(call.req) /\ Goes("quoting")) \/ Refuse)
    BY <1>1 DEF Swap, Asked, ReadsNothing
  <2>2. CASE Refuse
    BY <2>1, <2>2, RefuseStep
  <2>3. CASE SwapAccepts(call.req) /\ Goes("quoting")
    <3>1. /\ call'.pc = "quoting" /\ call'.req = call.req
          /\ StageOK' => IInv'
      BY <2>1, <2>3, GoesStep
    <3>2. tx' = NoTx'
      BY <2>1, <2>3 DEF Goes, IInv, StageOK, NoTx
    <3> QED BY <2>1, <2>3, <3>1, <3>2 DEF StageOK
  <2> QED BY <2>1, <2>2, <2>3
<1>2. CASE RouteSwap
  <2>1. /\ call.pc = "quoting" /\ UNCHANGED <<chain, moved>>
        /\ \/ Refuse
           \/ /\ ~(call.single = None /\ call.multi = None)
              /\ (call.req.ethIn /\ Make(SwapTx)) \/ (~call.req.ethIn /\ Goes("allowance"))
    BY <1>2 DEF RouteSwap, ReadsNothing
  <2>2. call.req.tool = "uniswap_swap" /\ SwapAccepts(call.req)
    BY <2>1 DEF IInv, StageOK
  <2>3. CASE Refuse
    BY <2>1, <2>3, RefuseStep
  <2>4. CASE ~(call.single = None /\ call.multi = None) /\ call.req.ethIn /\ Make(SwapTx)
    BY <2>1, <2>2, <2>4, SwapFields
  <2>5. CASE ~(call.single = None /\ call.multi = None) /\ ~call.req.ethIn /\ Goes("allowance")
    <3>1. /\ call'.pc = "allowance" /\ call'.req = call.req
          /\ call'.single = call.single /\ call'.multi = call.multi
          /\ StageOK' => IInv'
      BY <2>1, <2>5, GoesStep
    <3>2. tx' = NoTx'
      BY <2>1, <2>5 DEF Goes, IInv, StageOK, NoTx
    <3> QED BY <2>2, <2>5, <3>1, <3>2 DEF StageOK
  <2> QED BY <2>1, <2>3, <2>4, <2>5
<1> QED BY <1>1, <1>2

LEMMA PositionFields ==
    ASSUME IInv, NEW tool, tool \in {"uniswap_v3_mint", "uniswap_v3_increase_liquidity"},
           call.req.tool = tool, call.pc = "allowance", Make(LiquidityTx(tool)),
           UNCHANGED chain, "pools" \in moved => "pools" \in moved',
           AllowanceCovers(LiquidityTx(tool).amount)
    PROVE  IInv'
<1> DEFINE fields == LiquidityTx(tool)
           r == call.req
<1>1. /\ DOMAIN fields = {"op", "amount", "range", "min"} /\ fields.op = tool
      /\ fields.amount = IF tool = "uniswap_v3_mint" THEN DesiredAmounts(r) ELSE r.amounts
      /\ fields.range = IF tool = "uniswap_v3_mint" THEN Snapped(AskedRange(r), r.spacing) ELSE OldRange
  BY DEF LiquidityTx
<1>2. tool = "uniswap_v3_mint" => RangeOk(AskedRange(r), r.spacing)
  BY DEF IInv, StageOK
<1> HIDE DEF fields
<1>3. /\ call'.pc = "made" /\ call'.req = call.req
      /\ tx'.op = tool /\ tx'.amount = fields.amount /\ tx'.range = fields.range
      /\ TxOK' /\ GateOK' /\ PositionOK' /\ LevelOK' => IInv'
  <2>1. Make(fields) /\ call.pc # "made"
    BY DEF fields
  <2>2. "amount" \in DOMAIN NoTx /\ "range" \in DOMAIN NoTx
    BY DEF NoTx
  <2> QED BY <1>1, <2>1, <2>2, MakeStep
<1>4. TxOK'
  BY <1>1, <1>2, <1>3 DEF TxOK, PaysAsNamed, AmountAsNamed, ThirdParty, InTokens
<1>5. GateOK' /\ PositionOK' /\ LevelOK'
  <2>1. AllowanceCovers(tx.amount)'
    BY <1>3 DEF AllowanceCovers, fields
  <2> QED BY <1>3, <2>1 DEF GateOK, PositionOK, LevelOK
<1> QED BY <1>3, <1>4, <1>5

LEMMA MintStep ==
    ASSUME IInv, Mint \/ IncreaseLiquidity \/ LidoWrap \/ LidoUnstake
    PROVE  IInv'
<1>1. /\ call.pc = "asked" /\ UNCHANGED <<chain, moved>>
      /\ \/ Refuse
         \/ /\ Goes("allowance")
            /\ call.req.tool \in {"uniswap_v3_mint", "uniswap_v3_increase_liquidity", "lido_wrap", "lido_unstake"}
            /\ call.req.tool = "uniswap_v3_mint" => RangeOk(AskedRange(call.req), call.req.spacing)
  BY DEF Mint, IncreaseLiquidity, LidoWrap, LidoUnstake, Asked, ReadsNothing
<1>2. CASE Refuse
  BY <1>1, <1>2, RefuseStep
<1>3. CASE /\ Goes("allowance")
           /\ call.req.tool \in {"uniswap_v3_mint", "uniswap_v3_increase_liquidity", "lido_wrap", "lido_unstake"}
           /\ call.req.tool = "uniswap_v3_mint" => RangeOk(AskedRange(call.req), call.req.spacing)
  <2>1. /\ call'.pc = "allowance" /\ call'.req = call.req
        /\ StageOK' => IInv'
    BY <1>1, <1>3, GoesStep
  <2>2. tx' = NoTx'
    BY <1>1, <1>3 DEF Goes, IInv, StageOK, NoTx
  <2> QED BY <1>3, <2>1, <2>2 DEF StageOK
<1> QED BY <1>1, <1>2, <1>3

\* A transaction of which nothing else is said.
LEMMA FreeMake ==
    ASSUME IInv, NEW fields, Make(fields), UNCHANGED chain, call.pc # "made",
           fields.op = call.req.tool, "op" \in DOMAIN fields,
           DOMAIN fields \cap {"outcome", "paid", "got"} = {},
           "pools" \in moved => "pools" \in moved',
           call.req.tool \in {"uniswap_v3_collect", "lido_stake", "lido_unwrap", "curve_swap",
                              "curve_add_liquidity"}
    PROVE  IInv'
<1>1. /\ call'.pc = "made" /\ call'.req = call.req /\ tx'.op = call.req.tool
      /\ TxOK' /\ GateOK' /\ PositionOK' /\ LevelOK' => IInv'
  BY MakeStep
<1>2. TxOK'
  BY <1>1 DEF TxOK, PaysAsNamed, AmountAsNamed, ThirdParty, InTokens
<1>3. GateOK' /\ PositionOK' /\ LevelOK'
  BY <1>1 DEF GateOK, PositionOK, LevelOK, Gated
<1> QED BY <1>1, <1>2, <1>3

LEMMA PercentFits ==
    ASSUME NEW l \in Nat, l # 0, NEW percent \in 1..100
    PROVE  /\ PercentOf(l, percent) \in Nat /\ PercentOf(l, percent) <= l
           /\ percent = 100 => PercentOf(l, percent) = l
<1>1. percent * l <= 100 * l /\ l * percent \in Nat
  BY Times, Products
<1>2. PICK q \in Nat : q = (l * percent) \div 100 /\ q <= l
  BY <1>1, Divides
<1>3. percent = 100 => q = l
  <2>1. l * 100 < q * 100 + 100 \/ percent # 100
    BY <1>2, Floor
  <2> QED BY <1>2, <2>1
<1> QED BY <1>2, <1>3 DEF PercentOf

LEMMA DecreaseStep ==
    ASSUME IInv, DecreaseLiquidity
    PROVE  IInv'
<1> DEFINE r == call.req
           l == chain.position.liquidity
<1>1. call.pc = "asked" /\ r.tool = "uniswap_v3_decrease_liquidity" /\ UNCHANGED chain
      /\ ("pools" \in moved => "pools" \in moved') /\ chain \in ChainRec
  <2>1. call.pc = "asked" /\ r.tool = "uniswap_v3_decrease_liquidity" /\ UNCHANGED chain
        /\ ("pools" \in moved => "pools" \in moved')
    BY DEF DecreaseLiquidity, Asked, Reads, ReadsNothing
  <2> QED BY <2>1 DEF IInv, StageOK, Pending, NoTx
<1>2. l \in Nat
  BY <1>1 DEF ChainRec
<1>3. \/ Refuse
      \/ \E delta : /\ Make(DecreaseTx(delta))
                    /\ \/ r.percent = None /\ r.delta # None
                       \/ r.percent \in 1..100 /\ l # 0 /\ delta = PercentOf(l, r.percent)
  BY DEF DecreaseLiquidity
<1>4. CASE Refuse
  BY <1>1, <1>4, RefuseStep
<1>5. CASE \E delta : /\ Make(DecreaseTx(delta))
                      /\ \/ r.percent = None /\ r.delta # None
                         \/ r.percent \in 1..100 /\ l # 0 /\ delta = PercentOf(l, r.percent)
  <2>1. PICK delta : /\ Make(DecreaseTx(delta))
                     /\ \/ r.percent = None /\ r.delta # None
                        \/ r.percent \in 1..100 /\ l # 0 /\ delta = PercentOf(l, r.percent)
    BY <1>5
  <2>2. DOMAIN DecreaseTx(delta) = {"op", "liquidity"} /\ DecreaseTx(delta).liquidity = delta
        /\ DecreaseTx(delta).op = "uniswap_v3_decrease_liquidity" /\ "liquidity" \in DOMAIN NoTx
    BY DEF DecreaseTx, NoTx
  <2>3. /\ call'.pc = "made" /\ call'.req = call.req /\ tx'.op = "uniswap_v3_decrease_liquidity"
        /\ tx'.liquidity = delta
        /\ TxOK' /\ GateOK' /\ PositionOK' /\ LevelOK' => IInv'
    BY <1>1, <2>1, <2>2, MakeStep
  <2>4. TxOK'
    BY <1>1, <2>3 DEF TxOK, PaysAsNamed, AmountAsNamed, ThirdParty, InTokens
  <2>5. GateOK' /\ LevelOK'
    BY <2>3 DEF GateOK, LevelOK, Gated
  <2>6. /\ r.delta = None => delta \in Nat /\ delta <= l
        /\ r.percent = 100 => delta = l
    <3>1. CASE r.percent = None /\ r.delta # None
      BY <3>1, TradeAssumption
    <3>2. CASE r.percent \in 1..100 /\ l # 0 /\ delta = PercentOf(l, r.percent)
      BY <1>2, <3>2, PercentFits
    <3> QED BY <2>1, <3>1, <3>2
  <2>7. PositionOK'
    BY <1>1, <2>3, <2>6 DEF PositionOK
  <2> QED BY <2>3, <2>4, <2>5, <2>7
<1> QED BY <1>3, <1>4, <1>5

LEMMA PositionStep ==
    ASSUME IInv, Collect \/ Burn \/ Rebalance
    PROVE  IInv'
<1> DEFINE p == chain.position
<1>1. call.pc = "asked" /\ UNCHANGED chain /\ ("pools" \in moved => "pools" \in moved')
      /\ chain \in ChainRec
  <2>1. call.pc = "asked" /\ UNCHANGED chain /\ ("pools" \in moved => "pools" \in moved')
    BY DEF Collect, Burn, Rebalance, Asked, Reads, ReadsNothing
  <2> QED BY <2>1 DEF IInv, StageOK, Pending, NoTx
<1>2. p.liquidity \in Nat /\ p.owed \in Nat
  BY <1>1 DEF ChainRec
<1>3. CASE Refuse
  BY <1>1, <1>3, RefuseStep
<1>4. CASE Collect
  <2> DEFINE fields == [op |-> "uniswap_v3_collect"]
  <2>1. Make(fields) /\ call.req.tool = "uniswap_v3_collect"
    BY <1>4 DEF Collect, Asked
  <2>2. DOMAIN fields = {"op"} /\ fields.op = "uniswap_v3_collect"
    OBVIOUS
  <2> HIDE DEF fields
  <2> QED BY <1>1, <2>1, <2>2, FreeMake
<1>5. CASE Burn /\ ~Refuse
  <2> DEFINE fields == [op |-> "uniswap_v3_burn"]
  <2>1. Make(fields) /\ call.req.tool = "uniswap_v3_burn" /\ p.liquidity = 0 /\ p.owed = 0
    BY <1>2, <1>5 DEF Burn, Asked
  <2>2. DOMAIN fields = {"op"} /\ fields.op = "uniswap_v3_burn"
    OBVIOUS
  <2> HIDE DEF fields
  <2>3. /\ call'.pc = "made" /\ call'.req = call.req /\ tx'.op = "uniswap_v3_burn"
        /\ TxOK' /\ GateOK' /\ PositionOK' /\ LevelOK' => IInv'
    BY <1>1, <2>1, <2>2, MakeStep
  <2>4. TxOK'
    BY <2>1, <2>3 DEF TxOK, PaysAsNamed, AmountAsNamed, ThirdParty, InTokens
  <2>5. GateOK' /\ LevelOK' /\ PositionOK'
    BY <1>1, <2>1, <2>3 DEF GateOK, LevelOK, PositionOK, Gated
  <2> QED BY <2>3, <2>4, <2>5
<1>6. CASE Rebalance /\ ~Refuse
  <2>1. PICK expected : expected = ExpectedAmounts(p.liquidity)
    OBVIOUS
  <2> DEFINE fields == [op |-> "uniswap_v3_rebalance", liquidity |-> p.liquidity,
                        amount |-> expected, min |-> Floors(expected, call.req),
                        range |-> Snapped(call.req.prices, call.req.spacing)]
  <2>2. Make(fields) /\ call.req.tool = "uniswap_v3_rebalance" /\ p.mine
    BY <1>6, <2>1 DEF Rebalance, Asked
  <2>3. DOMAIN fields = {"op", "liquidity", "amount", "min", "range"} /\ "liquidity" \in DOMAIN NoTx
        /\ fields.op = "uniswap_v3_rebalance" /\ fields.liquidity = p.liquidity
    BY DEF NoTx
  <2> HIDE DEF fields
  <2>4. /\ call'.pc = "made" /\ call'.req = call.req /\ tx'.op = "uniswap_v3_rebalance"
        /\ tx'.liquidity = p.liquidity
        /\ TxOK' /\ GateOK' /\ PositionOK' /\ LevelOK' => IInv'
    BY <1>1, <2>2, <2>3, MakeStep
  <2>5. TxOK'
    BY <2>2, <2>4 DEF TxOK, PaysAsNamed, AmountAsNamed, ThirdParty, InTokens
  <2>6. GateOK' /\ LevelOK' /\ PositionOK'
    BY <1>1, <2>2, <2>4 DEF GateOK, LevelOK, PositionOK, Gated
  <2> QED BY <2>4, <2>5, <2>6
<1> QED BY <1>3, <1>4, <1>5, <1>6

-----------------------------------------------------------------------------
(* Staking and Curve                                                        *)

\* A transaction for an amount, after a check of the level.
LEMMA StakeMake ==
    ASSUME IInv, NEW fields, Make(fields), UNCHANGED chain, call.pc # "made",
           fields.op = call.req.tool, {"op", "amount"} \subseteq DOMAIN fields,
           DOMAIN fields \cap {"outcome", "paid", "got"} = {},
           fields.amount = <<call.req.amount, 0>>,
           "pools" \in moved => "pools" \in moved',
           call.req.tool \in {"lido_wrap", "lido_unstake", "eigenlayer_deposit", "rocketpool_stake",
                              "rocketpool_unstake"},
           call.req.tool \in Gated /\ "allowance" \notin moved' => AllowanceCovers(<<call.req.amount, 0>>),
           call.req.tool = "lido_unstake" => "min" \in DOMAIN fields /\ fields.min[1] = chain.level + 1,
           call.req.tool = "rocketpool_stake" =>
              /\ "min" \in DOMAIN fields
              /\ fields.min[1] \in {chain.level, FallbackMinimum}
              /\ ~(call.req.amount < fields.min[1]),
           call.req.tool = "rocketpool_unstake" => ~(chain.level < call.req.amount)
    PROVE  IInv'
<1>1. "amount" \in DOMAIN NoTx /\ "min" \in DOMAIN NoTx
  BY DEF NoTx
<1>2. /\ call'.pc = "made" /\ call'.req = call.req /\ tx'.op = call.req.tool
      /\ tx'.amount = <<call.req.amount, 0>>
      /\ "min" \in DOMAIN fields => tx'.min = fields.min
      /\ TxOK' /\ GateOK' /\ PositionOK' /\ LevelOK' => IInv'
  BY <1>1, MakeStep
<1>3. TxOK'
  BY <1>2 DEF TxOK, PaysAsNamed, AmountAsNamed, ThirdParty, InTokens
<1>4. GateOK'
  <2>1. AllowanceCovers(<<call.req.amount, 0>>)' = AllowanceCovers(<<call.req.amount, 0>>)
    BY <1>2 DEF AllowanceCovers
  <2>2. call'.req.tool \in Gated => AllowanceCovers(tx.amount)' = AllowanceCovers(<<call.req.amount, 0>>)
    BY <1>2 DEF AllowanceCovers
  <2> QED BY <1>2, <2>2 DEF GateOK
<1>5. LevelOK' /\ PositionOK'
  BY <1>2 DEF LevelOK, PositionOK
<1> QED BY <1>2, <1>3, <1>4, <1>5

LEMMA StakeStep ==
    ASSUME IInv, LidoStake \/ LidoUnwrap \/ LidoQueue \/ RocketPoolStake \/ RocketPoolUnstake
                   \/ EigenLayerDeposit \/ CurveSwap \/ CurveAddLiquidity
    PROVE  IInv'
<1> DEFINE r == call.req
<1>1. call.pc \in {"asked", "queue"} /\ UNCHANGED chain /\ ("pools" \in moved => "pools" \in moved')
      /\ call.pc # "made" /\ chain \in ChainRec /\ GateOK
  <2>1. call.pc \in {"asked", "queue"} /\ UNCHANGED chain /\ ("pools" \in moved => "pools" \in moved')
    BY DEF LidoStake, LidoUnwrap, LidoQueue, RocketPoolStake, RocketPoolUnstake, EigenLayerDeposit,
           CurveSwap, CurveAddLiquidity, CurveTrade, Asked, Reads, ReadsNothing
  <2> QED BY <2>1 DEF IInv, StageOK, Pending, NoTx
<1>2. CASE Refuse
  BY <1>1, <1>2, RefuseStep
<1>3. CASE (LidoStake \/ LidoUnwrap) /\ ~Refuse
  <2>1. PICK tool \in {"lido_stake", "lido_unwrap"} :
            r.tool = tool /\ Make([op |-> tool, amount |-> <<r.amount, 0>>])
    BY <1>3 DEF LidoStake, LidoUnwrap, Asked
  <2> DEFINE fields == [op |-> tool, amount |-> <<r.amount, 0>>]
  <2>2. DOMAIN fields = {"op", "amount"} /\ fields.op = tool /\ Make(fields)
    BY <2>1
  <2> HIDE DEF fields
  <2> QED BY <1>1, <2>1, <2>2, FreeMake
<1>4. CASE LidoQueue /\ ~Refuse
  <2> DEFINE fields == [op |-> "lido_unstake", amount |-> <<r.amount, 0>>, min |-> <<chain.level + 1, 0>>]
  <2>1. Make(fields) /\ call.pc = "queue" /\ moved' = moved \ {"level"}
    BY <1>4 DEF LidoQueue, Reads
  <2>2. DOMAIN fields = {"op", "amount", "min"} /\ fields.op = "lido_unstake"
        /\ fields.amount = <<r.amount, 0>> /\ fields.min[1] = chain.level + 1
    OBVIOUS
  <2>3. r.tool = "lido_unstake" /\ ("allowance" \notin moved' => AllowanceCovers(<<r.amount, 0>>))
    BY <1>1, <2>1 DEF IInv, StageOK, GateOK
  <2> HIDE DEF fields
  <2> QED BY <1>1, <2>1, <2>2, <2>3, StakeMake
<1>5. CASE RocketPoolStake /\ ~Refuse
  <2>1. PICK minimum \in {chain.level, FallbackMinimum} :
            /\ ~(r.amount < minimum)
            /\ Make([op |-> "rocketpool_stake", amount |-> <<r.amount, 0>>, min |-> <<minimum, 0>>])
    BY <1>5 DEF RocketPoolStake
  <2> DEFINE fields == [op |-> "rocketpool_stake", amount |-> <<r.amount, 0>>, min |-> <<minimum, 0>>]
  <2>2. DOMAIN fields = {"op", "amount", "min"} /\ fields.op = "rocketpool_stake" /\ Make(fields)
        /\ fields.amount = <<r.amount, 0>> /\ fields.min[1] = minimum
    BY <2>1
  <2>3. r.tool = "rocketpool_stake"
    BY <1>5 DEF RocketPoolStake, Asked
  <2> HIDE DEF fields
  <2> QED BY <1>1, <2>1, <2>2, <2>3, StakeMake DEF Gated
<1>6. CASE RocketPoolUnstake /\ ~Refuse
  <2> DEFINE fields == [op |-> "rocketpool_unstake", amount |-> <<r.amount, 0>>]
  <2>1. Make(fields) /\ r.tool = "rocketpool_unstake" /\ ~(chain.level < r.amount)
    BY <1>6 DEF RocketPoolUnstake, Asked
  <2>2. DOMAIN fields = {"op", "amount"} /\ fields.op = "rocketpool_unstake" /\ fields.amount = <<r.amount, 0>>
    OBVIOUS
  <2> HIDE DEF fields
  <2> QED BY <1>1, <2>1, <2>2, StakeMake DEF Gated
<1>7. CASE EigenLayerDeposit /\ ~Refuse
  <2> DEFINE fields == [op |-> "eigenlayer_deposit", amount |-> <<r.amount, 0>>]
  <2>1. Make(fields) /\ r.tool = "eigenlayer_deposit" /\ ~(chain.allowance[1] < r.amount)
    BY <1>7 DEF EigenLayerDeposit, Asked
  <2>2. DOMAIN fields = {"op", "amount"} /\ fields.op = "eigenlayer_deposit" /\ fields.amount = <<r.amount, 0>>
    OBVIOUS
  <2>3. r.amount \in Nat /\ chain.allowance \in Nat \X Nat
    BY <1>1, <2>1, RequestAssumption DEF IInv, CallRec, ChainRec
  <2>4. AllowanceCovers(<<r.amount, 0>>)
    BY <2>1, <2>3 DEF AllowanceCovers
  <2> HIDE DEF fields
  <2> QED BY <1>1, <2>1, <2>2, <2>4, StakeMake
<1>8. CASE (CurveSwap \/ CurveAddLiquidity) /\ ~Refuse
  <2>1. PICK tool \in {"curve_swap", "curve_add_liquidity"} : CurveTrade(tool)
    BY <1>8 DEF CurveSwap, CurveAddLiquidity
  <2> DEFINE low == SlippageFloor(chain.level * call.req.amount, call.req.slippage)
             fields == [op |-> tool, amount |-> <<call.req.amount, 0>>, min |-> <<0, low>>]
  <2>2. Refuse \/ Make(fields)
    BY <2>1 DEF CurveTrade
  <2> HIDE DEF fields, low
  <2>3. Make(fields) /\ r.tool = tool
    <3>1. r.tool = tool
      BY <2>1 DEF CurveTrade, Asked
    <3>2. ~Refuse
      BY <1>8
    <3> QED BY <2>2, <3>1, <3>2
  <2> USE DEF fields
  <2>4. DOMAIN fields = {"op", "amount", "min"} /\ fields.op = tool
    OBVIOUS
  <2> HIDE DEF fields
  <2> QED BY <1>1, <2>3, <2>4, FreeMake
<1> QED BY <1>2, <1>3, <1>4, <1>5, <1>6, <1>7, <1>8

-----------------------------------------------------------------------------
(* The allowance gates                                                      *)

LEMMA GateStep ==
    ASSUME IInv, AllowanceGate
    PROVE  IInv'
<1> DEFINE r == call.req
<1>1. call.pc = "allowance" /\ UNCHANGED chain /\ moved' = moved \ {"allowance"}
      /\ ("pools" \in moved => "pools" \in moved') /\ call.pc # "made"
  BY DEF AllowanceGate, Reads
<1>2. CASE Refuse
  BY <1>1, <1>2, RefuseStep
<1>3. CASE r.tool = "uniswap_swap" /\ AllowanceCovers(<<r.amount, 0>>) /\ Make(SwapTx)
  <2>1. SwapAccepts(r) /\ ~(call.single = None /\ call.multi = None)
    BY <1>1, <1>3 DEF IInv, StageOK
  <2> QED BY <1>1, <1>3, <2>1, SwapFields
<1>4. CASE r.tool \in {"uniswap_v3_mint", "uniswap_v3_increase_liquidity"}
           /\ AllowanceCovers(LiquidityTx(r.tool).amount) /\ Make(LiquidityTx(r.tool))
  <2>1. PICK tool : tool = r.tool
    OBVIOUS
  <2> QED BY <1>1, <1>4, <2>1, PositionFields
<1>5. CASE r.tool = "lido_wrap" /\ AllowanceCovers(<<r.amount, 0>>)
           /\ Make([op |-> "lido_wrap", amount |-> <<r.amount, 0>>])
  <2> DEFINE fields == [op |-> "lido_wrap", amount |-> <<r.amount, 0>>]
  <2>1. Make(fields) /\ DOMAIN fields = {"op", "amount"} /\ fields.op = "lido_wrap"
        /\ fields.amount = <<r.amount, 0>>
    BY <1>5
  <2> HIDE DEF fields
  <2> QED BY <1>1, <1>5, <2>1, StakeMake
<1>6. CASE r.tool = "lido_unstake" /\ AllowanceCovers(<<r.amount, 0>>) /\ Goes("queue")
  <2>1. /\ call'.pc = "queue" /\ call'.req = call.req
        /\ StageOK' /\ AllowanceCovers(<<call.req.amount, 0>>)' => IInv'
    BY <1>1, <1>6, GoesStep
  <2>2. AllowanceCovers(<<call.req.amount, 0>>)'
    BY <1>1, <1>6, <2>1 DEF AllowanceCovers
  <2>3. tx' = NoTx'
    BY <1>1, <1>6 DEF Goes, IInv, StageOK, NoTx
  <2> QED BY <1>6, <2>1, <2>2, <2>3 DEF StageOK
<1> QED BY <1>2, <1>3, <1>4, <1>5, <1>6 DEF AllowanceGate

LEMMA RefuseCallStep ==
    ASSUME IInv, RefuseCall
    PROVE  IInv'
BY RefuseStep DEF RefuseCall, ReadsNothing

-----------------------------------------------------------------------------
(* The wallet tools                                                         *)

\* An amount that parsed is worth what was named.
LEMMA ParsedIsExact ==
    ASSUME NEW amount \in {Max, Malformed} \cup [n : Nat, places : Nat], NEW decimals \in Nat,
           NEW units, units = parseAmountStrict(amount, decimals), units # None
    PROVE  amount # Max /\ units * TenTo[amount.places] = amount.n * TenTo[decimals]
<1>1. amount # Max /\ amount # Malformed /\ ~(amount.places > decimals)
      /\ units = amount.n * TenTo[decimals - amount.places]
  BY DEF parseAmountStrict
<1>2. amount \in [n : Nat, places : Nat]
  BY <1>1
<1>3. amount.places <= decimals
  BY <1>1, <1>2
<1> QED BY <1>1, <1>2, <1>3, UnitsAreExact

LEMMA WalletMake ==
    ASSUME IInv, NEW fields, Make(fields), call.pc # "made", UNCHANGED <<chain, moved>>,
           fields.op = call.req.tool, {"op", "to"} \subseteq DOMAIN fields,
           DOMAIN fields \subseteq {"op", "amount", "to", "route"},
           call.req.tool \in ThirdParty \cup InTokens \cup {"solana_lifi_swap"},
           call.req.tool \in ThirdParty => fields.to = call.req.to,
           call.req.tool \in InTokens \ ThirdParty => fields.to = Caller,
           call.req.tool \in ThirdParty \cup InTokens => "amount" \in DOMAIN fields,
           call.req.tool \in InTokens =>
              IF call.req.amount = Max
              THEN call.req.tool = "token_approve" /\ fields.amount[1] = MaxUint256
              ELSE fields.amount[1] * TenTo[call.req.amount.places] =
                      call.req.amount.n * TenTo[DecimalsOf(call.req)],
           call.req.tool = "revoke_approval" => fields.amount[1] = 0,
           call.req.tool = "solana_lifi_swap" => "route" \in DOMAIN fields /\ fields.to = fields.route.recipient
    PROVE  IInv'
<1>1. "amount" \in DOMAIN NoTx /\ "to" \in DOMAIN NoTx /\ "route" \in DOMAIN NoTx
  BY DEF NoTx
<1>2. /\ call'.pc = "made" /\ call'.req = call.req /\ tx'.op = call.req.tool
      /\ tx'.to = fields.to
      /\ "amount" \in DOMAIN fields => tx'.amount = fields.amount
      /\ "route" \in DOMAIN fields => tx'.route = fields.route
      /\ TxOK' /\ GateOK' /\ PositionOK' /\ LevelOK' => IInv'
  BY <1>1, MakeStep
<1>3. PaysAsNamed'
  BY <1>2 DEF PaysAsNamed
<1>4. AmountAsNamed'
  BY <1>2 DEF AmountAsNamed
<1>5. TxOK'
  BY <1>2, <1>3, <1>4 DEF TxOK, ThirdParty, InTokens
<1>6. GateOK' /\ PositionOK' /\ LevelOK'
  BY <1>2 DEF GateOK, PositionOK, LevelOK, Gated, ThirdParty, InTokens
<1> QED BY <1>2, <1>5, <1>6

\* The four tools that move a token.
LEMMA MovesTokensStep ==
    ASSUME IInv, NEW tool \in {"token_send", "weth_unwrap", "aave_supply", "aave_withdraw"},
           NEW decimals \in Nat, NEW to, MovesTokens(tool, decimals, to),
           decimals = DecimalsOf(call.req), to = IF tool = "token_send" THEN call.req.to ELSE Caller
    PROVE  IInv'
<1> DEFINE r == call.req
<1>1. PICK units : units = parseAmountStrict(r.amount, decimals)
  OBVIOUS
<1>2. call.pc = "asked" /\ r.tool = tool /\ UNCHANGED <<chain, moved>>
      /\ (Refuse \/ (units # None /\ Make(TokenTx(tool, units, to))))
  BY <1>1 DEF MovesTokens, Asked, ReadsNothing
<1>3. CASE Refuse
  BY <1>2, <1>3, RefuseStep
<1>4. CASE units # None /\ Make(TokenTx(tool, units, to))
  <2> DEFINE fields == TokenTx(tool, units, to)
  <2>1. DOMAIN fields = {"op", "amount", "to"} /\ fields.op = tool /\ fields.to = to
        /\ fields.amount[1] = units
    BY DEF TokenTx
  <2>2. r.amount \in {Max, Malformed} \cup [n : Nat, places : Nat]
    BY <1>2, WalletAssumption DEF IInv, CallRec, InTokens
  <2>3. r.amount # Max /\ units * TenTo[r.amount.places] = r.amount.n * TenTo[decimals]
    BY <1>1, <1>4, <2>2, ParsedIsExact
  <2>4. Make(fields)
    BY <1>4
  <2> HIDE DEF fields
  <2>5. /\ tool \in ThirdParty => fields.to = r.to
        /\ tool \in InTokens \ ThirdParty => fields.to = Caller
        /\ tool \in InTokens
    BY <2>1 DEF ThirdParty, InTokens
  <2> QED BY <1>2, <2>1, <2>3, <2>4, <2>5, WalletMake
<1> QED BY <1>2, <1>3, <1>4

LEMMA WalletStep ==
    ASSUME IInv, NativeSend \/ CustomCall \/ TokenSend \/ TokenApprove \/ RevokeApproval \/ WethUnwrap
                   \/ AaveSupply \/ AaveWithdraw \/ SolanaLifiSwap
    PROVE  IInv'
<1> DEFINE r == call.req
<1>1. r \in Requests
  BY DEF IInv, CallRec
<1>2. CASE NativeSend \/ CustomCall
  <2>1. PICK tool \in {"native_send", "custom_call"} :
            /\ call.pc = "asked" /\ r.tool = tool /\ UNCHANGED <<chain, moved>>
            /\ Refuse \/ Make(ValueTx(tool, r.value))
    BY <1>2 DEF NativeSend, CustomCall, Asked, ReadsNothing
  <2>2. CASE Refuse
    BY <2>1, <2>2, RefuseStep
  <2>3. CASE Make(ValueTx(tool, r.value))
    <3> DEFINE fields == ValueTx(tool, r.value)
    <3>1. DOMAIN fields = {"op", "amount", "to"} /\ fields.op = tool /\ fields.to = r.to /\ Make(fields)
      BY <2>3 DEF ValueTx
    <3> HIDE DEF fields
    <3>2. r.tool \in ThirdParty /\ r.tool \notin InTokens
      BY <2>1 DEF ThirdParty, InTokens
    <3> QED BY <2>1, <3>1, <3>2, WalletMake
  <2> QED BY <2>1, <2>2, <2>3
<1>3. CASE TokenSend \/ AaveSupply \/ AaveWithdraw
  <2>1. PICK tool \in {"token_send", "aave_supply", "aave_withdraw"} :
            MovesTokens(tool, Decimals[r.token], IF tool = "token_send" THEN r.to ELSE Caller)
    BY <1>3 DEF TokenSend, AaveSupply, AaveWithdraw, resolveDecimals
  <2>2. r.tool = tool
    BY <2>1 DEF MovesTokens, Asked
  <2>3. PICK decimals \in Nat : decimals = Decimals[r.token] /\ decimals = DecimalsOf(r)
    BY <1>1, <2>2, WalletAssumption DEF DecimalsOf
  <2>4. PICK to : to = IF tool = "token_send" THEN r.to ELSE Caller
    OBVIOUS
  <2> QED BY <2>1, <2>3, <2>4, MovesTokensStep
<1>4. CASE WethUnwrap
  <2>1. MovesTokens("weth_unwrap", NativeDecimals, Caller) /\ r.tool = "weth_unwrap"
    BY <1>4 DEF WethUnwrap, MovesTokens, Asked
  <2>2. NativeDecimals \in Nat /\ NativeDecimals = DecimalsOf(r)
    BY <2>1, WalletAssumption DEF DecimalsOf
  <2> QED BY <2>1, <2>2, MovesTokensStep
<1>5. CASE TokenApprove
  <2>1. PICK units : units = IF r.amount = Max THEN MaxUint256
                             ELSE parseAmountStrict(r.amount, Decimals[r.token])
    OBVIOUS
  <2>2. call.pc = "asked" /\ r.tool = "token_approve" /\ UNCHANGED <<chain, moved>>
        /\ (Refuse \/ (units # None /\ Make(TokenTx("token_approve", units, r.to))))
    BY <1>5, <2>1 DEF TokenApprove, prepareApproveInternal, resolveDecimals, Asked, ReadsNothing
  <2>3. CASE Refuse
    BY <2>2, <2>3, RefuseStep
  <2>4. CASE units # None /\ Make(TokenTx("token_approve", units, r.to))
    <3> DEFINE fields == TokenTx("token_approve", units, r.to)
    <3>1. DOMAIN fields = {"op", "amount", "to"} /\ fields.op = "token_approve" /\ fields.to = r.to
          /\ fields.amount[1] = units /\ Make(fields)
      BY <2>4 DEF TokenTx
    <3>2. PICK decimals \in Nat : decimals = Decimals[r.token] /\ decimals = DecimalsOf(r)
      BY <1>1, <2>2, WalletAssumption DEF DecimalsOf
    <3>3. r.amount \in {Max, Malformed} \cup [n : Nat, places : Nat]
      BY <1>1, <2>2, WalletAssumption DEF InTokens
    <3>4. r.amount # Max => units * TenTo[r.amount.places] = r.amount.n * TenTo[decimals]
      BY <2>1, <2>4, <3>2, <3>3, ParsedIsExact
    <3>5. r.amount = Max => units = MaxUint256
      BY <2>1
    <3> HIDE DEF fields
    <3>6. r.tool \in ThirdParty
      BY <2>2 DEF ThirdParty
    <3> QED BY <2>2, <3>1, <3>2, <3>4, <3>5, <3>6, WalletMake
  <2> QED BY <2>2, <2>3, <2>4
<1>6. CASE RevokeApproval
  <2> DEFINE fields == TokenTx("revoke_approval", 0, r.to)
  <2>1. call.pc = "asked" /\ r.tool = "revoke_approval" /\ UNCHANGED <<chain, moved>> /\ Make(fields)
    BY <1>6 DEF RevokeApproval, prepareApproveInternal, Asked, ReadsNothing
  <2>2. DOMAIN fields = {"op", "amount", "to"} /\ fields.op = "revoke_approval" /\ fields.to = r.to
        /\ fields.amount[1] = 0
    BY DEF TokenTx
  <2> HIDE DEF fields
  <2>3. r.tool \in ThirdParty /\ r.tool \notin InTokens
    BY <2>1 DEF ThirdParty, InTokens
  <2> QED BY <2>1, <2>2, <2>3, WalletMake
<1>7. CASE SolanaLifiSwap
  <2>1. PICK quote \in LifiQuote :
            /\ call.pc = "asked" /\ r.tool = "solana_lifi_swap" /\ UNCHANGED <<chain, moved>>
            /\ Refuse \/ Make([op |-> "solana_lifi_swap", to |-> quote.recipient, route |-> quote])
    BY <1>7 DEF SolanaLifiSwap, Asked, ReadsNothing
  <2>2. CASE Refuse
    BY <2>1, <2>2, RefuseStep
  <2>3. CASE Make([op |-> "solana_lifi_swap", to |-> quote.recipient, route |-> quote])
    <3> DEFINE fields == [op |-> "solana_lifi_swap", to |-> quote.recipient, route |-> quote]
    <3>1. DOMAIN fields = {"op", "to", "route"} /\ fields.op = "solana_lifi_swap"
          /\ fields.to = fields.route.recipient /\ Make(fields)
      BY <2>3
    <3> HIDE DEF fields
    <3>2. r.tool \notin ThirdParty /\ r.tool \notin InTokens
      BY <2>1 DEF ThirdParty, InTokens
    <3> QED BY <2>1, <3>1, <3>2, WalletMake
  <2> QED BY <2>1, <2>2, <2>3
<1> QED BY <1>2, <1>3, <1>4, <1>5, <1>6, <1>7

-----------------------------------------------------------------------------
(* The chain moves                                                          *)

LEMMA MovesStep ==
    ASSUME IInv, NEW part \in Parts, Moves(part)
    PROVE  IInv'
<1>1. /\ tx.outcome = "none" /\ moved' = moved \cup {part} /\ UNCHANGED <<call, tx>>
  BY DEF Moves
<1>2. PICK value \in ValuesOf(part) : chain' = [chain EXCEPT ![part] = value]
  BY DEF Moves
<1>3. chain \in ChainRec /\ QuotesOK /\ GateOK /\ PositionOK /\ LevelOK /\ tx.paid = <<0, 0>>
  BY <1>1 DEF IInv, Pending
<1>4. /\ part # "pools" => chain'.pools = chain.pools
      /\ part # "allowance" => chain'.allowance = chain.allowance
      /\ part # "position" => chain'.position = chain.position
      /\ part # "level" => chain'.level = chain.level
  BY <1>2, <1>3 DEF ChainRec, Parts
<1>5. chain' \in ChainRec
  BY <1>2, <1>3, ValuesAreTyped DEF ChainRec, Parts
<1>6. QuotesOK'
  BY <1>1, <1>3, <1>4 DEF QuotesOK
<1>7. GateOK'
  <2>1. "allowance" \notin moved' => "allowance" \notin moved /\ chain'.allowance = chain.allowance
    BY <1>1, <1>4
  <2> QED BY <1>1, <1>3, <2>1 DEF GateOK, AllowanceCovers
<1>8. PositionOK' /\ LevelOK'
  BY <1>1, <1>3, <1>4 DEF PositionOK, LevelOK
<1>9. TxOK'
  BY <1>1 DEF IInv, TxOK, SwapRouteTaken, SwapValue, Quoted, MultiWins, PaysAsNamed,
                           AmountAsNamed
<1> QED BY <1>1, <1>3, <1>5, <1>6, <1>7, <1>8, <1>9 DEF IInv, Pending, EndsWell, StageOK

-----------------------------------------------------------------------------
(* The transaction executes                                                 *)

Going == call.pc = "made" /\ tx.outcome = "none" /\ UNCHANGED <<call, moved>>

LEMMA EndStep ==
    ASSUME IInv, Going, NEW outcome, outcome # "none", NEW paid, NEW got, Ends(outcome, paid, got)
    PROVE  /\ tx'.outcome = outcome /\ tx'.paid = paid /\ tx'.got = got
           /\ tx'.op = tx.op /\ tx'.op = call.req.tool /\ tx'.min = tx.min /\ tx'.amount = tx.amount
           /\ tx'.liquidity = tx.liquidity /\ tx'.route = tx.route /\ tx'.to = tx.to
           /\ TxOK' /\ StageOK' /\ PaysAsNamed' /\ AmountAsNamed'
           /\ EndsWell' => IInv'
<1>1. tx' = [tx EXCEPT !.outcome = outcome, !.paid = paid, !.got = got] /\ DOMAIN tx = DOMAIN NoTx
  BY DEF Ends, IInv
<1>2. DOMAIN NoTx = {"op", "amount", "min", "route", "to", "value", "liquidity", "range",
                       "outcome", "paid", "got"}
  BY DEF NoTx
<1>3. /\ tx'.outcome = outcome /\ tx'.paid = paid /\ tx'.got = got
      /\ tx'.op = tx.op /\ tx'.min = tx.min /\ tx'.amount = tx.amount
      /\ tx'.liquidity = tx.liquidity /\ tx'.route = tx.route /\ tx'.range = tx.range /\ tx'.to = tx.to
      /\ tx'.value = tx.value
      /\ DOMAIN tx' = DOMAIN NoTx
  BY <1>1, <1>2
<1>4. call' = call /\ call.pc = "made"
  BY DEF Going
<1>5. TxOK' /\ StageOK' /\ tx.op = call.req.tool
  BY <1>3, <1>4 DEF IInv, TxOK, StageOK, SwapRouteTaken, SwapValue, Quoted, MultiWins, PaysAsNamed,
                           AmountAsNamed
<1>6. PaysAsNamed' /\ AmountAsNamed'
  BY <1>4, <1>5 DEF TxOK
<1> QED BY <1>3, <1>4, <1>5, <1>6 DEF IInv, Pending

\* The amounts that a position was asked for, and its range.
LEMMA AskedAmounts ==
    ASSUME IInv, call.pc = "made", tx.op \in {"uniswap_v3_mint", "uniswap_v3_increase_liquidity"}
    PROVE  /\ tx.amount \in Nat \X Nat
           /\ tx.range[1] \in DOMAIN SqrtAt /\ tx.range[2] \in DOMAIN SqrtAt /\ tx.range[1] < tx.range[2]
<1>1. call.req \in Requests /\ call.req.tool = tx.op
  BY DEF IInv, CallRec, TxOK
<1>2. call.req.amounts \in Nat \X Nat
  BY <1>1, RequestAssumption
<1>3. CASE tx.op = "uniswap_v3_mint"
  <2>1. tx.amount = DesiredAmounts(call.req) /\ tx.range = Snapped(AskedRange(call.req), call.req.spacing)
        /\ RangeOk(AskedRange(call.req), call.req.spacing)
    BY <1>3 DEF IInv, TxOK
  <2>2. \A i \in {1, 2} : Snapped(AskedRange(call.req), call.req.spacing)[i] \in DOMAIN SqrtAt
    BY <1>1, <1>3, <2>1, RequestAssumption
  <2>3. Snapped(AskedRange(call.req), call.req.spacing)[1] < Snapped(AskedRange(call.req), call.req.spacing)[2]
    BY <2>1 DEF RangeOk
  <2>4. DesiredAmounts(call.req) \in Nat \X Nat
    BY <1>2 DEF DesiredAmounts, Swapped
  <2> QED BY <2>1, <2>2, <2>3, <2>4
<1>4. CASE tx.op = "uniswap_v3_increase_liquidity"
  <2>1. tx.amount = call.req.amounts /\ tx.range = OldRange
    BY <1>4 DEF IInv, TxOK
  <2> QED BY <1>2, <2>1, SqrtAssumption
<1> QED BY <1>3, <1>4

LEMMA FailStep ==
    ASSUME IInv, Going, NEW outcome \in {"reverted", "allowance", "tooLittle", "position", "level", "cap"},
           Fails(outcome),
           outcome = "allowance" => \/ "allowance" \in moved
                                    \/ tx.op \in {"uniswap_v3_rebalance", "curve_swap",
                                                  "curve_add_liquidity", "aave_supply"}
                                    \/ (tx.op = "uniswap_swap" /\ call.req.ethIn
                                          /\ tx.route = Multi),
           outcome = "position" =>
              \/ "position" \in moved
              \/ tx.op = "uniswap_v3_collect"
              \/ tx.op = "uniswap_v3_decrease_liquidity"
                   /\ (call.req.delta # None \/ ~chain.position.mine),
           outcome = "level" => \/ "level" \in moved
                                \/ tx.op = "rocketpool_stake" /\ tx.min[1] = FallbackMinimum,
           outcome = "tooLittle" /\ tx.op = "uniswap_swap" => call.req.ethOut \/ "pools" \in moved
    PROVE  IInv'
<1>1. /\ tx'.outcome = outcome /\ tx'.paid = <<0, 0>>
      /\ tx'.op = tx.op /\ tx'.min = tx.min /\ tx'.amount = tx.amount /\ tx'.route = tx.route
      /\ TxOK' /\ PaysAsNamed' /\ AmountAsNamed'
      /\ EndsWell' => IInv'
  BY EndStep DEF Fails
<1>2. chain' = chain /\ call' = call /\ moved' = moved /\ call.pc = "made"
  BY DEF Fails, Going
<1>3. ChecksHold' /\ SwapDelivers' /\ NothingLeftBehind'
  BY <1>1, <1>2 DEF ChecksHold, SwapDelivers, NothingLeftBehind
<1>4. tx.op = "uniswap_v3_mint" => 0 <= tx.amount[1] /\ 0 <= tx.amount[2]
  BY <1>2, AskedAmounts
<1>5. MovesAsNamed'
  BY <1>1 DEF MovesAsNamed
<1> QED BY <1>1, <1>3, <1>4, <1>5 DEF EndsWell

LEMMA DoneStep ==
    ASSUME IInv, Going, NEW paid, NEW got, Ends("done", paid, got),
           tx.op = "lido_unstake" /\ "level" \notin moved => got[1] = tx.min[1],
           tx.op = "uniswap_v3_mint" => paid[1] <= tx.amount[1] /\ paid[2] <= tx.amount[2],
           "position" \notin moved =>
              /\ tx.op = "uniswap_v3_rebalance" =>
                     chain'.position.liquidity = 0 /\ chain'.position.owed = 0
              /\ tx.op = "uniswap_v3_decrease_liquidity" /\ call.req.percent = 100 =>
                     chain'.position.liquidity = 0,
           tx.op = "revoke_approval" => chain'.allowance[1] = 0,
           tx.op = "solana_lifi_swap" /\ tx.route.bridge # "unknown" => tx.to = call.req.to
    PROVE  IInv'
<1>1. /\ tx'.outcome = "done" /\ tx'.paid = paid /\ tx'.got = got
      /\ tx'.op = tx.op /\ tx'.min = tx.min /\ tx'.amount = tx.amount /\ tx'.route = tx.route
      /\ tx'.to = tx.to
      /\ PaysAsNamed' /\ AmountAsNamed'
      /\ EndsWell' => IInv'
  BY EndStep
<1>2. call' = call /\ moved' = moved
  BY DEF Going
<1>3. ChecksHold' /\ SwapDelivers' /\ NothingLeftBehind'
  BY <1>1, <1>2 DEF ChecksHold, SwapDelivers, NothingLeftBehind
<1>4. MovesAsNamed'
  BY <1>1, <1>2 DEF MovesAsNamed
<1> QED BY <1>1, <1>3, <1>4 DEF EndsWell

\* A swap into a token whose pools did not move pays what its floor asks.
LEMMA SwapFits ==
    ASSUME IInv, Going, tx.op = "uniswap_swap", ~call.req.ethOut, "pools" \notin moved,
           NEW out, out = Out(chain.pools[tx.route], tx.amount[1]), out # None
    PROVE  ~(out < tx.min[2])
<1> DEFINE r == call.req
<1>1. /\ tx.amount = <<r.amount, 0>> /\ tx.route = SwapRouteTaken /\ r.tool = "uniswap_swap"
      /\ tx.min[2] = SlippageFloor(Quoted, SlippageOf(r))
      /\ SwapAccepts(r) /\ ~(call.single = None /\ call.multi = None)
      /\ QuotesOK /\ call \in CallRec
  BY DEF IInv, TxOK, Pending, Going
<1>2. /\ call.single # None =>
            call.single \in [route : Tiers, out : Nat]
            /\ call.single.out = Out(chain.pools[call.single.route], r.amount)
      /\ call.multi # None => call.multi \in Nat /\ call.multi = Out(chain.pools[Multi], r.amount)
  BY <1>1 DEF QuotesOK, CallRec
<1>3. tx.amount[1] = r.amount
  BY <1>1
<1>4. Quoted \in Nat /\ Quoted = out
  <2>1. CASE MultiWins
    <3>1. tx.route = Multi /\ Quoted = call.multi /\ call.multi # None
      BY <1>1, <2>1 DEF SwapRouteTaken, Quoted, MultiWins
    <3> QED BY <1>2, <1>3, <3>1
  <2>2. CASE ~MultiWins
    <3>1. call.single # None
      BY <1>1, <2>2 DEF MultiWins
    <3>2. tx.route = call.single.route /\ Quoted = call.single.out
      BY <1>1, <2>2 DEF SwapRouteTaken, Quoted
    <3> QED BY <1>2, <1>3, <3>1, <3>2
  <2> QED BY <2>1, <2>2
<1>5. SlippageOk(r)
  BY <1>1 DEF SwapAccepts
<1>6. PICK bps \in Bps : bps = SlippageOf(r)
  BY <1>5, SlippageIsBps
<1>7. PICK n \in Nat : n = Quoted
  BY <1>4
<1>8. SlippageFloor(n, bps) \in Nat /\ SlippageFloor(n, bps) <= n
  BY FloorIsLess
<1>9. tx.min[2] = SlippageFloor(n, bps)
  BY <1>1, <1>6, <1>7, Zenon
<1>10. PICK low : low = SlippageFloor(n, bps)
  OBVIOUS
<1> QED BY <1>4, <1>7, <1>8, <1>9, <1>10

LEMMA PoolStep ==
    ASSUME IInv, Going, PoolExecutes
    PROVE  IInv'
<1>1. PICK out : out = Out(chain.pools[tx.route], tx.amount[1])
  OBVIOUS
<1>2. /\ tx.op = "uniswap_swap"
      /\ \/ Fails("reverted")
         \/ tx.value < tx.amount[1] /\ chain.allowance[1] < tx.amount[1] /\ Fails("allowance")
         \/ out # None /\ out < tx.min[2] /\ Fails("tooLittle")
         \/ Ends("done", tx.amount, <<0, out>>)
  BY <1>1 DEF PoolExecutes
<1>3. CASE Fails("reverted")
  BY <1>3, FailStep
<1>4. CASE tx.value < tx.amount[1] /\ chain.allowance[1] < tx.amount[1] /\ Fails("allowance")
  <2>1. call.req \in Requests /\ call.req.tool = "uniswap_swap" /\ tx.amount = <<call.req.amount, 0>>
        /\ tx.route = SwapRouteTaken /\ tx.value = SwapValue /\ GateOK /\ chain \in ChainRec
    BY <1>2 DEF IInv, CallRec, TxOK, Pending, Going
  <2>2. tx.amount[1] \in Nat /\ tx.amount[1] = call.req.amount /\ chain.allowance[1] \in Nat
    BY <2>1, RequestAssumption DEF ChainRec
  <2>3. CASE ~call.req.ethIn
    <3>1. "allowance" \in moved
      BY <1>2, <1>4, <2>1, <2>2, <2>3 DEF GateOK, AllowanceCovers
    <3> QED BY <1>4, <3>1, FailStep
  <2>4. CASE call.req.ethIn
    <3>1. tx.route = Multi
      BY <1>4, <2>1, <2>2, <2>4 DEF SwapValue
    <3> QED BY <1>2, <1>4, <2>4, <3>1, FailStep
  <2> QED BY <2>3, <2>4
<1>5. CASE out # None /\ out < tx.min[2] /\ Fails("tooLittle")
  <2>1. call.req.ethOut \/ "pools" \in moved
    BY <1>1, <1>2, <1>5, SwapFits
  <2> QED BY <1>5, <2>1, FailStep
<1>6. CASE Ends("done", tx.amount, <<0, out>>)
  BY <1>2, <1>6, DoneStep
<1> QED BY <1>2, <1>3, <1>4, <1>5, <1>6

\* What a position takes of the two tokens is no more than was asked for.
LEMMA MintedFits ==
    ASSUME IInv, Going, tx.op \in {"uniswap_v3_mint", "uniswap_v3_increase_liquidity"},
           NEW used, used = Minted(tx.amount, tx.range)
    PROVE  used \in Nat \X Nat /\ used[1] <= tx.amount[1] /\ used[2] <= tx.amount[2]
<1>1. /\ tx.amount \in Nat \X Nat
      /\ tx.range[1] \in DOMAIN SqrtAt /\ tx.range[2] \in DOMAIN SqrtAt /\ tx.range[1] < tx.range[2]
  BY AskedAmounts DEF Going
<1>2. PICK a \in Nat \ {0}, b \in Nat \ {0} : a = SqrtAt[tx.range[1]] /\ b = SqrtAt[tx.range[2]] /\ a < b
  BY <1>1, SqrtAssumption
<1>3. PICK p \in Nat \ {0} : p = chain.sqrtPrice
  BY TradeAssumption DEF IInv, Pending, Going, ChainRec
<1>4. PICK x \in Nat, y \in Nat : x = tx.amount[1] /\ y = tx.amount[2]
  BY <1>1
<1>5. used = getAmountsForLiquidity(p, a, b, getLiquidityForAmounts(p, a, b, x, y))
  BY <1>2, <1>3, <1>4 DEF Minted
<1> QED BY <1>2, <1>4, <1>5, UsedFits

LEMMA AddsStep ==
    ASSUME IInv, Going, NEW released, NEW next, Adds(released, next),
           tx.op \in {"uniswap_v3_mint", "uniswap_v3_increase_liquidity", "uniswap_v3_rebalance"},
           tx.op = "uniswap_v3_rebalance" /\ "position" \notin moved =>
              next.liquidity = 0 /\ next.owed = 0
    PROVE  IInv'
<1>1. PICK used : used = Minted(tx.amount, tx.range)
  OBVIOUS
<1>2. \/ Fails("tooLittle")
      \/ ~AllowanceCovers(used) /\ Fails("allowance")
      \/ Ends("done", used, released) /\ chain' = [chain EXCEPT !.position = next]
  BY <1>1 DEF Adds
<1>3. chain \in ChainRec /\ GateOK
  BY DEF IInv, Pending, Going
<1>4. tx.op # "uniswap_v3_rebalance" =>
         used \in Nat \X Nat /\ used[1] <= tx.amount[1] /\ used[2] <= tx.amount[2]
  BY <1>1, MintedFits
<1>5. CASE Fails("tooLittle")
  BY <1>5, FailStep
<1>6. CASE ~AllowanceCovers(used) /\ Fails("allowance")
  <2>1. CASE tx.op = "uniswap_v3_rebalance"
    BY <1>6, <2>1, FailStep
  <2>2. CASE tx.op # "uniswap_v3_rebalance"
    <3>1. tx.amount \in Nat \X Nat /\ chain.allowance \in Nat \X Nat
      BY <1>3, <2>2, AskedAmounts DEF Going, ChainRec
    <3>2. ~AllowanceCovers(tx.amount)
      <4>1. PICK x \in Nat, y \in Nat : x = chain.allowance[1] /\ y = chain.allowance[2]
        BY <3>1
      <4> QED BY <1>4, <1>6, <2>2, <3>1, <4>1 DEF AllowanceCovers
    <3>3. "allowance" \in moved
      BY <1>3, <2>2, <3>2 DEF GateOK, Gated
    <3> QED BY <1>6, <3>3, FailStep
  <2> QED BY <2>1, <2>2
<1>7. CASE Ends("done", used, released) /\ chain' = [chain EXCEPT !.position = next]
  <2>1. chain'.position = next
    BY <1>3, <1>7 DEF ChainRec
  <2> QED BY <1>4, <1>7, <2>1, DoneStep
<1> QED BY <1>2, <1>5, <1>6, <1>7

LEMMA ManagerStep ==
    ASSUME IInv, Going, PositionManagerExecutes
    PROVE  IInv'
<1> DEFINE p == chain.position
<1>1. chain \in ChainRec /\ PositionOK
  BY DEF IInv, Pending, Going
<1>2. p.liquidity \in Nat /\ p.owed \in Nat /\ "liquidity" \in DOMAIN p /\ "owed" \in DOMAIN p
      /\ "position" \in DOMAIN chain
  BY <1>1 DEF ChainRec
<1>3. CASE tx.op \in {"uniswap_v3_mint", "uniswap_v3_increase_liquidity"} /\ Adds(<<0, 0>>, p)
  BY <1>3, AddsStep
<1>4. CASE /\ tx.op = "uniswap_v3_decrease_liquidity"
           /\ ~p.mine \/ p.liquidity < tx.liquidity
           /\ Fails("position")
  <2>1. \/ "position" \in moved
        \/ call.req.delta # None \/ ~p.mine
    BY <1>1, <1>2, <1>4 DEF PositionOK
  <2> QED BY <1>4, <2>1, FailStep
<1>5. CASE /\ tx.op = "uniswap_v3_decrease_liquidity"
           /\ Ends("done", <<0, 0>>, <<0, 0>>)
           /\ chain' = [chain EXCEPT !.position =
                          [p EXCEPT !.liquidity = @ - tx.liquidity, !.owed = 1]]
  <2>1. chain'.position.liquidity = p.liquidity - tx.liquidity
    <3>1. PICK n : n = p.liquidity - tx.liquidity
      OBVIOUS
    <3>2. chain' = [chain EXCEPT !.position = [p EXCEPT !.liquidity = n, !.owed = 1]]
      BY <1>5, <3>1
    <3> QED BY <1>2, <3>1, <3>2
  <2>2. "position" \notin moved /\ call.req.percent = 100 => chain'.position.liquidity = 0
    BY <1>1, <1>2, <1>5, <2>1 DEF PositionOK
  <2> QED BY <1>5, <2>2, DoneStep
<1>6. CASE tx.op = "uniswap_v3_collect" /\ Fails("position")
  BY <1>6, FailStep
<1>7. CASE tx.op = "uniswap_v3_collect" /\ Ends("done", <<0, 0>>, <<0, 0>>)
  BY <1>7, DoneStep
<1>8. CASE tx.op = "uniswap_v3_burn" /\ Fails("reverted")
  BY <1>8, FailStep
<1>9. CASE tx.op = "uniswap_v3_burn" /\ (p.liquidity > 0 \/ p.owed > 0) /\ Fails("position")
  <2>1. "position" \in moved
    BY <1>1, <1>2, <1>9 DEF PositionOK
  <2> QED BY <1>9, <2>1, FailStep
<1>10. CASE tx.op = "uniswap_v3_burn" /\ Ends("done", <<0, 0>>, <<0, 0>>)
  BY <1>10, DoneStep
<1>11. CASE tx.op = "uniswap_v3_rebalance" /\ (~p.mine \/ p.liquidity < tx.liquidity) /\ Fails("position")
  <2>1. "position" \in moved
    BY <1>1, <1>2, <1>11 DEF PositionOK
  <2> QED BY <1>11, <2>1, FailStep
<1>12. CASE /\ tx.op = "uniswap_v3_rebalance"
            /\ Adds(Released(tx.liquidity), [p EXCEPT !.liquidity = @ - tx.liquidity, !.owed = 0])
  <2>1. PICK n : n = p.liquidity - tx.liquidity
    OBVIOUS
  <2>2. PICK released : released = Released(tx.liquidity)
    OBVIOUS
  <2> DEFINE next == [p EXCEPT !.liquidity = n, !.owed = 0]
  <2>3. Adds(released, next)
    BY <1>12, <2>1, <2>2
  <2>4. next.liquidity = n /\ next.owed = 0
    BY <1>2
  <2>5. "position" \notin moved => n = 0
    BY <1>1, <1>2, <1>12, <2>1 DEF PositionOK
  <2> HIDE DEF next
  <2> QED BY <1>12, <2>3, <2>4, <2>5, AddsStep
<1> QED BY <1>3, <1>4, <1>5, <1>6, <1>7, <1>8, <1>9, <1>10, <1>11, <1>12
        DEF PositionManagerExecutes

LEMMA StakingStep ==
    ASSUME IInv, Going, StakingExecutes
    PROVE  IInv'
<1> DEFINE amount == tx.amount[1]
<1>1. chain \in ChainRec /\ GateOK /\ LevelOK
  BY DEF IInv, Pending, Going
<1>2. ASSUME tx.op \in {"lido_wrap", "lido_unstake", "eigenlayer_deposit"}, chain.allowance[1] < amount
      PROVE  "allowance" \in moved
  <2>1. call.req.tool = tx.op /\ tx.amount = <<call.req.amount, 0>> /\ call.req \in Requests
    BY <1>2 DEF IInv, TxOK, Going, CallRec
  <2>2. amount \in Nat /\ chain.allowance[1] \in Nat
    BY <1>1, <1>2, <2>1, RequestAssumption DEF ChainRec
  <2> QED BY <1>1, <1>2, <2>2 DEF GateOK, AllowanceCovers, Gated
<1>3. CASE Fails("allowance") /\ tx.op \in {"lido_wrap", "lido_unstake", "eigenlayer_deposit"}
           /\ chain.allowance[1] < amount
  BY <1>2, <1>3, FailStep
<1>4. CASE Done /\ tx.op \in {"lido_stake", "lido_unwrap", "lido_wrap", "rocketpool_stake",
                              "rocketpool_unstake", "eigenlayer_deposit"}
  <2>1. Ends("done", tx.amount, <<0, 0>>)
    BY <1>4 DEF Done
  <2> QED BY <1>4, <2>1, DoneStep
<1>5. CASE /\ tx.op = "lido_unstake"
           /\ Ends("done", tx.amount, <<chain.level + 1, 0>>) /\ UNCHANGED chain
  <2>1. "level" \notin moved => tx.min[1] = chain.level + 1
    BY <1>1, <1>5 DEF LevelOK
  <2>2. PICK got : got = <<chain.level + 1, 0>>
    OBVIOUS
  <2>3. got[1] = chain.level + 1
    BY <2>2
  <2> QED BY <1>5, <2>1, <2>2, <2>3, DoneStep
<1>6. CASE tx.op = "rocketpool_stake" /\ amount < chain.level /\ Fails("level")
  BY <1>1, <1>6, FailStep DEF LevelOK
<1>7. CASE tx.op = "rocketpool_unstake" /\ chain.level < amount /\ Fails("level")
  BY <1>1, <1>7, FailStep DEF LevelOK
<1>8. CASE tx.op = "eigenlayer_deposit" /\ Fails("cap")
  BY <1>8, FailStep
<1>9. CASE tx.op \in {"curve_swap", "curve_add_liquidity"} /\ (Fails("allowance") \/ Fails("tooLittle"))
  BY <1>9, FailStep
<1>10. CASE /\ tx.op \in {"curve_swap", "curve_add_liquidity"}
            /\ Ends("done", tx.amount, <<0, chain.level * amount>>)
  BY <1>10, DoneStep
<1> QED BY <1>3, <1>4, <1>5, <1>6, <1>7, <1>8, <1>9, <1>10 DEF StakingExecutes

LEMMA ExecuteStep ==
    ASSUME IInv, Execute
    PROVE  IInv'
<1>1. Going /\ (PoolExecutes \/ PositionManagerExecutes \/ StakingExecutes \/ Fails("reverted"))
  BY DEF Execute, Going
<1>2. CASE Fails("reverted")
  BY <1>1, <1>2, FailStep
<1> QED BY <1>1, <1>2, PoolStep, ManagerStep, StakingStep

LEMMA WalletExecutesStep ==
    ASSUME IInv, WalletExecutes
    PROVE  IInv'
<1>1. Going /\ chain \in ChainRec
  BY DEF WalletExecutes, Going, IInv, Pending
<1>2. CASE tx.op \in {"native_send", "custom_call", "token_send", "weth_unwrap", "aave_withdraw",
                      "aave_supply"} /\ Done
  <2>1. Ends("done", tx.amount, <<0, 0>>)
    BY <1>2 DEF Done
  <2> QED BY <1>1, <1>2, <2>1, DoneStep
<1>3. CASE tx.op = "aave_supply" /\ Fails("allowance")
  BY <1>1, <1>3, FailStep
<1>4. CASE /\ tx.op \in {"token_approve", "revoke_approval"}
           /\ Ends("done", <<0, 0>>, <<0, 0>>)
           /\ chain' = [chain EXCEPT !.allowance[1] = tx.amount[1]]
  <2>1. PICK n : n = tx.amount[1]
    OBVIOUS
  <2>2. chain'.allowance[1] = n
    BY <1>1, <1>4, <2>1 DEF ChainRec
  <2>3. tx.op = "revoke_approval" => n = 0
    BY <1>1, <2>1 DEF IInv, TxOK, Going
  <2> QED BY <1>1, <1>4, <2>2, <2>3, DoneStep
<1>5. CASE tx.op = "solana_lifi_swap" /\ FinalRecipientOk(tx.route) /\ Done
  <2>1. Ends("done", tx.amount, <<0, 0>>)
    BY <1>5 DEF Done
  <2>2. tx.route.bridge # "unknown" => tx.to = call.req.to
    BY <1>1, <1>5 DEF FinalRecipientOk, IInv, TxOK, Going
  <2> QED BY <1>1, <1>5, <2>1, <2>2, DoneStep
<1> QED BY <1>2, <1>3, <1>4, <1>5 DEF WalletExecutes

-----------------------------------------------------------------------------
(* Theorems                                                                 *)

\* What a call knows at each of its awaits, and what its transaction says of what was asked
\* and read; that what was compared still holds for whatever part of the chain did not move.
THEOREM TradeInvariance == WalletSpec => []IInv
<1>1. IInv /\ [WalletNext]_vars => IInv'
  <2> SUFFICES ASSUME IInv, [WalletNext]_vars PROVE IInv'
    OBVIOUS
  <2>1. CASE Next
    BY <2>1, SwapStep, QuoteStep, MintStep, DecreaseStep, PositionStep, StakeStep, GateStep,
       RefuseCallStep, ExecuteStep, MovesStep DEF Next
  <2>2. CASE WalletNext /\ ~Next
    BY <2>2, WalletStep, WalletExecutesStep DEF WalletNext
  <2>3. CASE UNCHANGED vars
    <3>1. UNCHANGED <<call, tx, chain, moved>>
      BY <2>3 DEF vars
    <3>2. StageOK' /\ TxOK'
      BY <3>1 DEF IInv, StageOK, TxOK, SwapRouteTaken, SwapValue, Quoted, MultiWins, PaysAsNamed,
                           AmountAsNamed
    <3>3. Pending'
      BY <3>1 DEF IInv, Pending, QuotesOK, GateOK, AllowanceCovers, PositionOK, LevelOK
    <3>4. EndsWell'
      BY <3>1 DEF IInv, EndsWell, ChecksHold, SwapDelivers, NothingLeftBehind, MovesAsNamed,
                  PaysAsNamed, AmountAsNamed
    <3> QED BY <3>1, <3>2, <3>3, <3>4 DEF IInv
  <2> QED BY <2>1, <2>2, <2>3
<1> QED BY <1>1, InitHolds, PTL DEF WalletSpec

\* What a tool checked and did not refuse does not stop its transaction, as long as nobody
\* changed it since.
THEOREM ChecksLast == WalletSpec => []ChecksHold
<1>1. IInv => ChecksHold
  BY DEF IInv, EndsWell, ChecksHold
<1> QED BY <1>1, TradeInvariance, PTL

\* A swap into a token pays what its floor asks, when the pools did not move since the first
\* of its quotes: the floor was computed for the route that was encoded.
THEOREM SwapsDeliver == WalletSpec => []SwapDelivers
<1>1. IInv => SwapDelivers
  BY DEF IInv, EndsWell, SwapDelivers
<1> QED BY <1>1, TradeInvariance, PTL

\* A transaction does what was asked of the tool, whatever moves in between: a mint takes
\* no more of each token than was named and lies within half a tick spacing and half a tick of
\* the prices, a position is removed whole, and a wallet tool moves exactly what was named to
\* whom it was.
THEOREM ToolsDoAsAsked == WalletSpec => []AsAsked
<1>1. ASSUME IInv PROVE MintAsAsked
  <2> DEFINE r == call.req
             paid == IF r.reversed THEN Swapped(tx.paid) ELSE tx.paid
             range == IF r.reversed THEN Negated(tx.range) ELSE tx.range
  <2> SUFFICES ASSUME tx.op = "uniswap_v3_mint"
               PROVE  /\ paid[1] <= r.amounts[1] /\ paid[2] <= r.amounts[2]
                      /\ \A i \in {1, 2} :
                            2 * Distance(Fine * range[i], r.prices[i]) <= (r.spacing + 1) * Fine
    BY DEF MintAsAsked
  <2>1. call.pc = "made"
    BY <1>1, TradeAssumption DEF IInv, StageOK, NoTx, Trades
  <2>2. /\ tx.amount = DesiredAmounts(r) /\ tx.range = Snapped(AskedRange(r), r.spacing)
        /\ r.tool = "uniswap_v3_mint" /\ r \in Requests
    BY <1>1, <2>1 DEF IInv, TxOK, CallRec
  <2>3. r.amounts \in Nat \X Nat /\ r.prices \in Int \X Int /\ r.spacing \in Nat \ {0}
    BY <2>2, RequestAssumption
  <2>4. tx.paid[1] <= tx.amount[1] /\ tx.paid[2] <= tx.amount[2]
    <3>1. CASE tx.outcome = "none"
      <4>1. tx.paid = <<0, 0>>
        BY <1>1, <3>1 DEF IInv, Pending
      <4> QED BY <1>1, <2>1, <4>1, AskedAmounts
    <3>2. CASE tx.outcome # "none"
      BY <1>1, <3>2 DEF IInv, EndsWell
    <3> QED BY <3>1, <3>2
  <2>5. paid[1] <= r.amounts[1] /\ paid[2] <= r.amounts[2]
    <3>1. CASE r.reversed
      <4>1. tx.amount[1] = r.amounts[2] /\ tx.amount[2] = r.amounts[1]
        BY <2>2, <3>1 DEF DesiredAmounts, Swapped
      <4>2. paid[1] = tx.paid[2] /\ paid[2] = tx.paid[1]
        BY <3>1 DEF Swapped
      <4> QED BY <2>4, <4>1, <4>2
    <3>2. CASE ~r.reversed
      BY <2>2, <2>4, <3>2 DEF DesiredAmounts
    <3> QED BY <3>1, <3>2
  <2>6. PICK t \in Int, u \in Int, s \in Nat \ {0} : t = r.prices[1] /\ u = r.prices[2] /\ s = r.spacing
    BY <2>3
  <2>7. CASE ~r.reversed
    <3>1. PICK v, w : v = snapPriceToTick(t, s) /\ w = snapPriceToTick(u, s)
      OBVIOUS
    <3>2. range[1] = v /\ range[2] = w
      BY <2>2, <2>6, <2>7, <3>1 DEF AskedRange, Snapped
    <3>3. 2 * Distance(Fine * v, t) <= (s + 1) * Fine /\ 2 * Distance(Fine * w, u) <= (s + 1) * Fine
      BY <3>1, SnapsNear
    <3> QED BY <2>5, <2>6, <3>2, <3>3
  <2>8. CASE r.reversed
    <3>1. PICK v, w : v = snapPriceToTick(0 - u, s) /\ w = snapPriceToTick(0 - t, s)
      OBVIOUS
    <3>2. tx.range[1] = v /\ tx.range[2] = w
      BY <2>2, <2>6, <2>8, <3>1 DEF AskedRange, Negated, Snapped
    <3>3. range[1] = 0 - w /\ range[2] = 0 - v
      BY <2>8, <3>2 DEF Negated
    <3>4. 0 - t \in Int /\ 0 - u \in Int /\ 0 - (0 - t) = t /\ 0 - (0 - u) = u
      OBVIOUS
    <3>5. /\ 2 * Distance(Fine * v, 0 - u) <= (s + 1) * Fine
          /\ Distance(Fine * v, 0 - u) = Distance(Fine * (0 - v), 0 - (0 - u))
          /\ 2 * Distance(Fine * w, 0 - t) <= (s + 1) * Fine
          /\ Distance(Fine * w, 0 - t) = Distance(Fine * (0 - w), 0 - (0 - t))
      BY <3>1, <3>4, SnapsNear
    <3>6. /\ 2 * Distance(Fine * range[1], t) <= (s + 1) * Fine
          /\ 2 * Distance(Fine * range[2], u) <= (s + 1) * Fine
      BY <3>3, <3>4, <3>5
    <3> QED BY <2>5, <2>6, <3>6
  <2> QED BY <2>7, <2>8
<1>2. ASSUME IInv PROVE NothingLeftBehind
  BY <1>2 DEF IInv, EndsWell, NothingLeftBehind
<1>3. ASSUME IInv PROVE MovesAsNamed
  <2>1. CASE call.pc # "made"
    <3>1. tx.op = None /\ tx.outcome = "none"
      BY <1>3, <2>1 DEF IInv, StageOK, NoTx
    <3> QED BY <3>1, WalletAssumption DEF MovesAsNamed, PaysAsNamed, AmountAsNamed
  <2>2. CASE call.pc = "made" /\ tx.outcome = "none"
    BY <1>3, <2>2 DEF IInv, TxOK, MovesAsNamed
  <2>3. CASE tx.outcome # "none"
    BY <1>3, <2>3 DEF IInv, EndsWell
  <2> QED BY <2>1, <2>2, <2>3
<1>4. IInv => AsAsked
  BY <1>1, <1>2, <1>3 DEF AsAsked
<1> QED BY <1>4, TradeInvariance, PTL
=============================================================================
