----------------------------- MODULE TradeTools -----------------------------
(***************************************************************************)
(* The tools that trade or stake: prepare_uniswap_*, prepare_curve_*,       *)
(* prepare_lido_*, prepare_rocketpool_* and prepare_eigenlayer_deposit.     *)
(* One call reads the chain at several awaits, refuses or computes floors   *)
(* from what it read, and makes a transaction that executes later, on a     *)
(* chain that moved.                                                        *)
(*                                                                         *)
(* A behaviour follows one call and its transaction.  The contracts are     *)
(* external: they are modelled by what the tools rely on.                   *)
(***************************************************************************)
EXTENDS UniswapMath, FiniteSets

CONSTANTS
    Requests,       \* the calls that may be made: SwapRequest, MintRequest ...
    PoolKinds,      \* swap pools: [rate, depth]
    Levels,         \* values of the level of a staking contract or Curve pool
    Allowances,     \* values of an allowance
    SqrtPrices,     \* square roots of the price of the liquidity pool
    SqrtAt,         \* tick -> square root of its price: tickToSqrtPriceX96
    Position,       \* values of a position: [liquidity, owed, mine]
    OldRange,       \* its ticks
    MaxMoves,       \* bound of the moves of the chain during the call
    None

(* Fee tiers and the one multi-hop path.  A pool pays rate for each token, and at  *)
(* most depth.                                                                     *)
Tiers == {500, 3000}
Multi == 0
Routes == Tiers \cup {Multi}

Out(pool, amount) ==
    IF pool = None THEN None
    ELSE IF pool.rate * amount <= pool.depth THEN pool.rate * amount ELSE pool.depth

\* The parts of the chain the tools read.  level stands for the one number a staking
\* tool depends on: Lido's last withdrawal request, Rocket Pool's minimum deposit or
\* its pool's ether, the room under EigenLayer's cap, what Curve pays for a token.
Parts == {"pools", "allowance", "position", "sqrtPrice", "level"}

Trades == {"uniswap_swap", "uniswap_v3_mint", "uniswap_v3_increase_liquidity",
           "uniswap_v3_decrease_liquidity", "uniswap_v3_collect", "uniswap_v3_burn",
           "uniswap_v3_rebalance", "lido_stake", "lido_unwrap", "lido_wrap", "lido_unstake",
           "rocketpool_stake", "rocketpool_unstake", "eigenlayer_deposit", "curve_swap",
           "curve_add_liquidity"}

ASSUME TradeAssumption ==
    /\ PoolKinds \subseteq [rate : Nat, depth : Nat]
    /\ Levels \subseteq Nat /\ Levels # {}
    /\ Allowances \subseteq Nat /\ Allowances # {}
    /\ SqrtPrices \subseteq Nat \ {0} /\ SqrtPrices # {}
    /\ Position \subseteq [liquidity : Nat, owed : Nat, mine : BOOLEAN] /\ Position # {}
    /\ MaxMoves \in Nat
    /\ None \notin Nat /\ None \notin Trades

\* Prices rise with their ticks, and the ends of a position are in order.
ASSUME SqrtAssumption ==
    /\ \A t \in DOMAIN SqrtAt : t \in Int /\ SqrtAt[t] \in Nat \ {0}
    /\ \A t, u \in DOMAIN SqrtAt : t < u => SqrtAt[t] < SqrtAt[u]
    /\ OldRange \in (DOMAIN SqrtAt) \X (DOMAIN SqrtAt) /\ OldRange[1] < OldRange[2]

VARIABLES
    call,   \* the tool call: its arguments, its pc, and what it has read
    tx,     \* the transaction it made, and what became of it
    chain,  \* what the tools read and the transaction meets
    moved,  \* parts of it that changed since the call read them
    moves   \* so far

vars == <<call, tx, chain, moved, moves>>

NoTx == [op |-> None, amount |-> <<0, 0>>, min |-> <<0, 0>>, route |-> None, to |-> None,
         value |-> 0, liquidity |-> 0, range |-> <<0, 0>>, outcome |-> "none",
         paid |-> <<0, 0>>, got |-> <<0, 0>>]

-----------------------------------------------------------------------------
(* Steps of a call                                                          *)

Asked(tool) == call.pc = "asked" /\ call.req.tool = tool

Refuse == call' = [call EXCEPT !.pc = "refused"] /\ UNCHANGED tx

Goes(pc) == call' = [call EXCEPT !.pc = pc] /\ UNCHANGED tx

Make(fields) ==
    /\ call' = [call EXCEPT !.pc = "made"]
    /\ tx' = [f \in DOMAIN NoTx |-> IF f \in DOMAIN fields THEN fields[f] ELSE NoTx[f]]

Reads(parts) == moved' = moved \ parts /\ UNCHANGED <<chain, moves>>

ReadsNothing == UNCHANGED <<chain, moved, moves>>

Bps == 1..10000

SlippageOk(r) == r.slippage = None \/ r.slippage \in Bps

\* The default is 50 basis points, on every tool that has one.
SlippageOf(r) == IF r.slippage = None THEN 50 ELSE r.slippage

Floors(amounts, r) == <<SlippageFloor(amounts[1], SlippageOf(r)),
                        SlippageFloor(amounts[2], SlippageOf(r))>>

-----------------------------------------------------------------------------
(* prepare_uniswap_swap                                                     *)

\* ETH on both sides is WETH on both sides.
SwapAccepts(r) == ~(r.ethIn /\ r.ethOut) /\ SlippageOk(r) /\ r.amount > 0

Swap ==
    /\ Asked("uniswap_swap")
    /\ IF SwapAccepts(call.req) THEN Goes("quoting") ELSE Refuse
    /\ ReadsNothing

\* The three quotes are requests of one Promise.all; a request that fails, or a pool
\* that does not exist, gives null.  Ties go to the lower fee.
BestTier(quotes) ==
    IF \A t \in Tiers : quotes[t] = None THEN None
    ELSE LET tier == CHOOSE t \in Tiers :
                /\ quotes[t] # None
                /\ \A u \in Tiers : \/ quotes[u] = None
                                    \/ quotes[u] < quotes[t]
                                    \/ quotes[u] = quotes[t] /\ t <= u
         IN [route |-> tier, out |-> quotes[tier]]

Answered(amount, answered) ==
    [t \in Tiers |-> IF t \in answered THEN Out(chain.pools[t], amount) ELSE None]

quoteAllSingleHopFeeTiers ==
    /\ call.pc = "quoting"
    /\ "single" \notin call.read
    /\ \E answered \in SUBSET Tiers :
         call' = [call EXCEPT !.read = @ \cup {"single"},
                              !.single = BestTier(Answered(call.req.amount, answered))]
    /\ UNCHANGED <<tx, chain, moved, moves>>

quoteMultiHopCandidates ==
    /\ call.pc = "quoting"
    /\ "multi" \notin call.read
    /\ \E out \in {None, Out(chain.pools[Multi], call.req.amount)} :
         call' = [call EXCEPT !.read = @ \cup {"multi"}, !.multi = out]
    /\ UNCHANGED <<tx, chain, moved, moves>>

\* A ten-thousandth of the amount, rounded down, shows the price before its impact.
TinyAmount(amount) == IF amount < 10000 THEN amount ELSE amount \div 10000
TinyScale(amount) == IF amount < 10000 THEN 1 ELSE 10000

quoteTiny ==
    /\ call.pc = "quoting"
    /\ "tiny" \notin call.read
    /\ \E answered \in SUBSET Tiers :
         LET best == BestTier(Answered(TinyAmount(call.req.amount), answered)) IN
         call' = [call EXCEPT !.read = @ \cup {"tiny"},
                              !.tiny = IF best = None THEN 0 ELSE best.out]
    /\ UNCHANGED <<tx, chain, moved, moves>>

\* More than half a percent better than the best single hop.
MultiWins ==
    /\ call.multi # None
    /\ call.single = None \/ call.multi * 1000 > call.single.out * 1005

Quoted == IF MultiWins THEN call.multi ELSE call.single.out

fairOut == call.tiny * TinyScale(call.req.amount)

\* priceImpactRefusalPct is 2 on Ethereum, the only chain of this tool.
SandwichGateRefuses ==
    call.req.slippage = None /\ computePriceImpactBps(fairOut, Quoted) > 200

\* Mutant: always the single hop.
RouteAlwaysSingle == IF call.single = None THEN Multi ELSE call.single.route

\* ETH out is a single hop wherever there is one.
SwapRouteTaken ==
    IF call.req.ethOut
    THEN IF call.single = None THEN Multi ELSE call.single.route
    ELSE IF MultiWins THEN Multi ELSE call.single.route

\* The ether of a swap from ETH is its value, on a single hop; a multi-hop carries none.
SwapValue == IF call.req.ethIn /\ SwapRouteTaken # Multi THEN call.req.amount ELSE 0

SwapTx == [op |-> "uniswap_swap", amount |-> <<call.req.amount, 0>>, route |-> SwapRouteTaken,
           value |-> SwapValue,
           min |-> <<0, SlippageFloor(Quoted, SlippageOf(call.req))>>]

RouteSwap ==
    /\ call.pc = "quoting"
    /\ call.read = {"single", "multi", "tiny"}
    /\ IF call.single = None /\ call.multi = None THEN Refuse
       ELSE IF SandwichGateRefuses THEN Refuse
       ELSE IF call.req.ethIn THEN Make(SwapTx)
       ELSE Goes("allowance")
    /\ ReadsNothing

-----------------------------------------------------------------------------
(* prepare_uniswap_v3_*: positions in a pool                                *)

Negated(range) == <<0 - range[2], 0 - range[1]>>
Swapped(pair) == <<pair[2], pair[1]>>

\* The pool orders its tokens; when the caller named them the other way round, the
\* amounts swap sides, and the prices are inverted, so that the bounds swap too.
DesiredAmounts(r) == IF r.reversed THEN Swapped(r.amounts) ELSE r.amounts

\* Mutant: the bounds trade places but the prices are not inverted.
PricesKept(r) == r.prices

\* invertDecimalPrice: the logarithm of 1/p is that of p, negated.
AskedRange(r) == IF r.reversed THEN Negated(r.prices) ELSE r.prices

Snapped(prices, spacing) ==
    <<snapPriceToTick(prices[1], spacing), snapPriceToTick(prices[2], spacing)>>

Distance(x, y) == IF x <= y THEN y - x ELSE x - y

\* One tick is one basis point of price; 100 is SNAP_REFUSAL_THRESHOLD_BPS.
RangeOk(prices, spacing) ==
    LET range == Snapped(prices, spacing) IN
    /\ \A i \in {1, 2} : Distance(prices[i], Fine * range[i]) <= 100 * Fine
    /\ range[1] < range[2]

\* Amounts and prices are numbers once they have parsed, spacing is that of the pool's
\* fee, and SqrtAt has the ends of every range that is let through.
ASSUME RequestAssumption ==
    \A r \in Requests :
        /\ r.tool \in {"uniswap_swap", "lido_wrap", "lido_unstake", "rocketpool_stake",
                      "rocketpool_unstake", "eigenlayer_deposit"} => r.amount \in Nat
        /\ r.tool \in {"uniswap_v3_mint", "uniswap_v3_increase_liquidity"} =>
               r.amounts \in Nat \X Nat
        /\ r.tool = "uniswap_v3_mint" =>
               /\ r.prices \in Int \X Int /\ r.spacing \in Nat \ {0}
               /\ RangeOk(AskedRange(r), r.spacing) =>
                      \A i \in {1, 2} : Snapped(AskedRange(r), r.spacing)[i] \in DOMAIN SqrtAt

LiquidityAccepts(r) == SlippageOk(r) /\ r.amounts[1] > 0 /\ r.amounts[2] > 0

Mint ==
    /\ Asked("uniswap_v3_mint")
    /\ IF LiquidityAccepts(call.req) /\ RangeOk(AskedRange(call.req), call.req.spacing)
       THEN Goes("allowance") ELSE Refuse
    /\ ReadsNothing

\* Any position: who owns it is not asked.
IncreaseLiquidity ==
    /\ Asked("uniswap_v3_increase_liquidity")
    /\ IF LiquidityAccepts(call.req) THEN Goes("allowance") ELSE Refuse
    /\ ReadsNothing

\* liquidityPercent of what the position has, or the liquidityDelta that was named;
\* the floors of both amounts are zero.
DecreaseTx(delta) ==
    [op |-> "uniswap_v3_decrease_liquidity", liquidity |-> delta]

PercentOf(liquidity, percent) ==
    LET part == (liquidity * percent) \div 100 IN IF part = 0 THEN 1 ELSE part

DecreaseLiquidity ==
    LET r == call.req IN
    /\ Asked("uniswap_v3_decrease_liquidity")
    /\ IF ~SlippageOk(r) \/ (r.percent = None) = (r.delta = None) THEN Refuse /\ ReadsNothing
       ELSE IF r.percent = None
       THEN (IF r.delta = 0 THEN Refuse ELSE Make(DecreaseTx(r.delta))) /\ ReadsNothing
       ELSE /\ IF r.percent \notin 1..100 \/ chain.position.liquidity = 0
               THEN Refuse
               ELSE Make(DecreaseTx(PercentOf(chain.position.liquidity, r.percent)))
            /\ Reads({"position"})

\* What is owed, or as much of it as the caller named as amount0Max and amount1Max, goes
\* to the caller, or to the recipient that was named.
Collect ==
    /\ Asked("uniswap_v3_collect")
    /\ Make([op |-> "uniswap_v3_collect"])
    /\ ReadsNothing

\* Mutant: what is owed is not looked at.
BurnWithOwed ==
    /\ Asked("uniswap_v3_burn")
    /\ IF chain.position.liquidity > 0 THEN Refuse ELSE Make([op |-> "uniswap_v3_burn"])
    /\ Reads({"position"})

Burn ==
    /\ Asked("uniswap_v3_burn")
    /\ IF chain.position.liquidity > 0 \/ chain.position.owed > 0
       THEN Refuse ELSE Make([op |-> "uniswap_v3_burn"])
    /\ Reads({"position"})

\* What the position holds at the middle of its range, whatever the price is.
ExpectedAmounts(liquidity) ==
    LET a == SqrtAt[OldRange[1]]
        b == SqrtAt[OldRange[2]]
    IN getAmountsForLiquidity(isqrt(a * b), a, b, liquidity)

\* decreaseLiquidity, collect and mint in one multicall.
Rebalance ==
    LET r == call.req
        p == chain.position
        expected == ExpectedAmounts(p.liquidity)
    IN
    /\ Asked("uniswap_v3_rebalance")
    /\ IF ~SlippageOk(r) \/ ~p.mine \/ p.liquidity = 0 \/ ~RangeOk(r.prices, r.spacing)
       THEN Refuse
       ELSE Make([op |-> "uniswap_v3_rebalance", liquidity |-> p.liquidity,
                  amount |-> expected, min |-> Floors(expected, r),
                  range |-> Snapped(r.prices, r.spacing)])
    /\ Reads({"position"})

-----------------------------------------------------------------------------
(* Staking tools and Curve                                                  *)

\* prepare_lido_stake: submit, with the ether as its value.
LidoStake ==
    /\ Asked("lido_stake")
    /\ IF call.req.amount = 0 THEN Refuse
       ELSE Make([op |-> "lido_stake", amount |-> <<call.req.amount, 0>>])
    /\ ReadsNothing

LidoUnwrap ==
    /\ Asked("lido_unwrap")
    /\ Make([op |-> "lido_unwrap", amount |-> <<call.req.amount, 0>>])
    /\ ReadsNothing

LidoWrap == Asked("lido_wrap") /\ Goes("allowance") /\ ReadsNothing

\* MIN_WITHDRAWAL is 100, and MAX_WITHDRAWAL out of reach of the amounts of a run.
LidoUnstake ==
    /\ Asked("lido_unstake")
    /\ IF call.req.amount < 100 THEN Refuse ELSE Goes("allowance")
    /\ ReadsNothing

\* The number the next withdrawal request will get, unless another comes first.
LidoQueue ==
    /\ call.pc = "queue"
    /\ Make([op |-> "lido_unstake", amount |-> <<call.req.amount, 0>>,
             min |-> <<chain.level + 1, 0>>])
    /\ Reads({"level"})

\* The minimum is read, or a constant stands in for it when the read fails.
FallbackMinimum == 10000

RocketPoolStake ==
    /\ Asked("rocketpool_stake")
    /\ \E minimum \in {chain.level, FallbackMinimum} :
         IF call.req.amount = 0 \/ call.req.amount < minimum THEN Refuse
         ELSE Make([op |-> "rocketpool_stake", amount |-> <<call.req.amount, 0>>,
                    min |-> <<minimum, 0>>])
    /\ Reads({"level"})

\* Mutant: the pool's ether is not compared with what the tokens are worth.
UnstakeUnchecked ==
    /\ Asked("rocketpool_unstake")
    /\ IF call.req.amount = 0 THEN Refuse
       ELSE Make([op |-> "rocketpool_unstake", amount |-> <<call.req.amount, 0>>])
    /\ Reads({"level"})

\* One token is worth one ether here.
RocketPoolUnstake ==
    /\ Asked("rocketpool_unstake")
    /\ IF call.req.amount = 0 \/ chain.level < call.req.amount THEN Refuse
       ELSE Make([op |-> "rocketpool_unstake", amount |-> <<call.req.amount, 0>>])
    /\ Reads({"level"})

\* The allowance and the cap are answers of one Promise.all.  Only a strategy with no
\* room at all is refused; the amount is not compared with the room.
EigenLayerDeposit ==
    /\ Asked("eigenlayer_deposit")
    /\ IF chain.allowance[1] < call.req.amount \/ chain.level = 0 THEN Refuse
       ELSE Make([op |-> "eigenlayer_deposit", amount |-> <<call.req.amount, 0>>])
    /\ Reads({"allowance", "level"})

\* Half of the amount may be lost at most.
CurveBps == 1..5000

\* get_dy and calc_token_amount: what the pool pays for the amount now.  A missing
\* approval is only a hint.
CurveTrade(tool) ==
    LET quoted == chain.level * call.req.amount IN
    /\ Asked(tool)
    /\ IF call.req.slippage \notin CurveBps THEN Refuse
       ELSE Make([op |-> tool, amount |-> <<call.req.amount, 0>>,
                  min |-> <<0, SlippageFloor(quoted, call.req.slippage)>>])
    /\ Reads({"level"})

CurveSwap == CurveTrade("curve_swap")
CurveAddLiquidity == CurveTrade("curve_add_liquidity")

-----------------------------------------------------------------------------
(* The allowance gates, which refuse and name prepare_token_approve         *)

AllowanceCovers(amounts) ==
    chain.allowance[1] >= amounts[1] /\ chain.allowance[2] >= amounts[2]

\* Mutant: only the first token is compared.
FirstAllowanceCovers(amounts) == chain.allowance[1] >= amounts[1]

LiquidityTx(tool) ==
    LET r == call.req
        amounts == IF tool = "uniswap_v3_mint" THEN DesiredAmounts(r) ELSE r.amounts
    IN [op |-> tool, amount |-> amounts, min |-> Floors(amounts, r),
        range |-> IF tool = "uniswap_v3_mint" THEN Snapped(AskedRange(r), r.spacing) ELSE OldRange]

AllowanceGate ==
    LET r == call.req IN
    /\ call.pc = "allowance"
    /\ \/ /\ r.tool = "uniswap_swap"
          /\ IF AllowanceCovers(<<r.amount, 0>>) THEN Make(SwapTx) ELSE Refuse
       \/ /\ r.tool \in {"uniswap_v3_mint", "uniswap_v3_increase_liquidity"}
          /\ IF AllowanceCovers(LiquidityTx(r.tool).amount)
             THEN Make(LiquidityTx(r.tool)) ELSE Refuse
       \/ /\ r.tool = "lido_wrap"
          /\ IF AllowanceCovers(<<r.amount, 0>>)
             THEN Make([op |-> "lido_wrap", amount |-> <<r.amount, 0>>]) ELSE Refuse
       \/ /\ r.tool = "lido_unstake"
          /\ IF AllowanceCovers(<<r.amount, 0>>) THEN Goes("queue") ELSE Refuse
    /\ Reads({"allowance"})

\* An argument does not parse, or an RPC read fails.
RefuseCall ==
    /\ call.pc \in {"asked", "quoting", "allowance", "queue"}
    /\ Refuse
    /\ ReadsNothing

-----------------------------------------------------------------------------
(* The contracts, external                                                  *)

Ends(outcome, paid, got) == tx' = [tx EXCEPT !.outcome = outcome, !.paid = paid, !.got = got]
Fails(outcome) == Ends(outcome, <<0, 0>>, <<0, 0>>) /\ UNCHANGED chain
Done == Ends("done", tx.amount, <<0, 0>>) /\ UNCHANGED chain

\* The router wraps the ether it was sent, or else pulls the tokens, which for ETH are WETH.
PoolExecutes ==
    LET out == Out(chain.pools[tx.route], tx.amount[1]) IN
    /\ tx.op = "uniswap_swap"
    /\ IF out = None THEN Fails("reverted")
       ELSE IF tx.value < tx.amount[1] /\ chain.allowance[1] < tx.amount[1] THEN Fails("allowance")
       ELSE IF out < tx.min[2] THEN Fails("tooLittle")
       ELSE Ends("done", tx.amount, <<0, out>>) /\ UNCHANGED chain

\* The most liquidity the desired amounts are worth at the price, and what it takes.
Minted(desired, range) ==
    LET a == SqrtAt[range[1]]
        b == SqrtAt[range[2]]
        liquidity == getLiquidityForAmounts(chain.sqrtPrice, a, b, desired[1], desired[2])
    IN getAmountsForLiquidity(chain.sqrtPrice, a, b, liquidity)

Adds(released, next) ==
    LET used == Minted(tx.amount, tx.range) IN
    IF used[1] < tx.min[1] \/ used[2] < tx.min[2] \/ used = <<0, 0>> THEN Fails("tooLittle")
    ELSE IF ~AllowanceCovers(used) THEN Fails("allowance")
    ELSE Ends("done", used, released) /\ chain' = [chain EXCEPT !.position = next]

Released(liquidity) ==
    getAmountsForLiquidity(chain.sqrtPrice, SqrtAt[OldRange[1]], SqrtAt[OldRange[2]], liquidity)

\* Removing liquidity leaves it owed until it is collected; the whole rebalancing
\* reverts with any of its three steps.
PositionManagerExecutes ==
    LET p == chain.position IN
    \/ /\ tx.op \in {"uniswap_v3_mint", "uniswap_v3_increase_liquidity"}
       /\ Adds(<<0, 0>>, p)
    \/ /\ tx.op = "uniswap_v3_decrease_liquidity"
       /\ IF ~p.mine \/ p.liquidity < tx.liquidity THEN Fails("position")
          ELSE /\ Ends("done", <<0, 0>>, <<0, 0>>)
               /\ chain' = [chain EXCEPT !.position =
                              [p EXCEPT !.liquidity = @ - tx.liquidity, !.owed = 1]]
    \/ /\ tx.op = "uniswap_v3_collect"
       /\ IF ~p.mine \/ p.owed = 0 THEN Fails("position")
          ELSE /\ Ends("done", <<0, 0>>, <<0, 0>>)
               /\ \E left \in 0..p.owed : chain' = [chain EXCEPT !.position.owed = left]
    \/ /\ tx.op = "uniswap_v3_burn"
       /\ IF ~p.mine THEN Fails("reverted")
          ELSE IF p.liquidity > 0 \/ p.owed > 0 THEN Fails("position")
          ELSE Ends("done", <<0, 0>>, <<0, 0>>) /\ UNCHANGED chain
    \/ /\ tx.op = "uniswap_v3_rebalance"
       /\ IF ~p.mine \/ p.liquidity < tx.liquidity THEN Fails("position")
          ELSE Adds(Released(tx.liquidity),
                    [p EXCEPT !.liquidity = @ - tx.liquidity, !.owed = 0])

StakingExecutes ==
    LET amount == tx.amount[1] IN
    \/ tx.op \in {"lido_stake", "lido_unwrap"} /\ Done
    \/ /\ tx.op = "lido_wrap"
       /\ IF chain.allowance[1] < amount THEN Fails("allowance") ELSE Done
    \/ /\ tx.op = "lido_unstake"
       /\ IF chain.allowance[1] < amount THEN Fails("allowance")
          ELSE Ends("done", tx.amount, <<chain.level + 1, 0>>) /\ UNCHANGED chain
    \/ /\ tx.op = "rocketpool_stake"
       /\ IF amount < chain.level THEN Fails("level") ELSE Done
    \/ /\ tx.op = "rocketpool_unstake"
       /\ IF chain.level < amount THEN Fails("level") ELSE Done
    \/ /\ tx.op = "eigenlayer_deposit"
       /\ IF chain.allowance[1] < amount THEN Fails("allowance")
          ELSE IF chain.level < amount THEN Fails("cap") ELSE Done
    \/ /\ tx.op \in {"curve_swap", "curve_add_liquidity"}
       /\ IF chain.allowance[1] < amount THEN Fails("allowance")
          ELSE IF chain.level * amount < tx.min[2] THEN Fails("tooLittle")
          ELSE Ends("done", tx.amount, <<0, chain.level * amount>>) /\ UNCHANGED chain

\* A pause, a limit or a deadline that has passed may make any of them revert.
Execute ==
    /\ call.pc = "made"
    /\ tx.outcome = "none"
    /\ PoolExecutes \/ PositionManagerExecutes \/ StakingExecutes \/ Fails("reverted")
    /\ UNCHANGED <<call, moved, moves>>

-----------------------------------------------------------------------------

\* The parts of the chain that matter to a tool, and their values.
PartsOf(tool) ==
    CASE tool = "uniswap_swap" -> {"pools", "allowance"}
      [] tool \in {"uniswap_v3_mint", "uniswap_v3_increase_liquidity"}
                                                 -> {"allowance", "sqrtPrice"}
      [] tool = "uniswap_v3_rebalance"           -> {"allowance", "sqrtPrice", "position"}
      [] tool \in {"uniswap_v3_decrease_liquidity", "uniswap_v3_collect", "uniswap_v3_burn"}
                                                 -> {"position"}
      [] tool = "lido_wrap"                      -> {"allowance"}
      [] tool \in {"lido_stake", "lido_unwrap", "native_send", "custom_call", "token_send",
                  "weth_unwrap", "aave_withdraw"} -> {}
      [] tool \in {"token_approve", "revoke_approval", "aave_supply"} -> {"allowance"}
      [] tool \in {"rocketpool_stake", "rocketpool_unstake"} -> {"level"}
      [] OTHER                                   -> {"allowance", "level"}

PoolStates == [Routes -> PoolKinds \cup {None}]

Chain == [pools : PoolStates, allowance : Allowances \X Allowances, position : Position,
          sqrtPrice : SqrtPrices, level : Levels]

\* A value for the parts the tool does not read.
Still == [pools |-> [route \in Routes |-> None],
          allowance |-> CHOOSE pair \in Allowances \X Allowances : TRUE,
          position |-> CHOOSE p \in Position : TRUE,
          sqrtPrice |-> CHOOSE s \in SqrtPrices : TRUE,
          level |-> CHOOSE n \in Levels : TRUE]

ValuesOf(part) ==
    CASE part = "pools"     -> PoolStates
      [] part = "allowance" -> Allowances \X Allowances
      [] part = "position"  -> Position
      [] part = "sqrtPrice" -> SqrtPrices
      [] part = "level"     -> Levels

ChainsFor(tool) ==
    LET Relevant(part) == IF part \in PartsOf(tool) THEN ValuesOf(part) ELSE {Still[part]}
    IN [pools     : Relevant("pools"),
        allowance : Relevant("allowance"),
        position  : Relevant("position"),
        sqrtPrice : Relevant("sqrtPrice"),
        level     : Relevant("level")]

\* Another transaction changes what this call read or will read.  Before the call
\* starts the initial states range over all of it.  Withdrawal requests only grow.
Moves(part) ==
    /\ call.pc \in {"allowance", "queue", "made"} \/ call.read # {}
    /\ call.pc # "refused"
    /\ tx.outcome = "none"
    /\ moves < MaxMoves
    /\ part \in PartsOf(call.req.tool)
    /\ \E value \in ValuesOf(part) \ {chain[part]} : chain' = [chain EXCEPT ![part] = value]
    /\ call.req.tool = "lido_unstake" => chain'.level >= chain.level
    /\ moved' = moved \cup {part}
    /\ moves' = moves + 1
    /\ UNCHANGED <<call, tx>>

Init ==
    \E r \in Requests :
        /\ call = [req |-> r, pc |-> "asked", read |-> {}, single |-> None, multi |-> None,
                   tiny |-> 0]
        /\ tx = NoTx
        /\ chain \in ChainsFor(r.tool)
        /\ moved = {}
        /\ moves = 0

Next ==
    \/ Swap \/ quoteAllSingleHopFeeTiers \/ quoteMultiHopCandidates \/ quoteTiny \/ RouteSwap
    \/ Mint \/ IncreaseLiquidity \/ DecreaseLiquidity \/ Collect \/ Burn \/ Rebalance
    \/ LidoStake \/ LidoUnwrap \/ LidoWrap \/ LidoUnstake \/ LidoQueue
    \/ RocketPoolStake \/ RocketPoolUnstake \/ EigenLayerDeposit
    \/ CurveSwap \/ CurveAddLiquidity
    \/ AllowanceGate \/ RefuseCall
    \/ Execute
    \/ \E part \in Parts : Moves(part)

Spec == Init /\ [][Next]_vars

-----------------------------------------------------------------------------
(* Properties                                                               *)

Pair == Nat \X Nat

TypeOK ==
    /\ call.req \in Requests
    /\ call.pc \in {"asked", "quoting", "allowance", "queue", "refused", "made"}
    /\ call.read \subseteq {"single", "multi", "tiny"}
    /\ call.single \in [route : Tiers, out : Nat] \cup {None}
    /\ call.multi \in Nat \cup {None}
    /\ call.tiny \in Nat
    /\ tx.amount \in Pair /\ tx.min \in Pair /\ tx.paid \in Pair /\ tx.got \in Pair
    /\ tx.route \in Routes \cup {None}
    /\ tx.op \in {"uniswap_v3_mint", "uniswap_v3_rebalance"} => tx.range[1] < tx.range[2]
    /\ chain \in [pools : PoolStates, allowance : Pair,
                  position : [liquidity : Nat, owed : Nat, mine : BOOLEAN],
                  sqrtPrice : SqrtPrices, level : Levels]
    /\ moved \subseteq PartsOf(call.req.tool)
    /\ moves \in Nat

\* What a tool checked and did not refuse does not stop its transaction, as long as
\* nobody changed it since: the allowances that are gates and not hints (a swap from ETH
\* asks for none, and a multi-hop needs one all the same: EtherPays), the position
\* that is burnt or reduced by a percentage, Rocket Pool's minimum (when it was read)
\* and its ether.  The withdrawal request gets the number the receipt gave.
ChecksHold ==
    /\ tx.outcome = "allowance" => \/ "allowance" \in moved
                                  \/ tx.op \in {"uniswap_v3_rebalance", "curve_swap",
                                                "curve_add_liquidity", "aave_supply"}
                                  \/ (tx.op = "uniswap_swap" /\ call.req.ethIn /\ tx.route = Multi)
    /\ tx.outcome = "position" /\ tx.op \in {"uniswap_v3_burn", "uniswap_v3_rebalance"}
            => "position" \in moved
    /\ tx.outcome = "position" /\ tx.op = "uniswap_v3_decrease_liquidity"
       /\ call.req.delta = None /\ chain.position.mine => "position" \in moved
    /\ tx.outcome = "level" => \/ "level" \in moved
                              \/ (tx.op = "rocketpool_stake" /\ tx.min[1] = FallbackMinimum)
    /\ tx.op = "lido_unstake" /\ tx.outcome = "done" /\ "level" \notin moved
            => tx.got[1] = tx.min[1]

\* A swap into a token is never held up by its own floor while the pools do not move after
\* the first of its quotes: the floor was computed for the route that was encoded.  Into
\* ETH it may be: the code encodes the single hop whenever there is one.  (What else may
\* stop a swap is not said here: a deadline, or an allowance.)
SwapDelivers ==
    tx.op = "uniswap_swap" /\ ~call.req.ethOut /\ "pools" \notin moved
        => tx.outcome # "tooLittle"

\* What the tool says of a swap from ETH: its ether pays, and no allowance is needed
\* (prepare_uniswap_swap.ts:20, 129 and 559-560).
EtherPays ==
    tx.op = "uniswap_swap" /\ call.req.ethIn =>
        /\ tx.outcome # "allowance"
        /\ tx.outcome = "done" => tx.value = tx.amount[1]

\* Taking out all of the liquidity leaves none, and a rebalancing leaves nothing owed
\* either, unless somebody added to the position since it was read.
NothingLeftBehind ==
    tx.outcome = "done" /\ "position" \notin moved =>
        /\ tx.op = "uniswap_v3_rebalance" =>
               chain.position.liquidity = 0 /\ chain.position.owed = 0
        /\ tx.op = "uniswap_v3_decrease_liquidity" /\ call.req.percent = 100 =>
               chain.position.liquidity = 0

\* However the caller ordered the two tokens, the new position takes no more of each
\* than was named for it, and lies within half a tick spacing and half a tick of the prices
\* that were named, of the first token in the second, as the comment in the code has it
\* (prepare_uniswap_v3_mint.ts:345-350; the description, line 99, says the pool's order).
MintAsAsked ==
    tx.op = "uniswap_v3_mint" =>
        LET r == call.req
            paid == IF r.reversed THEN Swapped(tx.paid) ELSE tx.paid
            range == IF r.reversed THEN Negated(tx.range) ELSE tx.range
        IN /\ paid[1] <= r.amounts[1] /\ paid[2] <= r.amounts[2]
           /\ \A i \in {1, 2} :
                 2 * Distance(Fine * range[i], r.prices[i]) <= (r.spacing + 1) * Fine
=============================================================================
