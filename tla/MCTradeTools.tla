---------------------------- MODULE MCTradeTools ----------------------------
(* A small instance of TradeTools: token amounts of five digits for swaps,    *)
(* so that a tiny quote and a basis point are whole numbers, and of one or    *)
(* two for positions.                                                         *)
EXTENDS WalletTools

CONSTANTS coin, obscure, payee

\* 1.5, 20 and 0.01 of a token, of which only the first two can be said of obscure.
WalletAmounts == {Max, Malformed, [n |-> 15, places |-> 1], [n |-> 20, places |-> 0],
                  [n |-> 1, places |-> 2]}

WalletRequests ==
    [tool : {"native_send"}, value : {0, 7, Malformed}, to : {payee}] \cup
    [tool : {"custom_call"}, value : {0, 7, Malformed}, to : {payee}, acknowledged : BOOLEAN] \cup
    [tool : {"token_send", "token_approve"}, token : {coin, obscure}, amount : WalletAmounts,
     to : {payee}] \cup
    [tool : {"revoke_approval"}, token : {coin}, to : {payee}] \cup
    [tool : {"weth_unwrap"}, amount : WalletAmounts] \cup
    [tool : {"solana_lifi_swap"}, amount : {Malformed, [n |-> 0, places |-> 0], [n |-> 15, places |-> 1]},
     to : {payee}] \cup
    [tool : {"aave_supply", "aave_withdraw"}, token : {coin, obscure}, amount : WalletAmounts]

MCDecimals == [t \in {coin, obscure} |-> IF t = coin THEN 2 ELSE 1]

Slippages == {None, 0, 50, 5000}

SwapRequests == [tool : {"uniswap_swap"}, amount : {0, 20000}, slippage : Slippages,
                 ethIn : BOOLEAN, ethOut : BOOLEAN]

\* Prices are in quarters of a tick; in the tier whose ticks are all used, and in one of 60.
MintRequests == [tool : {"uniswap_v3_mint"}, amounts : {<<0, 6>>, <<4, 6>>, <<12, 6>>},
                 prices : {<<-240, 240>>, <<-283, 82>>, <<82, 103>>, <<0, 240>>}, spacing : {60},
                 reversed : BOOLEAN, slippage : {None, 10000}] \cup
                [tool : {"uniswap_v3_mint"}, amounts : {<<4, 6>>, <<12, 6>>},
                 prices : {<<-5, 7>>, <<3, 8>>}, spacing : {1},
                 reversed : BOOLEAN, slippage : {None, 10000}]

IncreaseRequests == [tool : {"uniswap_v3_increase_liquidity"}, amounts : {<<0, 6>>, <<4, 6>>},
                     slippage : {None, 10000}]

DecreaseRequests == [tool : {"uniswap_v3_decrease_liquidity"}, percent : {None, 0, 1, 50, 100},
                     delta : {None, 0, 5}, slippage : {None}]

RebalanceRequests == [tool : {"uniswap_v3_rebalance"}, spacing : {60}, slippage : {None, 10000},
                      prices : {<<-240, 240>>, <<-1, 239>>, <<82, 103>>}]

OtherRequests ==
    [tool : {"uniswap_v3_collect", "uniswap_v3_burn"}] \cup
    [tool : {"lido_stake", "lido_unwrap", "lido_wrap", "lido_unstake", "rocketpool_stake",
             "rocketpool_unstake", "eigenlayer_deposit"}, amount : {0, 12, 12000}] \cup
    [tool : {"curve_swap", "curve_add_liquidity"}, amount : {0, 12}, slippage : {0, 50, 5000}]

MCRequests == SwapRequests \cup MintRequests \cup IncreaseRequests \cup DecreaseRequests
                \cup RebalanceRequests \cup OtherRequests \cup WalletRequests

\* A deep pool, one that the amount moves by a few percent, and one that pays double.
MCPoolKinds == {[rate |-> 1, depth |-> 50000], [rate |-> 1, depth |-> 19500],
                [rate |-> 2, depth |-> 50000]}

\* Rising, and doubled from the one end of the old range to its middle and to the other.
MCSqrtAt == [t \in {-60, 60} \cup -2..2 |->
                CASE t = -60 -> 4 [] t = 60 -> 16 [] OTHER -> 8 + t]

MCPosition == [liquidity : {0, 1, 8}, owed : {0, 1}, mine : BOOLEAN]
MCOldRange == <<-60, 60>>
=============================================================================
