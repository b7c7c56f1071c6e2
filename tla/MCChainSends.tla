---------------------------- MODULE MCChainSends ----------------------------
(* A small instance of ChainSends.                                          *)
EXTENDS ChainSends

CONSTANTS a, b

Interchangeable == Permutations(Calls)

MCLevels == ("tron" :> {0, 20}) @@ ("solana" :> {0, 20}) @@ ("bittensor" :> {10000, 10030})
MCPools == (0 :> <<8000, 4000>>) @@ (20 :> <<20000, 20000>>)

\* The calls of one tool: with each of the given arguments, the rest left at these.
Plain == [to |-> Stranger, other |-> a, amount |-> 10, decimals |-> 1, as |-> None,
          resource |-> "ENERGY", votes |-> <<[sr |-> a, count |-> 2]>>, path |-> <<TRUE>>,
          slippage |-> None, stable |-> TRUE, netuid |-> 1, toNetuid |-> 0, tolerance |-> None,
          owned |-> TRUE, stake |-> Stranger, known |-> TRUE, impact |-> 0, legacy |-> TRUE,
          allowed |-> TRUE]
Calling(tool, args) == tool :> {arg @@ [tool |-> tool] @@ Plain : arg \in args}

Bare == [to |-> Stranger]
BadTo == [to |-> Bad]
BadAmount == [amount |-> Bad]
Vote(votes) == [votes |-> votes]

TronRequests ==
    Calling("prepare_tron_native_send", {Bare, BadTo, [amount |-> 15], [amount |-> 30000000]})
    @@ Calling("prepare_tron_trc20_send",
          {Bare, BadTo, BadAmount, [decimals |-> Bad], [stable |-> FALSE]})
    @@ Calling("prepare_tron_token_approve", {[amount |-> Unlimited], [as |-> b], [as |-> Bad]})
    @@ Calling("prepare_tron_revoke_approval", {Bare, BadTo})
    @@ Calling("prepare_tron_stake_freeze", {Bare, [resource |-> Bad], [amount |-> 30]})
    @@ Calling("prepare_tron_stake_unfreeze", {[resource |-> "BANDWIDTH"], BadAmount, [amount |-> 30]})
    @@ Calling("prepare_tron_withdraw_expire_unfreeze", {Bare})
    @@ Calling("prepare_tron_stake_vote",
          {Bare, Vote(<<>>), Vote(<<[sr |-> a, count |-> 0]>>),
           Vote(<<[sr |-> a, count |-> 1], [sr |-> b, count |-> 1]>>),
           Vote(<<[sr |-> a, count |-> 1], [sr |-> a, count |-> 1]>>)})
    @@ Calling("prepare_tron_stake_claim_rewards", {Bare})
    @@ Calling("prepare_sunswap_swap",
          {[amount |-> 100, path |-> p, slippage |-> s] :
              p \in {<<TRUE>>, <<FALSE>>, <<TRUE, FALSE>>}, s \in {None, 10000}}
          \cup {[amount |-> 100, slippage |-> 100]})

BittensorArgs == {Bare, BadTo, BadAmount, [netuid |-> MaxNetuid + 1]}

BittensorRequests ==
    Calling("prepare_bittensor_native_send", {BadTo, BadAmount, [amount |-> 15]})
    @@ Calling("prepare_bittensor_add_stake", BittensorArgs)
    @@ Calling("prepare_bittensor_remove_stake", BittensorArgs)
    @@ Calling("prepare_bittensor_add_stake_limit",
          {Bare, BadTo} \cup {[tolerance |-> t] : t \in {Bad, 20}})
    @@ Calling("prepare_bittensor_remove_stake_limit",
          {Bare, BadTo} \cup {[tolerance |-> t] : t \in {Bad, 20, 10001}})
    @@ Calling("prepare_bittensor_move_stake", {Bare, [other |-> Bad], [toNetuid |-> MaxNetuid + 1]})
    @@ Calling("prepare_bittensor_swap_stake", {Bare, [netuid |-> MaxNetuid + 1]})
    @@ Calling("prepare_bittensor_transfer_stake", {Bare, [other |-> Bad]})

LendArgs == {Bare, BadTo, BadAmount, [known |-> FALSE]}

SolanaRequests ==
    Calling("prepare_solana_native_send", {Bare, BadTo, [amount |-> 15], [amount |-> 300]})
    @@ Calling("prepare_solana_spl_send", {Bare, BadTo, [decimals |-> Bad], BadAmount})
    @@ Calling("prepare_solana_nonce_init", {Bare, [to |-> a]})
    @@ Calling("prepare_solana_nonce_close", {Bare, BadTo, [owned |-> FALSE]})
    @@ Calling("prepare_solana_delegate", {Bare, [stake |-> None], [stake |-> Bad]})
    @@ Calling("prepare_solana_deactivate", {Bare, [stake |-> Bad]})
    @@ Calling("prepare_solana_withdraw", {Bare, BadAmount, [amount |-> 300]})
    @@ Calling("prepare_marginfi_account_init", {Bare})
    @@ Calling("prepare_marginfi_supply", LendArgs)
    @@ Calling("prepare_marginfi_withdraw", LendArgs)
    @@ Calling("prepare_marginfi_borrow", LendArgs)
    @@ Calling("prepare_marginfi_repay", LendArgs)
    @@ Calling("prepare_kamino_obligation_init", {Bare})
    @@ Calling("prepare_kamino_supply", LendArgs)
    @@ Calling("prepare_kamino_withdraw", LendArgs)
    @@ Calling("prepare_kamino_borrow", LendArgs)
    @@ Calling("prepare_kamino_repay", LendArgs)
    @@ Calling("prepare_jupiter_swap",
          {[impact |-> i, slippage |-> s] : i \in {5}, s \in {None, 0, 100}}
          \cup {Bare, [to |-> a], [legacy |-> FALSE], [allowed |-> FALSE]})
    @@ Calling("prepare_marinade_stake", {Bare, BadAmount})
    @@ Calling("prepare_marinade_immediate_unstake", {Bare, BadAmount})
    @@ Calling("prepare_jito_stake_pool_deposit", {Bare, BadAmount})

MCRequests ==
    ("tron" :> TronRequests) @@ ("bittensor" :> BittensorRequests) @@ ("solana" :> SolanaRequests)

MCShapes ==
    [tool : STRING, from : Owners, to : Owners \cup STRING \cup {None} \cup {<<v>> : v \in {[sr |-> a, count |-> 2]}},
     amount : Nat \cup {Unlimited}, ref : Nat, until : Nat, nonce : Nat, seen : Nat, bound : Nat,
     deadline : Nat, asked : UNION {UNION Range(MCRequests[f]) : f \in Families}]
=============================================================================
