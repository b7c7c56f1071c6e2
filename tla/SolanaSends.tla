----------------------------- MODULE SolanaSends -----------------------------
(***************************************************************************)
(* The Solana tools.  A transaction names a recent blockhash, which a tick  *)
(* later is too old, and its bytes are executed at most once.  The preview  *)
(* refuses programs outside the allowlist and whatever does not succeed in  *)
(* a simulation, which is made with a blockhash of its own.                 *)
(*                                                                         *)
(* The level is what the account that matters to a tool holds, 0 if there   *)
(* is no such account: the sender's balance, the token account of the       *)
(* recipient, the stake or the nonce account, the obligation.               *)
(***************************************************************************)
EXTENDS DeviceSend

SolanaAmount(tenths, decimals) == Units(tenths, decimals)

\* A transaction with the latest blockhash.
Recent(fields) == Joined(fields, [until |-> now])

-----------------------------------------------------------------------------
(* Prepare: transfers, nonces, native stake                                 *)

SolanaNativeSendAccepts(r) == IsAddress(r.to) /\ Parses(r.amount, 0)

BuildSolanaTransferTx(r) == Recent([to |-> r.to, amount |-> SolanaAmount(r.amount, 0)])

PrepareSolanaNativeSend ==
    \E r \in Asked("prepare_solana_native_send") :
        SolanaNativeSendAccepts(r) /\ Makes(r, BuildSolanaTransferTx(r))

\* decimals: of the registry or read from the mint.
SolanaSplSendAccepts(r) == IsAddress(r.to) /\ r.decimals # Bad /\ Parses(r.amount, r.decimals)

\* seen = 0: the recipient's token account does not exist and is created.
BuildSplTransferTx(r, holds) ==
    Recent([to |-> r.to, amount |-> SolanaAmount(r.amount, r.decimals), seen |-> holds])

PrepareSolanaSplSend ==
    \E r \in Asked("prepare_solana_spl_send"), holds \in Read :
        SolanaSplSendAccepts(r) /\ Makes(r, BuildSplTransferTx(r, holds))

SolanaNonceInitAccepts(r) == IsAddress(r.to) /\ r.to # Sender

\* The key of the account it makes has to sign too, and nobody holds it.
BuildNonceInitTx(r) == Recent([to |-> r.to])

PrepareSolanaNonceInit ==
    \E r \in Asked("prepare_solana_nonce_init") :
        HasSender /\ SolanaNonceInitAccepts(r) /\ Makes(r, BuildNonceInitTx(r))

\* owned: it is a nonce account of the sender.
SolanaNonceCloseAccepts(r, lamports) == IsAddress(r.to) /\ lamports > 0 /\ r.owned

\* Everything that was read is withdrawn.
BuildNonceCloseTx(r, lamports) == Recent([to |-> r.to, amount |-> lamports, seen |-> lamports])

PrepareSolanaNonceClose ==
    \E r \in Asked("prepare_solana_nonce_close"), lamports \in Read :
        SolanaNonceCloseAccepts(r, lamports) /\ Makes(r, BuildNonceCloseTx(r, lamports))

\* stake: the stake account, None for one to be made of a seed that is always the same.
SolanaDelegateAccepts(r) == IsAddress(r.to) /\ IsAddress(r.stake) /\ Parses(r.amount, 0)

BuildDelegateTx(r) == Recent([to |-> r.to, amount |-> SolanaAmount(r.amount, 0)])

PrepareSolanaDelegate ==
    \E r \in Asked("prepare_solana_delegate") :
        SolanaDelegateAccepts(r) /\ Makes(r, BuildDelegateTx(r))

BuildDeactivateTx(r) == Recent([to |-> r.stake])

PrepareSolanaDeactivate ==
    \E r \in Asked("prepare_solana_deactivate") : IsAddress(r.stake) /\ Makes(r, BuildDeactivateTx(r))

SolanaWithdrawAccepts(r) == IsAddress(r.stake) /\ IsAddress(r.to) /\ Parses(r.amount, 0)

BuildWithdrawTx(r) == Recent([to |-> r.to, amount |-> SolanaAmount(r.amount, 0)])

PrepareSolanaWithdraw ==
    \E r \in Asked("prepare_solana_withdraw") :
        SolanaWithdrawAccepts(r) /\ Makes(r, BuildWithdrawTx(r))

-----------------------------------------------------------------------------
(* Prepare: MarginFi and Kamino                                             *)

\* An account of index 0; that there may be one already is left to the simulation.
PrepareMarginfiAccountInit ==
    \E r \in Asked("prepare_marginfi_account_init") : Makes(r, Recent([to |-> None]))

\* The four operations want the account and the bank, whose mint gives the decimals.
MarginfiSupplyAccepts(r, holds) == IsAddress(r.to) /\ holds > 0 /\ r.known /\ Parses(r.amount, r.decimals)
MarginfiWithdrawAccepts(r, holds) == IsAddress(r.to) /\ holds > 0 /\ r.known /\ Parses(r.amount, r.decimals)
MarginfiBorrowAccepts(r, holds) == IsAddress(r.to) /\ holds > 0 /\ r.known /\ Parses(r.amount, r.decimals)
MarginfiRepayAccepts(r, holds) == IsAddress(r.to) /\ holds > 0 /\ r.known /\ Parses(r.amount, r.decimals)

MarginfiTx(r) == Recent([to |-> r.to, amount |-> SolanaAmount(r.amount, r.decimals)])

PrepareMarginfiSupply ==
    \E r \in Asked("prepare_marginfi_supply"), holds \in Read :
        MarginfiSupplyAccepts(r, holds) /\ Makes(r, MarginfiTx(r))
PrepareMarginfiWithdraw ==
    \E r \in Asked("prepare_marginfi_withdraw"), holds \in Read :
        MarginfiWithdrawAccepts(r, holds) /\ Makes(r, MarginfiTx(r))
PrepareMarginfiBorrow ==
    \E r \in Asked("prepare_marginfi_borrow"), holds \in Read :
        MarginfiBorrowAccepts(r, holds) /\ Makes(r, MarginfiTx(r))
PrepareMarginfiRepay ==
    \E r \in Asked("prepare_marginfi_repay"), holds \in Read :
        MarginfiRepayAccepts(r, holds) /\ Makes(r, MarginfiTx(r))

PrepareKaminoObligationInit ==
    \E r \in Asked("prepare_kamino_obligation_init") : Makes(r, Recent([to |-> None]))

\* The obligation must exist, and the reserve be one it already has to do with.
PrepareKaminoOpContext(holds) == HasSender /\ holds > 0
KaminoAccepts(r) == IsAddress(r.to) /\ r.known /\ Parses(r.amount, r.decimals)

\* Every reserve and the obligation are refreshed in the same transaction.
FinalizeKaminoOp(r) == Makes(r, Recent([to |-> r.to, amount |-> SolanaAmount(r.amount, r.decimals)]))

PrepareKaminoSupply ==
    \E r \in Asked("prepare_kamino_supply"), holds \in Read :
        PrepareKaminoOpContext(holds) /\ KaminoAccepts(r) /\ FinalizeKaminoOp(r)
PrepareKaminoWithdraw ==
    \E r \in Asked("prepare_kamino_withdraw"), holds \in Read :
        PrepareKaminoOpContext(holds) /\ KaminoAccepts(r) /\ FinalizeKaminoOp(r)
PrepareKaminoBorrow ==
    \E r \in Asked("prepare_kamino_borrow"), holds \in Read :
        PrepareKaminoOpContext(holds) /\ KaminoAccepts(r) /\ FinalizeKaminoOp(r)
PrepareKaminoRepay ==
    \E r \in Asked("prepare_kamino_repay"), holds \in Read :
        PrepareKaminoOpContext(holds) /\ KaminoAccepts(r) /\ FinalizeKaminoOp(r)

-----------------------------------------------------------------------------
(* Prepare: Jupiter, Marinade and Jito                                      *)

SlippageOfSwap(r) == IF r.slippage = None THEN 50 ELSE r.slippage

JupiterAccepts(r) ==
    /\ IsAddress(r.to) /\ IsAddress(r.other) /\ r.to # r.other
    /\ r.amount > 0
    /\ SlippageOfSwap(r) \in 1..10000

\* The API quotes, computes the floor and builds the transaction: a legacy one, paid for
\* by the sender, or it is refused.
JupiterQuote(r, rate) ==
    [impact |-> r.impact, floor |-> (r.amount * rate * (10000 - SlippageOfSwap(r))) \div 10000]
DeserializeJupiterSwapTx(r) == r.legacy

PrepareJupiterSwap ==
    \E r \in Asked("prepare_jupiter_swap"), rate \in Read :
        /\ JupiterAccepts(r)
        /\ ~(JupiterQuote(r, rate).impact > 2 /\ r.slippage = None)
        /\ DeserializeJupiterSwapTx(r)
        /\ Makes(r, Recent([to |-> r.to, amount |-> r.amount, seen |-> rate,
                            bound |-> JupiterQuote(r, rate).floor]))

\* Both make the token account of the sender if it is not there.
MarinadeStakeAccepts(r) == Parses(r.amount, 0)

PrepareMarinadeStake ==
    \E r \in Asked("prepare_marinade_stake"), holds \in Read :
        /\ MarinadeStakeAccepts(r)
        /\ Makes(r, Recent([amount |-> SolanaAmount(r.amount, 0), seen |-> holds]))

\* The fee of the pool is read and shown.
MarinadeUnstakeAccepts(r) == Parses(r.amount, 0)

PrepareMarinadeImmediateUnstake ==
    \E r \in Asked("prepare_marinade_immediate_unstake") :
        MarinadeUnstakeAccepts(r) /\ Makes(r, Recent([amount |-> SolanaAmount(r.amount, 0)]))

JitoDepositAccepts(r) == Parses(r.amount, 0)

PrepareJitoStakePoolDeposit ==
    \E r \in Asked("prepare_jito_stake_pool_deposit"), holds \in Read :
        /\ JitoDepositAccepts(r)
        /\ Makes(r, Recent([amount |-> SolanaAmount(r.amount, 0), seen |-> holds]))

-----------------------------------------------------------------------------
(* Preview and send                                                         *)

\* What the programs of the chain do with it now.
SolanaSucceeds(tx) ==
    CASE tx.tool \in {"prepare_solana_spl_send", "prepare_marinade_stake", "prepare_jito_stake_pool_deposit"} ->
             (tx.seen = 0) = (level = 0)
      [] tx.tool \in {"prepare_solana_nonce_init", "prepare_marginfi_account_init",
                      "prepare_kamino_obligation_init"} -> level = 0
      [] tx.tool = "prepare_solana_nonce_close" -> tx.amount = level
      [] tx.tool = "prepare_solana_delegate" -> (tx.asked.stake = None) = (level = 0)
      [] tx.tool = "prepare_solana_deactivate" -> level > 0
      [] tx.tool = "prepare_jupiter_swap" -> tx.amount * level >= tx.bound
      [] OTHER -> tx.amount <= level

\* Only the programs of a route of Jupiter's are not the tool's own choice.
CheckSolanaDispatchTarget(tx) == tx.tool = "prepare_jupiter_swap" => tx.asked.allowed

SimulationOk(tx) == SolanaSucceeds(tx)

PreviewSolana(h) ==
    /\ family = "solana" /\ Previewable(h)
    /\ CheckSolanaDispatchTarget(issued[h])
    /\ SimulationOk(issued[h])
    /\ Previewed(h)

\* The account must still be the fee payer; the device signs with its default path.
SolanaSign(c, h) ==
    /\ family = "solana" /\ MaySend(c, h)
    /\ Head(paired) = issued[h].from
    /\ Signed(c, h)

SolanaSubmitted(c) == issued[calls[c].handle]

\* A transaction that lacks a signature is not serialised.
Serializes(tx) == tx.tool # "prepare_solana_nonce_init"

SolanaSubmit(c) ==
    /\ family = "solana" /\ calls[c].pc = "signed"
    /\ LET tx == SolanaSubmitted(c) IN Submits(c, tx, Serializes(tx))

\* The chain has it executed, in this tick or not at all.
SolanaLands(h) ==
    family = "solana" /\ \E s \in taken[h] : Lands(h, s, TRUE, SolanaSucceeds(s.tx))

\* sendRawTransaction throws unless the node took it.
SolanaAnswer(c) == family = "solana" /\ Answered(c, calls[c].pc = "taken")

PairSolanaLedger == family = "solana" /\ Pair

SolanaNext ==
    \/ PrepareSolanaNativeSend \/ PrepareSolanaSplSend \/ PrepareSolanaNonceInit
    \/ PrepareSolanaNonceClose \/ PrepareSolanaDelegate \/ PrepareSolanaDeactivate
    \/ PrepareSolanaWithdraw \/ PrepareMarginfiAccountInit \/ PrepareMarginfiSupply
    \/ PrepareMarginfiWithdraw \/ PrepareMarginfiBorrow \/ PrepareMarginfiRepay
    \/ PrepareKaminoObligationInit \/ PrepareKaminoSupply \/ PrepareKaminoWithdraw
    \/ PrepareKaminoBorrow \/ PrepareKaminoRepay \/ PrepareJupiterSwap
    \/ PrepareMarinadeStake \/ PrepareMarinadeImmediateUnstake \/ PrepareJitoStakePoolDeposit
    \/ PairSolanaLedger
    \/ \E h \in Handles : PreviewSolana(h) \/ SolanaLands(h) \/ \E c \in Calls : SolanaSign(c, h)
    \/ \E c \in Calls : SolanaSubmit(c) \/ SolanaAnswer(c)

=============================================================================
