----------------------------- MODULE TronSends -----------------------------
(***************************************************************************)
(* The TRON tools.  Every transaction is built by the node, refers to a     *)
(* recent block and is extended by 900 seconds, as long as a handle lives;  *)
(* a second broadcast of the same bytes is the same transaction.            *)
(*                                                                         *)
(* The level stands for the account's balance of a TRC-20 token, for what   *)
(* its expired unstaking left to withdraw, and for the state of a pool.     *)
(***************************************************************************)
EXTENDS DeviceSend, SequencesExt

CONSTANTS
    Pools,      \* the reserves of a SunSwap pair at each level, in the pair's order
    Extension,  \* 900 seconds and SunSwap's 600, in ticks
    Deadline,
    MaxSafe,    \* Number.MAX_SAFE_INTEGER
    Unlimited   \* the amount "max" of an approval

TronTools ==
    {"prepare_tron_native_send", "prepare_tron_trc20_send", "prepare_tron_token_approve",
     "prepare_tron_revoke_approval", "prepare_tron_stake_freeze", "prepare_tron_stake_unfreeze",
     "prepare_tron_withdraw_expire_unfreeze", "prepare_tron_stake_vote",
     "prepare_tron_stake_claim_rewards", "prepare_sunswap_swap"}

TronAmount(tenths, decimals) == Units(tenths, decimals)

\* A token the registry knows comes with its decimals.
KnownToken(r) == r.decimals # Bad

\* 900 seconds are as long as a handle lives; a pool that quotes holds both tokens, and
\* an amount that is sold is a number of its units.
ASSUME TronAssumption ==
    /\ Extension \in Nat /\ TTL <= Extension
    /\ "tron" \in Families =>
          /\ DOMAIN Requests["tron"] \subseteq TronTools
          /\ \A l \in Levels["tron"] : Pools[l] \in (Nat \ {0}) \X (Nat \ {0})
          /\ "prepare_sunswap_swap" \in DOMAIN Requests["tron"] =>
                \A r \in Requests["tron"]["prepare_sunswap_swap"] :
                    KnownToken(r) => TronAmount(r.amount, r.decimals) \in Nat \cup {Bad}

\* Mutant: the transaction is left with the minute the node gives it.
ExtendedNot(fields) == Joined(fields, [until |-> now])

\* extendExpiration(tx, 900), which every encoder ends with.
Extended(fields) == Joined([until |-> now + Extension], fields)

\* Sender of the tools that take one as an argument.
Spends(r) == IF r.as = None THEN Sender ELSE r.as

-----------------------------------------------------------------------------
(* Prepare                                                                  *)

TronNativeSendAccepts(r) == IsAddress(r.to) /\ Parses(r.amount, 0)

EncodeTronTransfer(r) == Extended([to |-> r.to, amount |-> TronAmount(r.amount, 0)])

PrepareTronNativeSend ==
    \E r \in Asked("prepare_tron_native_send") :
        /\ TronNativeSendAccepts(r)
        /\ TronAmount(r.amount, 0) <= MaxSafe
        /\ Makes(r, EncodeTronTransfer(r))

TronTrc20SendAccepts(r) == IsAddress(r.to) /\ KnownToken(r) /\ Parses(r.amount, r.decimals)

EncodeTronTrc20Transfer(r) == Extended([to |-> r.to, amount |-> TronAmount(r.amount, r.decimals)])

PrepareTronTrc20Send ==
    \E r \in Asked("prepare_tron_trc20_send") :
        TronTrc20SendAccepts(r) /\ Makes(r, EncodeTronTrc20Transfer(r))

ApprovedAmount(r) == IF r.amount = Unlimited THEN Unlimited ELSE TronAmount(r.amount, r.decimals)

TronApproveAccepts(r) ==
    IsAddress(r.to) /\ KnownToken(r) /\ ApprovedAmount(r) # Bad /\ IsAddress(r.as)

EncodeTronTrc20Approve(r, amount) == Extended([from |-> Spends(r), to |-> r.to, amount |-> amount])

PrepareTronTokenApprove ==
    \E r \in Asked("prepare_tron_token_approve") :
        /\ TronApproveAccepts(r)
        /\ Makes(r, EncodeTronTrc20Approve(r, ApprovedAmount(r)))

TronRevokeAccepts(r) == IsAddress(r.to) /\ KnownToken(r) /\ IsAddress(r.as)

PrepareTronRevokeApproval ==
    \E r \in Asked("prepare_tron_revoke_approval") :
        TronRevokeAccepts(r) /\ Makes(r, EncodeTronTrc20Approve(r, 0))

TronStakeAccepts(r) == r.resource \in {"ENERGY", "BANDWIDTH"} /\ Parses(r.amount, 6)

EncodeFreezeBalanceV2(r) == Extended([to |-> r.resource, amount |-> TronAmount(r.amount, 6)])

PrepareTronStakeFreeze ==
    \E r \in Asked("prepare_tron_stake_freeze") :
        /\ TronStakeAccepts(r)
        /\ TronAmount(r.amount, 6) <= MaxSafe
        /\ Makes(r, EncodeFreezeBalanceV2(r))

TronUnstakeAccepts(r) == r.resource \in {"ENERGY", "BANDWIDTH"} /\ Parses(r.amount, 6)

EncodeUnfreezeBalanceV2(r) == Extended([to |-> r.resource, amount |-> TronAmount(r.amount, 6)])

PrepareTronStakeUnfreeze ==
    \E r \in Asked("prepare_tron_stake_unfreeze") :
        /\ TronUnstakeAccepts(r)
        /\ TronAmount(r.amount, 6) <= MaxSafe
        /\ Makes(r, EncodeUnfreezeBalanceV2(r))

EncodeWithdrawExpireUnfreeze == Extended([to |-> None])

PrepareTronWithdrawExpireUnfreeze ==
    \E r \in Asked("prepare_tron_withdraw_expire_unfreeze") : Makes(r, EncodeWithdrawExpireUnfreeze)

\* votes: a sequence of representatives and counts; the representatives' addresses are
\* left to the node, their names are shown only.
TronVoteAccepts(r) ==
    /\ r.votes # <<>>
    /\ \A i \in DOMAIN r.votes : r.votes[i].count > 0
    /\ \A i, j \in DOMAIN r.votes : i # j => r.votes[i].sr # r.votes[j].sr

EncodeVoteWitness(r) == Extended([to |-> r.votes, amount |-> FoldLeft(LAMBDA n, v : n + v.count, 0, r.votes)])

PrepareTronStakeVote ==
    \E r \in Asked("prepare_tron_stake_vote") : TronVoteAccepts(r) /\ Makes(r, EncodeVoteWitness(r))

EncodeWithdrawBalance == Extended([to |-> None])

\* The reward it asks for first is shown and decides nothing.
PrepareTronStakeClaimRewards ==
    \E r \in Asked("prepare_tron_stake_claim_rewards") : Makes(r, EncodeWithdrawBalance)

-----------------------------------------------------------------------------
(* SunSwap                                                                  *)

\* A path is a sequence of pairs, each sold from its first token or its second; it has
\* one pair if a token is WTRX, else two.
SoldReserve(first, l) == Pools[l][IF first THEN 1 ELSE 2]
BoughtReserve(first, l) == Pools[l][IF first THEN 2 ELSE 1]

\* What one pair gives, without its fee.
PairGives(n, first, l) == (n * BoughtReserve(first, l)) \div (SoldReserve(first, l) + n)

\* The router's answer.
CallGetAmountsOut(amount, path, l) ==
    LET out == PairGives(amount, path[1], l)
    IN IF Len(path) = 1 THEN out ELSE PairGives(out, path[2], l)

\* How much less than the spot price, in basis points: reserve1 / reserve0 whatever the
\* direction, and nothing at all when the reserves were not asked for.
ComputePriceImpactBps(amount, out, reserves) ==
    LET spot == amount * reserves[2]
        got == out * reserves[1]
    IN IF reserves = <<0, 0>> \/ got >= spot THEN 0 ELSE ((spot - got) * 10000) \div spot

FetchSunswapQuote(r, l) ==
    LET out == CallGetAmountsOut(TronAmount(r.amount, r.decimals), r.path, l)
    IN [out |-> out,
        impact |-> ComputePriceImpactBps(TronAmount(r.amount, r.decimals), out,
                       IF Len(r.path) = 1 THEN Pools[l] ELSE <<0, 0>>)]

SlippageBps(r) == IF r.slippage = None THEN 50 ELSE r.slippage

SunswapAccepts(r) ==
    /\ IsAddress(r.to) /\ KnownToken(r) /\ Parses(r.amount, r.decimals)
    /\ SlippageBps(r) \in 0..9999
    /\ IsAddress(r.as)

\* Mutant: the slippage is taken of the amount sold.
AmountOutMinOfSold(r, q) == (TronAmount(r.amount, r.decimals) * (10000 - SlippageBps(r))) \div 10000

AmountOutMin(r, q) == (q.out * (10000 - SlippageBps(r))) \div 10000

EncodeSunswapSwap(r, q, l) ==
    Extended([from |-> Spends(r), to |-> Spends(r), amount |-> TronAmount(r.amount, r.decimals),
              seen |-> l, bound |-> AmountOutMin(r, q), deadline |-> now + Deadline])

PrepareSunswapSwap ==
    \E r \in Asked("prepare_sunswap_swap"), l \in Read :
        LET q == FetchSunswapQuote(r, l)
        IN /\ SunswapAccepts(r)
           /\ ~(q.impact > 200 /\ r.slippage = None)
           /\ Makes(r, EncodeSunswapSwap(r, q, l))

-----------------------------------------------------------------------------
(* Preview                                                                  *)

TronStakes == {"prepare_tron_stake_freeze", "prepare_tron_stake_unfreeze",
               "prepare_tron_stake_vote", "prepare_tron_stake_claim_rewards"}
TronApprovals == {"prepare_tron_token_approve", "prepare_tron_revoke_approval"}

CheckWithdrawableBalance == level > 0

\* What the node says of a TRC-20 transfer, which must be "ok".
RunTronPreviewSimulation(tx) == tx.amount <= level

\* Mutant: a simulation that fails is shown and does not refuse.
Trc20MayPreviewAlways(tx) == tx.asked.stable

\* One of the four stablecoins, and a transfer that would succeed.
Trc20MayPreview(tx) == tx.asked.stable /\ RunTronPreviewSimulation(tx)

PreviewTron(h, tools) == family = "tron" /\ Previewable(h) /\ issued[h].tool \in tools /\ Previewed(h)

PreviewTronWithdraw(h) ==
    CheckWithdrawableBalance /\ PreviewTron(h, {"prepare_tron_withdraw_expire_unfreeze"})
PreviewTronStake(h) == PreviewTron(h, TronStakes)
PreviewTronApproval(h) == PreviewTron(h, TronApprovals)
PreviewTronSwap(h) == PreviewTron(h, {"prepare_sunswap_swap"})
PreviewTronSend(h) ==
    /\ PreviewTron(h, {"prepare_tron_native_send", "prepare_tron_trc20_send"})
    /\ issued[h].tool = "prepare_tron_trc20_send" => Trc20MayPreview(issued[h])

-----------------------------------------------------------------------------
(* Send                                                                     *)

TronSign(c, h) == family = "tron" /\ MaySend(c, h) /\ Signed(c, h)

\* Mutant: what was signed is given a fresh block reference.
TronSubmittedAfresh(c) == [issued[calls[c].handle] EXCEPT !.ref = now, !.until = now + Extension]

TronSubmitted(c) == issued[calls[c].handle]

TronTakes(tx) == tx.tool = "prepare_tron_withdraw_expire_unfreeze" => level > 0

TronSucceeds(tx) ==
    CASE tx.tool = "prepare_tron_trc20_send" -> tx.amount <= level
      [] tx.tool = "prepare_sunswap_swap" ->
             /\ now <= tx.deadline
             /\ CallGetAmountsOut(tx.amount, tx.asked.path, level) >= tx.bound
      [] OTHER -> TRUE

TronSubmit(c) ==
    /\ family = "tron" /\ calls[c].pc = "signed"
    /\ LET tx == TronSubmitted(c) IN Submits(c, tx, TronTakes(tx))

\* A block takes it under the same condition as the node did.
TronLands(h) ==
    family = "tron" /\ \E s \in taken[h] : Lands(h, s, TronTakes(s.tx), TronSucceeds(s.tx))

\* Mutant: any answer of the node is a success.
TronBroadcastOkAlways(c) == TRUE

\* The node answers with a flag: true if it took the transaction.
TronBroadcastOk(c) == calls[c].pc = "taken"

TronAnswer(c) == family = "tron" /\ Answered(c, TronBroadcastOk(c))

PairTronLedger == family = "tron" /\ Pair

TronNext ==
    \/ PrepareTronNativeSend \/ PrepareTronTrc20Send \/ PrepareTronTokenApprove
    \/ PrepareTronRevokeApproval \/ PrepareTronStakeFreeze \/ PrepareTronStakeUnfreeze
    \/ PrepareTronWithdrawExpireUnfreeze \/ PrepareTronStakeVote
    \/ PrepareTronStakeClaimRewards \/ PrepareSunswapSwap \/ PairTronLedger
    \/ \E h \in Handles :
         \/ PreviewTronWithdraw(h) \/ PreviewTronStake(h) \/ PreviewTronApproval(h)
         \/ PreviewTronSwap(h) \/ PreviewTronSend(h)
         \/ TronLands(h)
         \/ \E c \in Calls : TronSign(c, h)
    \/ \E c \in Calls : TronSubmit(c) \/ TronAnswer(c)

-----------------------------------------------------------------------------
(* Properties                                                               *)

\* As long as a handle can be previewed and sent its transaction can still be executed:
\* the user is never shown one that is dead.  A swap also has a deadline of ten minutes,
\* after which it is taken and reverts.
OfferedWhileValid ==
    \A h \in Handles : family = "tron" /\ Held(h) /\ ~Expired(h) => now <= issued[h].until

\* A swap that takes effect delivers what the pool would have given when it was prepared,
\* less the slippage that was asked for, whatever happened to the pool since.
SwapsDeliver ==
    \A h \in Handles : \A i \in DOMAIN landed[h] :
        LET tx == issued[h]
            Delivers(l) == CallGetAmountsOut(tx.amount, tx.asked.path, l)
        IN landed[h][i].done /\ tx.tool = "prepare_sunswap_swap" =>
               10000 * (Delivers(landed[h][i].level) + 1) >
                   Delivers(tx.seen) * (10000 - SlippageBps(tx.asked))
=============================================================================
