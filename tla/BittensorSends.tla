--------------------------- MODULE BittensorSends ---------------------------
(***************************************************************************)
(* The Bittensor tools: a transfer of TAO and seven ways to move stake.  An *)
(* extrinsic is built with the account's next number and is immortal; two   *)
(* of the calls carry a limit of the price, the others none.                *)
(*                                                                         *)
(* The level is the price of a subnet's alpha.                              *)
(***************************************************************************)
EXTENDS DeviceSend

CONSTANT MaxNetuid  \* U16_MAX

TaoAmount(tenths) == Units(tenths, 9)
TaoParses(tenths) == Parses(tenths, 9)

\* assertSs58Address and the range of a subnet's number.
IsNetuid(n) == n \in 0..MaxNetuid

-----------------------------------------------------------------------------
(* Building                                                                 *)

\* The argument is a percentage, here in basis points; half a percent if there is none,
\* and nothing if it is negative or no number.
ToleranceBps(r) ==
    CASE r.tolerance = None -> 50
      [] r.tolerance = Bad -> 0
      [] OTHER -> r.tolerance

\* Mutant: basis points taken for a percentage.
FloorPricePercent(price, bps) == (price * (10000 - 100 * bps)) \div 10000

CeilingPrice(price, bps) == (price * (10000 + bps)) \div 10000
FloorPrice(price, bps) == (price * (10000 - bps)) \div 10000

\* An immortal extrinsic of the account's next number; its era's block is the genesis.
Extrinsic(fields) == Joined(fields, [nonce |-> nonces[Sender], ref |-> 0])

BuildNative(r) == Extrinsic([to |-> r.to, amount |-> TaoAmount(r.amount)])

BuildAddStakeLimit(r, price) ==
    Extrinsic([to |-> r.to, amount |-> TaoAmount(r.amount), seen |-> price,
               bound |-> CeilingPrice(price, ToleranceBps(r))])

\* A tolerance above 100% makes a negative limit, which does not encode.
BuildRemoveStakeLimit(r, price) ==
    Extrinsic([to |-> r.to, amount |-> TaoAmount(r.amount), seen |-> price,
               bound |-> FloorPrice(price, ToleranceBps(r))])

BuildStakeCall(r) == Extrinsic([to |-> r.to, amount |-> TaoAmount(r.amount)])

-----------------------------------------------------------------------------
(* Prepare                                                                  *)

TaoNativeSendAccepts(r) == IsAddress(r.to) /\ TaoParses(r.amount)

PrepareBittensorNativeSend ==
    \E r \in Asked("prepare_bittensor_native_send") :
        TaoNativeSendAccepts(r) /\ Makes(r, BuildNative(r))

AddStakeAccepts(r) == IsAddress(r.to) /\ IsNetuid(r.netuid) /\ TaoParses(r.amount)

PrepareBittensorAddStake ==
    \E r \in Asked("prepare_bittensor_add_stake") : AddStakeAccepts(r) /\ Makes(r, BuildStakeCall(r))

AddStakeLimitAccepts(r) == IsAddress(r.to) /\ IsNetuid(r.netuid) /\ TaoParses(r.amount)

PrepareBittensorAddStakeLimit ==
    \E r \in Asked("prepare_bittensor_add_stake_limit"), price \in Read :
        AddStakeLimitAccepts(r) /\ Makes(r, BuildAddStakeLimit(r, price))

RemoveStakeAccepts(r) == IsAddress(r.to) /\ IsNetuid(r.netuid) /\ TaoParses(r.amount)

PrepareBittensorRemoveStake ==
    \E r \in Asked("prepare_bittensor_remove_stake") : RemoveStakeAccepts(r) /\ Makes(r, BuildStakeCall(r))

RemoveStakeLimitAccepts(r) == IsAddress(r.to) /\ IsNetuid(r.netuid) /\ TaoParses(r.amount)

PrepareBittensorRemoveStakeLimit ==
    \E r \in Asked("prepare_bittensor_remove_stake_limit"), price \in Read :
        /\ RemoveStakeLimitAccepts(r)
        /\ ToleranceBps(r) <= 10000
        /\ Makes(r, BuildRemoveStakeLimit(r, price))

\* to is the destination's hotkey, other the origin's.
MoveStakeAccepts(r) ==
    /\ IsAddress(r.to) /\ IsAddress(r.other)
    /\ IsNetuid(r.netuid) /\ IsNetuid(r.toNetuid)
    /\ TaoParses(r.amount)

PrepareBittensorMoveStake ==
    \E r \in Asked("prepare_bittensor_move_stake") : MoveStakeAccepts(r) /\ Makes(r, BuildStakeCall(r))

SwapStakeAccepts(r) ==
    IsAddress(r.to) /\ IsNetuid(r.netuid) /\ IsNetuid(r.toNetuid) /\ TaoParses(r.amount)

PrepareBittensorSwapStake ==
    \E r \in Asked("prepare_bittensor_swap_stake") : SwapStakeAccepts(r) /\ Makes(r, BuildStakeCall(r))

\* to is the coldkey the stake goes to, other the hotkey it stays with.
TransferStakeAccepts(r) ==
    /\ IsAddress(r.to) /\ IsAddress(r.other)
    /\ IsNetuid(r.netuid) /\ IsNetuid(r.toNetuid)
    /\ TaoParses(r.amount)

PrepareBittensorTransferStake ==
    \E r \in Asked("prepare_bittensor_transfer_stake") : TransferStakeAccepts(r) /\ Makes(r, BuildStakeCall(r))

-----------------------------------------------------------------------------
(* Preview and send                                                         *)

\* The eight calls; the dry run is shown and decides nothing.
BittensorDispatch ==
    {"prepare_bittensor_native_send", "prepare_bittensor_add_stake", "prepare_bittensor_add_stake_limit",
     "prepare_bittensor_remove_stake", "prepare_bittensor_remove_stake_limit",
     "prepare_bittensor_move_stake", "prepare_bittensor_swap_stake", "prepare_bittensor_transfer_stake"}

BittensorLimited == {"prepare_bittensor_add_stake_limit", "prepare_bittensor_remove_stake_limit"}

\* A tolerance that is given is a number of basis points.
ASSUME BittensorAssumption ==
    "bittensor" \in Families =>
        /\ DOMAIN Requests["bittensor"] \subseteq BittensorDispatch
        /\ \A tool \in BittensorLimited \cap DOMAIN Requests["bittensor"] :
              \A r \in Requests["bittensor"][tool] : ToleranceBps(r) \in Nat

PreviewBittensor(h) ==
    /\ family = "bittensor" /\ Previewable(h)
    /\ issued[h].tool \in BittensorDispatch
    /\ Previewed(h)

\* With the path of the first account; the answer must be a signature of 64 bytes.
BittensorSign(c, h) == family = "bittensor" /\ MaySend(c, h) /\ Signed(c, h)

\* Mutant: the signature is attached under the account that signed.
BittensorSubmittedAs(c) == [issued[calls[c].handle] EXCEPT !.from = calls[c].by]

\* Mutant: and under its next number.
BittensorSubmittedNext(c) ==
    [issued[calls[c].handle] EXCEPT !.nonce = nonces[issued[calls[c].handle].from]]

\* The signature is attached under the account the extrinsic was built for.
BittensorSubmitted(c) == issued[calls[c].handle]

\* The chain keeps to the limits.
AddStakeSucceeds(tx) == tx.tool # "prepare_bittensor_add_stake_limit" \/ level <= tx.bound
RemoveStakeSucceeds(tx) == tx.tool # "prepare_bittensor_remove_stake_limit" \/ level >= tx.bound

BittensorSubmit(c) ==
    /\ family = "bittensor" /\ calls[c].pc = "signed"
    /\ Submits(c, BittensorSubmitted(c), TRUE)

\* In a block, any time after.
BittensorLands(h) ==
    /\ family = "bittensor"
    /\ \E s \in taken[h] : Lands(h, s, TRUE, AddStakeSucceeds(s.tx) /\ RemoveStakeSucceeds(s.tx))

\* submitExtrinsic throws unless the pool took it.
BittensorAnswer(c) == family = "bittensor" /\ Answered(c, calls[c].pc = "taken")

PairBittensorLedger == family = "bittensor" /\ Pair

BittensorNext ==
    \/ PrepareBittensorNativeSend \/ PrepareBittensorAddStake \/ PrepareBittensorAddStakeLimit
    \/ PrepareBittensorRemoveStake \/ PrepareBittensorRemoveStakeLimit
    \/ PrepareBittensorMoveStake \/ PrepareBittensorSwapStake \/ PrepareBittensorTransferStake
    \/ PairBittensorLedger
    \/ \E h \in Handles : PreviewBittensor(h) \/ BittensorLands(h) \/ \E c \in Calls : BittensorSign(c, h)
    \/ \E c \in Calls : BittensorSubmit(c) \/ BittensorAnswer(c)

-----------------------------------------------------------------------------
(* Properties                                                               *)

\* A limited call that takes effect did so within the tolerance of the price it was
\* prepared at, however long ago that was (the extrinsic is immortal).
StakeLimitsHold ==
    \A h \in Handles : \A i \in DOMAIN landed[h] :
        LET tx == issued[h]
            paid == landed[h][i].level
            bps == ToleranceBps(tx.asked)
        IN landed[h][i].done =>
             /\ tx.tool = "prepare_bittensor_add_stake_limit" =>
                    10000 * paid <= tx.seen * (10000 + bps)
             /\ tx.tool = "prepare_bittensor_remove_stake_limit" =>
                    10000 * paid > tx.seen * (10000 - bps) - 10000
=============================================================================
