---------------------------- MODULE WalletTools -----------------------------
(***************************************************************************)
(* The plain tools of an EVM wallet: prepare_native_send,                   *)
(* prepare_token_send, prepare_token_approve, prepare_revoke_approval,      *)
(* prepare_weth_unwrap, prepare_aave_supply, prepare_aave_withdraw and      *)
(* prepare_custom_call; and prepare_solana_lifi_swap, whose transaction is  *)
(* an EVM one.  They decide little from the chain; what may go              *)
(* wrong is the amount, which the caller names in whole tokens and the      *)
(* contract takes in units, and the address it goes to.                     *)
(*                                                                         *)
(* A request names amount as [n, places], the decimal n / 10^places, or Max *)
(* or Malformed; value, in wei, is already in units.                        *)
(***************************************************************************)
EXTENDS TradeTools

CONSTANTS
    Decimals,       \* token -> its decimals, what the contract answers
    Listed,         \* tokens whose decimals the registry has
    NativeDecimals, \* of ether, and of WETH
    Caller,         \* the account of resolveFrom
    Max, Malformed

\* MAX_UINT256, which no amount of a run reaches.
MaxUint256 == 10^6

ThirdParty == {"native_send", "custom_call", "token_send", "token_approve", "revoke_approval"}
InTokens == {"token_send", "token_approve", "weth_unwrap", "aave_supply", "aave_withdraw"}

ASSUME WalletAssumption ==
    /\ None \notin ThirdParty \cup InTokens \cup {"solana_lifi_swap"}
    /\ \A t \in DOMAIN Decimals : Decimals[t] \in Nat
    /\ Listed \subseteq DOMAIN Decimals
    /\ NativeDecimals \in Nat
    /\ \A r \in Requests :
        /\ r.tool \in {"token_send", "token_approve", "aave_supply", "aave_withdraw"} =>
               r.token \in DOMAIN Decimals
        /\ r.tool \in InTokens =>
               r.amount \in {Max, Malformed} \cup [n : Nat, places : Nat]

-----------------------------------------------------------------------------
(* Amounts                                                                  *)

TenTo[n \in Nat] == IF n = 0 THEN 1 ELSE 10 * TenTo[n - 1]

\* More places than the token has decimals are refused, not rounded.
parseAmountStrict(amount, decimals) ==
    IF amount = Malformed THEN None
    ELSE IF amount = Max THEN None
    ELSE IF amount.places > decimals THEN None
    ELSE amount.n * TenTo[decimals - amount.places]

\* From the registry, which is right about the tokens in it, or from the contract; a
\* request that fails ends the call (RefuseCall).
resolveDecimals(token) == Decimals[token]

-----------------------------------------------------------------------------
(* The tools                                                                *)

\* BigInt of the text, where no text at all is zero.
ValueTx(tool, value) == [op |-> tool, amount |-> <<value, 0>>, to |-> call.req.to]

NativeSend ==
    /\ Asked("native_send")
    /\ IF call.req.value = Malformed THEN Refuse
       ELSE Make(ValueTx("native_send", call.req.value))
    /\ ReadsNothing

\* The bytes of the call are the caller's; the canonical tools are only suggested.
CustomCall ==
    LET r == call.req IN
    /\ Asked("custom_call")
    /\ IF ~r.acknowledged \/ r.value = Malformed THEN Refuse
       ELSE Make(ValueTx("custom_call", r.value))
    /\ ReadsNothing

TokenTx(tool, units, to) == [op |-> tool, amount |-> <<units, 0>>, to |-> to]

MovesTokens(tool, decimals, to) ==
    LET units == parseAmountStrict(call.req.amount, decimals) IN
    /\ Asked(tool)
    /\ IF units = None THEN Refuse ELSE Make(TokenTx(tool, units, to))
    /\ ReadsNothing

TokenSend == MovesTokens("token_send", resolveDecimals(call.req.token), call.req.to)

WethUnwrap == MovesTokens("weth_unwrap", NativeDecimals, Caller)

\* encodeAaveSupply and encodeAaveWithdraw name the caller as onBehalfOf and as to.  The
\* allowance of the pool is not looked at, and "max" is no amount.
AaveSupply == MovesTokens("aave_supply", resolveDecimals(call.req.token), Caller)
AaveWithdraw == MovesTokens("aave_withdraw", resolveDecimals(call.req.token), Caller)

\* encodeErc20Approve replaces the allowance, whatever it was.
prepareApproveInternal(tool, units) == Make(TokenTx(tool, units, call.req.to))

TokenApprove ==
    LET r == call.req
        units == IF r.amount = Max THEN MaxUint256
                 ELSE parseAmountStrict(r.amount, resolveDecimals(r.token))
    IN
    /\ Asked("token_approve")
    /\ IF units = None THEN Refuse ELSE prepareApproveInternal("token_approve", units)
    /\ ReadsNothing

RevokeApproval ==
    /\ Asked("revoke_approval")
    /\ prepareApproveInternal("revoke_approval", 0)
    /\ ReadsNothing

\* What LiFi answers to a quote: between which chains, the contract to call (on the
\* allowlist, not on it, or no EVM address), whether the call is one of the bridges whose
\* recipient the preview can decode, and who is paid by it.
LifiQuote == [direction : {"inbound", "outbound", "neither"},
              target : {"listed", "unlisted", "malformed"},
              bridge : {"decoded", "undecodable", "unknown"},
              recipient : {call.req.to, Caller}]

LifiAccepts(r) == r.amount \notin {Max, Malformed} /\ r.amount.n > 0

\* Into Solana every answer is refused, whichever kind of transaction it carries.
SolanaLifiSwap ==
    /\ Asked("solana_lifi_swap")
    /\ \E quote \in LifiQuote :
         IF ~LifiAccepts(call.req) \/ quote.direction # "outbound" \/ quote.target = "malformed"
         THEN Refuse
         ELSE Make([op |-> "solana_lifi_swap", to |-> quote.recipient, route |-> quote])
    /\ ReadsNothing

\* Its preview: the contract is on the allowlist; a call that is decoded pays the address
\* the caller named, and one that is not known to be a bridge passes.
DispatchAllowed(route) == route.target = "listed"
FinalRecipientOk(route) ==
    \/ route.bridge = "unknown"
    \/ route.bridge = "decoded" /\ route.recipient = call.req.to

-----------------------------------------------------------------------------
(* The tokens and contracts, external                                       *)

WalletExecutes ==
    /\ call.pc = "made"
    /\ tx.outcome = "none"
    /\ \/ /\ tx.op \in {"native_send", "custom_call", "token_send", "weth_unwrap", "aave_withdraw"}
          /\ Done
       \/ /\ tx.op = "aave_supply"
          /\ IF chain.allowance[1] < tx.amount[1] THEN Fails("allowance") ELSE Done
       \/ /\ tx.op \in {"token_approve", "revoke_approval"}
          /\ Ends("done", <<0, 0>>, <<0, 0>>)
          /\ chain' = [chain EXCEPT !.allowance[1] = tx.amount[1]]
       \/ /\ tx.op = "solana_lifi_swap"
          /\ DispatchAllowed(tx.route) /\ FinalRecipientOk(tx.route)
          /\ Done
    /\ UNCHANGED <<call, moved, moves>>

WalletNext ==
    \/ Next
    \/ NativeSend \/ TokenSend \/ TokenApprove \/ RevokeApproval
    \/ WethUnwrap \/ AaveSupply \/ AaveWithdraw \/ CustomCall \/ SolanaLifiSwap
    \/ WalletExecutes

WalletSpec == Init /\ [][WalletNext]_vars

-----------------------------------------------------------------------------
(* Properties                                                               *)

DecimalsOf(r) == IF r.tool = "weth_unwrap" THEN NativeDecimals ELSE Decimals[r.token]

PaysAsNamed ==
    /\ tx.op \in ThirdParty => tx.to = call.req.to
    /\ tx.op \in InTokens \ ThirdParty => tx.to = Caller

AmountAsNamed ==
    LET amount == call.req.amount IN
    tx.op \in InTokens =>
        IF amount = Max THEN tx.op = "token_approve" /\ tx.amount[1] = MaxUint256
        ELSE tx.amount[1] * TenTo[amount.places] = amount.n * TenTo[DecimalsOf(call.req)]

\* What a wallet tool moves or allows is worth exactly what the caller named, in the
\* token's own decimals, and it goes to whom he named or stays with him; a bridge that the
\* preview can decode pays whom he named, whatever the exchange answered.
MovesAsNamed ==
    /\ PaysAsNamed
    /\ AmountAsNamed
    /\ tx.op = "revoke_approval" /\ tx.outcome = "done" => chain.allowance[1] = 0
    /\ tx.op = "solana_lifi_swap" /\ tx.outcome = "done" /\ tx.route.bridge # "unknown"
         => tx.to = call.req.to

\* A transaction does what was asked of the tool: a position lies between the prices and
\* takes the amounts that were named, in the caller's order of the tokens; removing a
\* position leaves nothing of it behind; and a wallet tool moves what was named.
AsAsked == MintAsAsked /\ NothingLeftBehind /\ MovesAsNamed
=============================================================================
