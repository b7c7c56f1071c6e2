------------------------------ MODULE Lending -------------------------------
(***************************************************************************)
(* The lending tools, prepare_compound_* and prepare_morpho_*: one call     *)
(* reads the chain at several awaits, decides from what it read, and makes  *)
(* a transaction that the user sends later.  Between the reads, and between *)
(* the last read and the block that executes the transaction, interest      *)
(* accrues and other transactions move the same position.                   *)
(*                                                                         *)
(* A behaviour follows one call and its transaction.  The contracts are     *)
(* external: they are modelled by what the tools rely on.                   *)
(***************************************************************************)
EXTENDS MorphoShares, FiniteSets

CONSTANTS
    Accounts,       \* accounts of the paired wallet, and of others in the market
    Requests,       \* the calls that may be made
    MaxAmount,      \* bound of an amount the caller names, and of initial positions
    MaxOthers,      \* bound of the transactions of others and of interest steps
    Everything,     \* the word max, for an amount
    Malformed,      \* an amount that does not parse
    None

Amounts == 0..MaxAmount

\* An allowance of MAX_UINT256, which no amount reaches.
Unlimited == 100 * (MaxAmount + MaxOthers + 1)

CompoundTools == {"compound_supply", "compound_withdraw", "compound_borrow", "compound_repay"}
MorphoTools == {"morpho_supply", "morpho_withdraw", "morpho_borrow", "morpho_repay",
                "morpho_supply_collateral", "morpho_withdraw_collateral"}

\* asset: the Comet's base asset or the market's loan token, a collateral asset, or
\* a token it does not know.  market: whether the Comet is on the list, or the
\* Morpho market exists and hashes to the id that was given.
Request ==
    [tool     : CompoundTools \cup MorphoTools,
     asset    : {"loan", "collateral", "stray"},
     market   : {"listed", "unlisted"},
     amount   : Amounts \cup {Everything, Malformed},
     from     : Accounts,
     onBehalf : Accounts]

ASSUME LendingAssumption ==
    /\ MaxAmount \in Nat \ {0}
    /\ MaxOthers \in Nat
    /\ IsFiniteSet(Accounts)
    /\ Requests \subseteq Request
    /\ {Everything, Malformed, None} \cap Int = {} /\ Everything # Malformed

VARIABLES
    call,       \* the tool call: its arguments, its pc, and what it has read
    tx,         \* the transaction it made, and what became of it
    comet,      \* Accounts -> base position: supplied when positive, owed when negative
    market,     \* totals of the Morpho market
    position,   \* Accounts -> shares and collateral in it
    allowance,  \* Accounts -> what Morpho may take of the token the tool moves
    moved,      \* accounts whose position changed since the call read one
    spent,      \* accounts whose allowance changed since the call read one
    others      \* transactions of others, and interest steps, so far

chainVars == <<comet, market, position, allowance>>
historyVars == <<moved, spent, others>>
vars == <<call, tx, chainVars, historyVars>>

Call ==
    [req     : Request,
     pc      : {"idle", "asked", "reading", "allowance", "refused", "made"},
     shares  : Nat \cup {None},                             \* of the position, once read
     totals  : [assets : Nat, shares : Nat] \cup {None},    \* of the market, once read
     note    : BOOLEAN]     \* the PRE-FLIGHT NOTE asks for an approval first

\* assets and shares are arguments of the contract's function, of which Morpho's
\* take one or the other.
Tx ==
    [op      : {"none"} \cup CompoundTools \cup MorphoTools,
     assets  : Nat \cup {Everything},
     shares  : Nat,
     outcome : {"none", "allowance", "shares", "reverted",
                "supplied", "repaid", "withdrew", "borrowed"},
     payer   : Accounts \cup {None}]

NoTx == [op |-> "none", assets |-> 0, shares |-> 0, outcome |-> "none", payer |-> None]

Market == [assets : Nat, shares : Nat, owed : Nat, owedShares : Nat]
Position == [shares : Nat, owedShares : Nat, collateral : Nat]

-----------------------------------------------------------------------------
(* What each tool takes                                                     *)

\* parseAmountStrict, and the word max where the tool knows it.
AmountOk(r, max) == r.amount \in Amounts \/ (max /\ r.amount = Everything)

\* Mutant: the amount is not parsed.
SupplyUnparsed(r) == r.market = "listed"

CompoundSupplyAccepts(r) == r.market = "listed" /\ AmountOk(r, FALSE)
CompoundWithdrawAccepts(r) == r.market = "listed" /\ AmountOk(r, TRUE)
CompoundBorrowAccepts(r) == r.market = "listed" /\ AmountOk(r, FALSE)
CompoundRepayAccepts(r) == r.market = "listed" /\ AmountOk(r, TRUE)

\* The asset must be the side of the market that the tool moves.
MorphoMarketOk(r, side) == r.market = "listed" /\ r.asset = side

MorphoSupplyAccepts(r) == MorphoMarketOk(r, "loan") /\ AmountOk(r, FALSE)
MorphoWithdrawAccepts(r) == MorphoMarketOk(r, "loan") /\ AmountOk(r, TRUE)
MorphoBorrowAccepts(r) == MorphoMarketOk(r, "loan") /\ AmountOk(r, FALSE)
MorphoRepayAccepts(r) == MorphoMarketOk(r, "loan") /\ AmountOk(r, TRUE)
MorphoSupplyCollateralAccepts(r) == MorphoMarketOk(r, "collateral") /\ AmountOk(r, FALSE)
MorphoWithdrawCollateralAccepts(r) == MorphoMarketOk(r, "collateral") /\ AmountOk(r, FALSE)

Accepts(r) ==
    CASE r.tool = "compound_supply"    -> CompoundSupplyAccepts(r)
      [] r.tool = "compound_withdraw"  -> CompoundWithdrawAccepts(r)
      [] r.tool = "compound_borrow"    -> CompoundBorrowAccepts(r)
      [] r.tool = "compound_repay"     -> CompoundRepayAccepts(r)
      [] r.tool = "morpho_supply"      -> MorphoSupplyAccepts(r)
      [] r.tool = "morpho_withdraw"    -> MorphoWithdrawAccepts(r)
      [] r.tool = "morpho_borrow"      -> MorphoBorrowAccepts(r)
      [] r.tool = "morpho_repay"       -> MorphoRepayAccepts(r)
      [] r.tool = "morpho_supply_collateral"   -> MorphoSupplyCollateralAccepts(r)
      [] r.tool = "morpho_withdraw_collateral" -> MorphoWithdrawCollateralAccepts(r)

-----------------------------------------------------------------------------
(* Compound: the intent is derived from the position, not from the name     *)

\* Mutant: the debt is not looked at.
IntentIgnoresDebt(a, selector, asset) ==
    CASE selector = "supply" -> "supply-collateral"
      [] selector = "withdraw" /\ asset = "loan" /\ comet[a] <= 0 -> "borrow"
      [] OTHER -> "withdraw-collateral"

\* readBorrowBalance and readBaseBalance are the two sides of one position.
deriveIntent(a, selector, asset) ==
    CASE selector = "supply" ->
            IF asset = "loan" /\ comet[a] < 0 THEN "repay-debt" ELSE "supply-collateral"
      [] selector = "withdraw" ->
            IF asset = "loan" /\ comet[a] <= 0 THEN "borrow" ELSE "withdraw-collateral"

Refuse == call' = [call EXCEPT !.pc = "refused"] /\ UNCHANGED tx

Made(op, assets, shares) ==
    tx' = [NoTx EXCEPT !.op = op, !.assets = assets, !.shares = shares]

\* The call read the position of a; what moved before no longer counts.
Reads(a) == moved' = moved \ {a}

Compound(tool, selector, intent) ==
    LET r == call.req IN
    /\ call.pc = "asked"
    /\ r.tool = tool
    /\ Accepts(r)
    /\ Reads(r.from)
    /\ IF deriveIntent(r.from, selector, r.asset) = intent
       THEN call' = [call EXCEPT !.pc = "made"] /\ Made(tool, r.amount, 0)
       ELSE Refuse
    /\ UNCHANGED <<chainVars, spent, others>>

CompoundSupply   == Compound("compound_supply", "supply", "supply-collateral")
CompoundWithdraw == Compound("compound_withdraw", "withdraw", "withdraw-collateral")
CompoundBorrow   == Compound("compound_borrow", "withdraw", "borrow")
CompoundRepay    == Compound("compound_repay", "supply", "repay-debt")

-----------------------------------------------------------------------------
(* Morpho                                                                   *)

Asked(tool) == call.pc = "asked" /\ call.req.tool = tool /\ Accepts(call.req)

\* The market's parameters and the token's decimals have been read, neither of
\* which changes; the allowance of the account in onBehalf comes next.
MorphoSupply ==
    /\ Asked("morpho_supply")
    /\ call' = [call EXCEPT !.pc = "allowance"]
    /\ Made("morpho_supply", call.req.amount, 0)
    /\ UNCHANGED <<chainVars, historyVars>>

MorphoSupplyCollateral ==
    /\ Asked("morpho_supply_collateral")
    /\ call' = [call EXCEPT !.pc = "allowance"]
    /\ Made("morpho_supply_collateral", call.req.amount, 0)
    /\ UNCHANGED <<chainVars, historyVars>>

\* The collateral gate.
MorphoBorrow ==
    /\ Asked("morpho_borrow")
    /\ Reads(call.req.onBehalf)
    /\ IF position[call.req.onBehalf].collateral = 0
       THEN Refuse
       ELSE call' = [call EXCEPT !.pc = "made"] /\ Made("morpho_borrow", call.req.amount, 0)
    /\ UNCHANGED <<chainVars, spent, others>>

MorphoWithdrawCollateral ==
    /\ Asked("morpho_withdraw_collateral")
    /\ call' = [call EXCEPT !.pc = "made"]
    /\ Made("morpho_withdraw_collateral", call.req.amount, 0)
    /\ UNCHANGED <<chainVars, historyVars>>

\* amount: "max" starts the two reads; another amount is sent as it is.
MorphoWithdraw ==
    /\ Asked("morpho_withdraw")
    /\ IF call.req.amount = Everything
       THEN call' = [call EXCEPT !.pc = "reading"] /\ UNCHANGED tx
       ELSE call' = [call EXCEPT !.pc = "made"] /\ Made("morpho_withdraw", call.req.amount, 0)
    /\ UNCHANGED <<chainVars, historyVars>>

MorphoRepay ==
    /\ Asked("morpho_repay")
    /\ IF call.req.amount = Everything
       THEN call' = [call EXCEPT !.pc = "reading"] /\ UNCHANGED tx
       ELSE call' = [call EXCEPT !.pc = "allowance"] /\ Made("morpho_repay", call.req.amount, 0)
    /\ UNCHANGED <<chainVars, historyVars>>

\* readPosition and readMarket are two requests of one Promise.all: the blocks they
\* are answered from may differ.
ReadPosition ==
    /\ call.pc = "reading"
    /\ call.shares = None
    /\ LET p == position[call.req.onBehalf] IN
       call' = [call EXCEPT !.shares = IF call.req.tool = "morpho_withdraw"
                                       THEN p.shares ELSE p.owedShares]
    /\ Reads(call.req.onBehalf)
    /\ UNCHANGED <<tx, chainVars, spent, others>>

ReadMarket ==
    /\ call.pc = "reading"
    /\ call.totals = None
    /\ call' = [call EXCEPT !.totals =
                    IF call.req.tool = "morpho_withdraw"
                    THEN [assets |-> market.assets, shares |-> market.shares]
                    ELSE [assets |-> market.owed, shares |-> market.owedShares]]
    /\ UNCHANGED <<tx, chainVars, historyVars>>

AnswersRead == call.pc = "reading" /\ call.shares # None /\ call.totals # None

\* Mutant: the amount is rounded up.
WithdrawMaxUp ==
    /\ AnswersRead
    /\ call.req.tool = "morpho_withdraw"
    /\ IF call.shares = 0
       THEN Refuse
       ELSE /\ call' = [call EXCEPT !.pc = "made"]
            /\ Made("morpho_withdraw",
                    toAssetsUp(call.shares, call.totals.assets, call.totals.shares), 0)
    /\ UNCHANGED <<chainVars, historyVars>>

WithdrawMax ==
    /\ AnswersRead
    /\ call.req.tool = "morpho_withdraw"
    /\ IF call.shares = 0
       THEN Refuse
       ELSE /\ call' = [call EXCEPT !.pc = "made"]
            /\ Made("morpho_withdraw",
                    toAssetsDown(call.shares, call.totals.assets, call.totals.shares), 0)
    /\ UNCHANGED <<chainVars, historyVars>>

\* Mutant: the debt is repaid by the assets it is worth now.
RepayMaxAssets ==
    /\ AnswersRead
    /\ call.req.tool = "morpho_repay"
    /\ IF call.shares = 0
       THEN Refuse
       ELSE /\ call' = [call EXCEPT !.pc = "allowance"]
            /\ Made("morpho_repay",
                    toAssetsDown(call.shares, call.totals.assets, call.totals.shares), 0)
    /\ UNCHANGED <<chainVars, historyVars>>

\* By shares: the assets they are worth are computed when it executes.
RepayMax ==
    /\ AnswersRead
    /\ call.req.tool = "morpho_repay"
    /\ IF call.shares = 0
       THEN Refuse
       ELSE call' = [call EXCEPT !.pc = "allowance"] /\ Made("morpho_repay", 0, call.shares)
    /\ UNCHANGED <<chainVars, historyVars>>

\* Mutant: a repayment of everything needs the assets the debt is worth now.
NoteForStaleDebt(allowed) ==
    IF tx.shares > 0
    THEN allowed < toAssetsUp(call.shares, call.totals.assets, call.totals.shares)
    ELSE allowed < tx.assets

\* Repaying by shares takes more than the debt was worth when it was read, so
\* that only an unlimited approval goes without a note.
NeedsNote(allowed) ==
    \/ tx.shares > 0 /\ allowed < Unlimited
    \/ tx.shares = 0 /\ allowed < tx.assets

\* readAllowance, of the account in onBehalf; a failed read shows no note.
ReadAllowance ==
    /\ call.pc = "allowance"
    /\ call' = [call EXCEPT !.pc = "made", !.note = NeedsNote(allowance[call.req.onBehalf])]
    /\ spent' = spent \ {call.req.onBehalf}
    /\ UNCHANGED <<tx, chainVars, moved, others>>

AllowanceUnread ==
    /\ call.pc = "allowance"
    /\ call' = [call EXCEPT !.pc = "made"]
    /\ spent' = Accounts
    /\ UNCHANGED <<tx, chainVars, moved, others>>

\* The arguments are refused, or an RPC read that is not advisory fails.
RefuseCall ==
    /\ call.pc \in {"asked", "reading"}
    /\ Refuse
    /\ UNCHANGED <<chainVars, historyVars>>

-----------------------------------------------------------------------------
(* The contracts, external: what the tools rely on                          *)

\* Accounts act for themselves.
Outcome(o) == tx' = [tx EXCEPT !.outcome = o]
Reverts(o) == Outcome(o) /\ UNCHANGED chainVars

\* A Comet supplies or withdraws; a negative position is a debt.
CometExecutes(p) ==
    LET supplies == tx.op \in {"compound_supply", "compound_repay"}
        owed == IF comet[p] < 0 THEN 0 - comet[p] ELSE 0
        held == IF comet[p] > 0 THEN comet[p] ELSE 0
        amount == IF tx.assets # Everything THEN tx.assets ELSE IF supplies THEN owed ELSE held
        after == IF supplies THEN comet[p] + amount ELSE comet[p] - amount
    IN
    /\ tx.op \in CompoundTools
    /\ IF call.req.asset # "loan"
       THEN Reverts(IF supplies THEN "supplied" ELSE "withdrew")
       ELSE /\ comet' = [comet EXCEPT ![p] = after]
            /\ Outcome(IF supplies THEN IF owed > 0 THEN "repaid" ELSE "supplied"
                                   ELSE IF after < 0 /\ amount > 0 THEN "borrowed" ELSE "withdrew")
            /\ UNCHANGED <<market, position, allowance>>

Spend(p, assets) ==
    allowance' = IF allowance[p] = Unlimited THEN allowance
                 ELSE [allowance EXCEPT ![p] = @ - assets]

\* Morpho takes the tokens from the sender and credits onBehalf, o.
MorphoSupplies(p, o, assets) ==
    LET minted == toSharesDown(assets, market.assets, market.shares) IN
    IF allowance[p] < assets THEN Reverts("allowance")
    ELSE /\ market' = [market EXCEPT !.assets = @ + assets, !.shares = @ + minted]
         /\ position' = [position EXCEPT ![o].shares = @ + minted]
         /\ Spend(p, assets)
         /\ Outcome("supplied")
         /\ UNCHANGED comet

MorphoWithdraws(p, o, assets) ==
    LET burnt == toSharesUp(assets, market.assets, market.shares) IN
    IF p # o THEN Reverts("reverted")
    ELSE IF position[o].shares < burnt THEN Reverts("shares")
    ELSE IF market.assets - assets < market.owed THEN Reverts("reverted")
    ELSE /\ market' = [market EXCEPT !.assets = @ - assets, !.shares = @ - burnt]
         /\ position' = [position EXCEPT ![o].shares = @ - burnt]
         /\ Outcome("withdrew")
         /\ UNCHANGED <<comet, allowance>>

MorphoBorrows(p, o, assets) ==
    LET minted == toSharesUp(assets, market.owed, market.owedShares) IN
    IF p # o \/ position[o].collateral = 0 \/ market.owed + assets > market.assets
    THEN Reverts("reverted")
    ELSE /\ market' = [market EXCEPT !.owed = @ + assets, !.owedShares = @ + minted]
         /\ position' = [position EXCEPT ![o].owedShares = @ + minted]
         /\ Outcome("borrowed")
         /\ UNCHANGED <<comet, allowance>>

\* By assets or by shares; the total owed is not taken below zero.
MorphoRepays(p, o, byAssets, byShares) ==
    LET burnt == IF byShares > 0 THEN byShares
                 ELSE toSharesDown(byAssets, market.owed, market.owedShares)
        assets == IF byShares > 0 THEN toAssetsUp(byShares, market.owed, market.owedShares)
                  ELSE byAssets
    IN
    IF position[o].owedShares < burnt THEN Reverts("shares")
    ELSE IF allowance[p] < assets THEN Reverts("allowance")
    ELSE /\ market' = [market EXCEPT !.owed = IF @ > assets THEN @ - assets ELSE 0,
                                     !.owedShares = @ - burnt]
         /\ position' = [position EXCEPT ![o].owedShares = @ - burnt]
         /\ Spend(p, assets)
         /\ Outcome("repaid")
         /\ UNCHANGED comet

MorphoCollateral(p, o, assets) ==
    IF tx.op = "morpho_supply_collateral"
    THEN IF allowance[p] < assets THEN Reverts("allowance")
         ELSE /\ position' = [position EXCEPT ![o].collateral = @ + assets]
              /\ Spend(p, assets)
              /\ Outcome("supplied")
              /\ UNCHANGED <<comet, market>>
    ELSE IF p # o \/ position[o].collateral < assets \/ position[o].owedShares > 0
         THEN Reverts("reverted")
         ELSE /\ position' = [position EXCEPT ![o].collateral = @ - assets]
              /\ Outcome("withdrew")
              /\ UNCHANGED <<comet, market, allowance>>

MorphoExecutes(p) ==
    LET o == call.req.onBehalf IN
    CASE tx.op = "morpho_supply"   -> MorphoSupplies(p, o, tx.assets)
      [] tx.op = "morpho_withdraw" -> MorphoWithdraws(p, o, tx.assets)
      [] tx.op = "morpho_borrow"   -> MorphoBorrows(p, o, tx.assets)
      [] tx.op = "morpho_repay"    -> MorphoRepays(p, o, tx.assets, tx.shares)
      [] OTHER                     -> MorphoCollateral(p, o, tx.assets)

\* The user sends the transaction and a block includes it; prices, caps and pauses
\* may make it revert all the same.
Execute ==
    /\ call.pc = "made"
    /\ tx.outcome = "none"
    /\ \/ CometExecutes(call.req.from)
       \/ tx.op \in MorphoTools /\ MorphoExecutes(call.req.from)
       \/ Reverts("reverted")
    /\ UNCHANGED <<call, historyVars>>

\* Before the call starts the initial states range over what others may have done;
\* after its outcome nothing is asked of the chain any more.
Meanwhile ==
    /\ call.pc \in {"reading", "allowance", "made"}
    /\ tx.outcome = "none"
    /\ others < MaxOthers
    /\ others' = others + 1

\* Another transaction of the account on the Comet.
OtherComet(a) ==
    /\ Meanwhile
    /\ call.req.tool \in CompoundTools
    /\ \E b \in (-MaxAmount)..MaxAmount : comet' = [comet EXCEPT ![a] = b]
    /\ moved' = moved \cup {a}
    /\ UNCHANGED <<call, tx, market, position, allowance, spent>>

\* A deposit of a in the Morpho market, or one in its name.
OtherSupply(a) ==
    /\ Meanwhile
    /\ call.req.tool \in MorphoTools
    /\ \E assets \in Amounts \ {0} :
         LET minted == toSharesDown(assets, market.assets, market.shares) IN
         /\ market' = [market EXCEPT !.assets = @ + assets, !.shares = @ + minted]
         /\ position' = [position EXCEPT ![a].shares = @ + minted]
    /\ moved' = moved \cup {a}
    /\ UNCHANGED <<call, tx, comet, allowance, spent>>

OtherWithdraw(a) ==
    /\ Meanwhile
    /\ call.req.tool \in MorphoTools
    /\ \E assets \in Amounts \ {0} :
         LET burnt == toSharesUp(assets, market.assets, market.shares) IN
         /\ burnt <= position[a].shares
         /\ burnt <= market.shares          \* the contract's subtraction is checked
         /\ assets + market.owed <= market.assets
         /\ market' = [market EXCEPT !.assets = @ - assets, !.shares = @ - burnt]
         /\ position' = [position EXCEPT ![a].shares = @ - burnt]
    /\ moved' = moved \cup {a}
    /\ UNCHANGED <<call, tx, comet, allowance, spent>>

\* A repayment of one share in the name of a.
OtherRepay(a) ==
    /\ Meanwhile
    /\ call.req.tool \in MorphoTools
    /\ position[a].owedShares > 0
    /\ LET assets == toAssetsUp(1, market.owed, market.owedShares) IN
       market' = [market EXCEPT !.owed = IF @ > assets THEN @ - assets ELSE 0,
                                !.owedShares = @ - 1]
    /\ position' = [position EXCEPT ![a].owedShares = @ - 1]
    /\ moved' = moved \cup {a}
    /\ UNCHANGED <<call, tx, comet, allowance, spent>>

\* Interest: what is owed grows, and with it what is supplied.
Accrue ==
    /\ Meanwhile
    /\ call.req.tool \in MorphoTools
    /\ market.owed > 0
    /\ market' = [market EXCEPT !.owed = @ + 1, !.assets = @ + 1]
    /\ UNCHANGED <<call, tx, comet, position, allowance, moved, spent>>

OtherApproval(a) ==
    /\ Meanwhile
    /\ call.req.tool \in MorphoTools
    /\ \E n \in {0, 1, Unlimited} \ {allowance[a]} : allowance' = [allowance EXCEPT ![a] = n]
    /\ spent' = spent \cup {a}
    /\ UNCHANGED <<call, tx, comet, market, position, moved>>

-----------------------------------------------------------------------------

Asking(r) == [req |-> r, pc |-> "asked", shares |-> None, totals |-> None, note |-> FALSE]

\* A market that rounding and interest can produce: no share is worth less than
\* the first one.
Markets(held, owed) ==
    {m \in [assets : 0..(2 * MaxAmount), shares : {held}, owed : 0..(2 * MaxAmount),
            owedShares : {owed}] :
        /\ m.owed <= m.assets
        /\ (m.assets + 1) * VirtualShares >= m.shares + VirtualShares
        /\ (m.owed + 1) * VirtualShares >= m.owedShares + VirtualShares
        /\ m.owedShares = 0 => m.owed = 0}

Init ==
    \E r \in Requests : \E a \in {r.from, r.onBehalf} :
        /\ call = Asking(r)
        /\ tx = NoTx
        /\ moved = {}
        /\ spent = Accounts
        /\ others = 0
        /\ IF r.tool \in CompoundTools
           THEN /\ \E b \in (-MaxAmount)..MaxAmount :
                     comet = [c \in Accounts |-> IF c = r.from THEN b ELSE 0]
                /\ market = [assets |-> 0, shares |-> 0, owed |-> 0, owedShares |-> 0]
                /\ position = [c \in Accounts |->
                                 [shares |-> 0, owedShares |-> 0, collateral |-> 0]]
                /\ allowance = [c \in Accounts |-> 0]
           ELSE /\ comet = [c \in Accounts |-> 0]
                /\ \E given \in 0..MaxAmount, owed \in 0..MaxAmount, coll \in {0, 1} :
                     /\ position = [c \in Accounts |->
                                      IF c = r.onBehalf
                                      THEN [shares |-> given, owedShares |-> owed,
                                            collateral |-> coll]
                                      ELSE [shares |-> 1, owedShares |-> 0, collateral |-> 0]]
                     /\ market \in Markets(given + Cardinality(Accounts) - 1, owed)
                /\ \E n \in {0, 1, Unlimited} :
                     allowance = [c \in Accounts |-> IF c = a THEN n ELSE Unlimited]

Next ==
    \/ CompoundSupply \/ CompoundWithdraw \/ CompoundBorrow \/ CompoundRepay
    \/ MorphoSupply \/ MorphoWithdraw \/ MorphoBorrow \/ MorphoRepay
    \/ MorphoSupplyCollateral \/ MorphoWithdrawCollateral
    \/ ReadPosition \/ ReadMarket \/ WithdrawMax \/ RepayMax
    \/ ReadAllowance \/ AllowanceUnread
    \/ RefuseCall
    \/ Execute
    \/ \E a \in Accounts :
         OtherComet(a) \/ OtherSupply(a) \/ OtherWithdraw(a) \/ OtherRepay(a) \/ OtherApproval(a)
    \/ Accrue

Spec == Init /\ [][Next]_vars

-----------------------------------------------------------------------------
(* Properties                                                               *)

TypeOK ==
    /\ call \in Call
    /\ tx \in Tx
    /\ comet \in [Accounts -> Int]
    /\ market \in Market
    /\ position \in [Accounts -> Position]
    /\ allowance \in [Accounts -> Nat]
    /\ moved \subseteq Accounts
    /\ spent \subseteq Accounts
    /\ others \in Nat

Untouched(a) == a \notin moved

\* A transaction made under the name of one Compound operation executes as that
\* operation when nobody moved the position since deriveIntent read it: a supply
\* repays no debt, a repayment repays, a borrowing borrows, and taking out everything
\* leaves no debt behind.
IntentIsKept ==
    Untouched(call.req.from) =>
        /\ tx.op = "compound_supply" => tx.outcome # "repaid"
        /\ tx.op = "compound_repay" => tx.outcome # "supplied"
        /\ tx.op = "compound_borrow" /\ tx.assets # 0 => tx.outcome # "withdrew"
        /\ tx.op = "compound_withdraw" /\ tx.assets = Everything => tx.outcome # "borrowed"

\* prepare_morpho_repay with "max" ends the debt, however much interest accrues and
\* whatever others do in the market before it executes.
RepayMaxClears ==
    tx.op = "morpho_repay" /\ call.req.amount = Everything /\ Untouched(call.req.onBehalf) =>
        /\ tx.outcome # "shares"
        /\ tx.outcome = "repaid" => position[call.req.onBehalf].owedShares = 0

\* prepare_morpho_withdraw with "max" never asks for more than the position holds,
\* although its assets were computed from two reads of an earlier market.
WithdrawMaxFits ==
    tx.op = "morpho_withdraw" /\ call.req.amount = Everything /\ Untouched(call.req.onBehalf) =>
        tx.outcome # "shares"

\* Without a PRE-FLIGHT NOTE the approval suffices when the transaction executes,
\* for an account that acts on its own behalf and does not change it meanwhile.
QuietMeansApproved ==
    /\ call.pc = "made"
    /\ ~call.note
    /\ call.req.onBehalf = call.req.from
    /\ call.req.from \notin spent
    => tx.outcome # "allowance"
=============================================================================
