---------------------------- MODULE LendingProofs ----------------------------
(***************************************************************************)
(* Proofs about the tools that prepare a lending transaction, for every     *)
(* number of accounts, every size of a market and of a position, and any    *)
(* number of transactions of others before it executes; about the scans of *)
(* the event log, for every log and every size of a chunk; and about the    *)
(* simulation of a change, for any number of assets and all prices.         *)
(***************************************************************************)
EXTENDS LendingTools, NumberLemmas, TLAPS

-----------------------------------------------------------------------------
(* Arithmetic                                                               *)

\* The price of a share does not fall when it is q0 shares to p0 assets before, and
\* p assets more come in for m shares which they pay in full.
LEMMA PaidInFull ==
    ASSUME NEW p0 \in Nat, NEW q0 \in Nat, NEW p \in Nat, NEW q \in Nat, p > 0,
           NEW a \in Nat, NEW m \in Nat,
           p0 * q <= p * q0, m * p <= a * q
    PROVE  p0 * (q + m) <= (p + a) * q0
<1>1. (p0 * q) * (p + a) <= (p * q0) * (p + a)
  BY Times, Products
<1>2. (m * p) * p0 <= (a * q) * p0
  BY Times, Products
<1>3. (p0 * (q + m)) * p = (p0 * q) * p + (m * p) * p0
  OBVIOUS
<1>4. (p0 * q) * (p + a) = (p0 * q) * p + (a * q) * p0
  OBVIOUS
<1>5. (p * q0) * (p + a) = ((p + a) * q0) * p
  OBVIOUS
<1>6. (p0 * (q + m)) * p <= ((p + a) * q0) * p
  BY <1>1, <1>2, <1>3, <1>4, <1>5, Products
<1> QED BY <1>6, Cancels, Products

\* Nor when a assets go out for m shares that are worth no less.
LEMMA TakenInFull ==
    ASSUME NEW p0 \in Nat, NEW q0 \in Nat, NEW p \in Nat, NEW q \in Nat, p > 0,
           NEW a \in Nat, NEW m \in Nat, a <= p, m <= q,
           p0 * q <= p * q0, a * q <= m * p
    PROVE  p0 * (q - m) <= (p - a) * q0
<1> DEFINE r == p - a
<1>0. r \in Nat /\ p = r + a
  OBVIOUS
<1> HIDE DEF r
<1>1. (p0 * q) * r <= (p * q0) * r
  BY <1>0, Times, Products
<1>2. (a * q) * p0 <= (m * p) * p0
  BY Times, Products
<1>3. (p0 * (q - m)) * p = (p0 * q) * p - (m * p) * p0
  OBVIOUS
<1>4. (p0 * q) * p = (p0 * q) * r + (a * q) * p0
  BY <1>0
<1>5. (p * q0) * r = (r * q0) * p
  BY <1>0
<1>6. (p0 * (q - m)) * p <= (r * q0) * p
  BY <1>0, <1>1, <1>2, <1>3, <1>4, <1>5, Products
<1>7. p0 * (q - m) <= r * q0
  BY <1>0, <1>6, Cancels
<1> QED BY <1>7 DEF r

\* What a deposit mints it has paid for.
LEMMA MintedIsPaid ==
    ASSUME NEW x \in Nat, NEW A \in Nat, NEW S \in Nat
    PROVE  /\ toSharesDown(x, A, S) \in Nat
           /\ toSharesDown(x, A, S) * (A + 1) <= x * (S + VirtualShares)
<1>1. S + VirtualShares \in Nat /\ A + 1 \in Nat /\ A + 1 > 0
  BY SharesAssumption
<1>2. x * (S + VirtualShares) \in Nat
  BY <1>1, Products
<1> QED BY <1>1, <1>2, Floor DEF toSharesDown

\* What a withdrawal burns is worth what it takes.
LEMMA BurntIsWorth ==
    ASSUME NEW x \in Nat, NEW A \in Nat, NEW S \in Nat
    PROVE  /\ toSharesUp(x, A, S) \in Nat
           /\ x * (S + VirtualShares) <= toSharesUp(x, A, S) * (A + 1)
<1>1. S + VirtualShares \in Nat /\ A + 1 \in Nat /\ A + 1 > 0
  BY SharesAssumption
<1>2. PICK n \in Nat : n = x * (S + VirtualShares)
  BY <1>1, Products
<1>3. n + A \in Nat
  BY <1>2
<1>4. /\ (n + A) \div (A + 1) \in Nat
      /\ n + A < ((n + A) \div (A + 1)) * (A + 1) + (A + 1)
  BY <1>1, <1>3, Floor
<1> QED BY <1>2, <1>4 DEF toSharesUp

\* Shares that were worth x in an earlier market still are: their holder can take x out.
LEMMA MaxStillFits ==
    ASSUME NEW s \in Nat, NEW A0 \in Nat, NEW S0 \in Nat, NEW A \in Nat, NEW S \in Nat,
           (A0 + 1) * (S + VirtualShares) <= (A + 1) * (S0 + VirtualShares)
    PROVE  /\ toAssetsDown(s, A0, S0) \in Nat
           /\ toSharesUp(toAssetsDown(s, A0, S0), A, S) <= s
<1> DEFINE q0 == S0 + VirtualShares
           q == S + VirtualShares
           x == (s * (A0 + 1)) \div q0
           b == (x * q + A) \div (A + 1)
<1>1. q0 \in Nat /\ q0 > 0 /\ q \in Nat /\ A0 + 1 \in Nat
  BY SharesAssumption
<1>2. s * (A0 + 1) \in Nat
  BY <1>1, Products
<1> HIDE DEF q0, q
<1>3. x \in Nat /\ x * q0 <= s * (A0 + 1)
  BY <1>1, <1>2, Floor
<1> HIDE DEF x
<1>4. x * q + A \in Nat /\ A + 1 \in Nat /\ A + 1 > 0
  BY <1>1, <1>3, Products
<1>5. b \in Nat /\ b * (A + 1) <= x * q + A
  BY <1>4, Floor
<1> HIDE DEF b
<1>6. (x * q0) * q <= (s * (A0 + 1)) * q
  BY <1>1, <1>2, <1>3, Times, Products
<1>7. ((A0 + 1) * q) * s <= ((A + 1) * q0) * s
  BY <1>1, <1>4, Times, Products DEF q0, q
<1>8. /\ (x * q0) * q = (x * q) * q0
      /\ (s * (A0 + 1)) * q = ((A0 + 1) * q) * s
      /\ ((A + 1) * q0) * s = (s * (A + 1)) * q0
  BY <1>1, <1>3, <1>4
<1>9. (x * q) * q0 <= (s * (A + 1)) * q0
  BY <1>1, <1>3, <1>4, <1>6, <1>7, <1>8, Products
<1>10. x * q <= s * (A + 1)
  BY <1>1, <1>3, <1>4, <1>9, Cancels, Products
<1>11. b * (A + 1) < s * (A + 1) + (A + 1)
  <2>1. PICK u \in Nat : u = b * (A + 1)
    BY <1>4, <1>5, Products
  <2>2. PICK v \in Nat : v = x * q
    BY <1>1, <1>3, Products
  <2>3. PICK w \in Nat : w = s * (A + 1)
    BY <1>4, Products
  <2>4. u <= v + A /\ v <= w
    BY <1>5, <1>10, <2>1, <2>2, <2>3
  <2>5. u < w + (A + 1)
    BY <2>4
  <2> QED BY <2>1, <2>3, <2>5
<1>12. s * (A + 1) + (A + 1) = (s + 1) * (A + 1)
  BY <1>4
<1>13. ~ (s + 1 <= b)
  <2>1. SUFFICES ASSUME s + 1 <= b PROVE FALSE
    OBVIOUS
  <2>2. (s + 1) * (A + 1) <= b * (A + 1)
    BY <1>4, <1>5, <2>1, Times
  <2> QED BY <1>4, <1>5, <1>11, <1>12, <2>2, Products
<1>14. b <= s
  BY <1>5, <1>13
<1> QED BY <1>3, <1>14 DEF b, x, q, q0, toAssetsDown, toSharesUp

\* All the shares of a market are worth at most its assets and one.
LEMMA DebtIsBounded ==
    ASSUME NEW s \in Nat, NEW A \in Nat, NEW S \in Nat, s <= S
    PROVE  toAssetsUp(s, A, S) \in Nat /\ toAssetsUp(s, A, S) <= A + 1
<1> DEFINE q == S + VirtualShares
           n == s * (A + 1)
           w == n + S + VirtualShares - 1
<1>1. q \in Nat /\ q > 0 /\ s <= q
  BY SharesAssumption
<1>2. n \in Nat /\ n <= q * (A + 1)
  BY <1>1, Times, Products
<1>3. w \in Nat /\ w = n + q - 1
  BY <1>2, SharesAssumption
<1> HIDE DEF q, n, w
<1>4. w \div q \in Nat /\ (w \div q) * q <= w
  BY <1>1, <1>3, Floor
<1> DEFINE b == w \div q
<1>5. ~ (A + 2 <= b)
  <2>1. SUFFICES ASSUME A + 2 <= b PROVE FALSE
    OBVIOUS
  <2>2. (A + 2) * q <= b * q
    BY <1>1, <1>4, <2>1, Times
  <2>3. (A + 2) * q = q * (A + 1) + q
    BY <1>1
  <2> QED BY <1>1, <1>2, <1>3, <1>4, <2>2, <2>3, Products
<1>6. b <= A + 1
  BY <1>4, <1>5
<1> QED BY <1>4, <1>6 DEF b, w, n, q, toAssetsUp

-----------------------------------------------------------------------------
(* The invariant                                                            *)

Behalf == call.req.onBehalf

LendingTypes ==
    /\ call \in Call
    /\ call.req \in Requests
    /\ tx \in Tx
    /\ moved \subseteq Accounts
    /\ spent \subseteq Accounts
    /\ others \in 0..MaxOthers

ChainTypes ==
    /\ comet \in [Accounts -> Int]
    /\ market \in Market
    /\ position \in [Accounts -> Position]
    /\ allowance \in [Accounts -> Nat]

\* What is owed in the market is owed by one account, and interest has its bound.
DebtsOK ==
    /\ market.owed <= 2 * MaxAmount + others
    /\ \A a \in Accounts \ {Behalf} : position[a].owedShares = 0
    /\ position[Behalf].owedShares = market.owedShares

\* Compound's operation is the one of the position, unless it moved since it was read.
IntentOK(a) ==
    LET owes == call.req.asset = "loan" /\ comet[a] < 0
        has == call.req.asset # "loan" \/ comet[a] > 0 IN
    /\ tx.op = "compound_supply" => ~owes
    /\ tx.op = "compound_repay" => owes
    /\ tx.op = "compound_borrow" => ~has
    /\ tx.op = "compound_withdraw" => has

\* The shares that were read are still there, unless they were moved.
SharesOK ==
    call.shares # None /\ Untouched(Behalf) =>
        call.shares = IF call.req.tool = "morpho_withdraw"
                      THEN position[Behalf].shares ELSE position[Behalf].owedShares

\* A share is worth no less than by the totals that were read.
PriceOK ==
    call.totals # None /\ call.req.tool = "morpho_withdraw" =>
        (call.totals.assets + 1) * (market.shares + VirtualShares)
            <= (market.assets + 1) * (call.totals.shares + VirtualShares)

\* The tools that take everything know the word.
MaxTools == {"compound_withdraw", "compound_repay", "morpho_withdraw", "morpho_repay"}
MaxReads == {"morpho_withdraw", "morpho_repay"}

\* The transaction asks for what the caller named, or for what the reads came to.
AmountsOK ==
    /\ tx.op = call.req.tool
    /\ call.req.amount # Malformed
    /\ call.req.amount = Everything => call.req.tool \in MaxTools
    /\ ~(call.req.amount = Everything /\ call.req.tool \in MaxReads) =>
          tx.assets = call.req.amount /\ tx.shares = 0
    /\ call.req.amount = Everything /\ call.req.tool \in MaxReads =>
          /\ call.shares \in Nat \ {0}
          /\ call.totals # None
          /\ call.req.tool = "morpho_repay" => tx.assets = 0 /\ tx.shares = call.shares
          /\ call.req.tool = "morpho_withdraw" =>
                /\ tx.shares = 0
                /\ tx.assets = toAssetsDown(call.shares, call.totals.assets, call.totals.shares)

NoteOK ==
    call.pc = "made" /\ ~call.note /\ Behalf \notin spent => ~NeedsNote(allowance[Behalf])

\* A call that has made no transaction, or one that is not executed yet.
Going ==
    /\ ChainTypes /\ DebtsOK /\ SharesOK /\ PriceOK
    /\ call.pc \in {"asked", "reading", "refused"} => tx = NoTx
    /\ call.pc = "asked" => call.shares = None /\ call.totals = None
    /\ call.pc \in {"asked", "reading", "allowance"} => spent = Accounts
    /\ call.pc = "reading" =>
          call.req.amount = Everything /\ call.req.tool \in MaxReads
    /\ call.pc \in {"allowance", "made"} =>
          AmountsOK /\ (Untouched(call.req.from) => IntentOK(call.req.from))
    /\ call.pc = "allowance" => call.req.tool \in MorphoTools
    /\ NoteOK

Kept == IntentIsKept /\ RepayMaxClears /\ WithdrawMaxFits /\ QuietMeansApproved

IInv ==
    \/ call.pc = "idle" /\ tx = NoTx
    \/ /\ LendingTypes /\ call.pc # "idle"
       /\ tx.outcome = "none" => Going
       /\ tx.outcome # "none" => call.pc = "made" /\ Kept

-----------------------------------------------------------------------------
(* Facts about the call                                                     *)

LEMMA ReqFields ==
    ASSUME LendingTypes
    PROVE  /\ call.req \in Request /\ Behalf \in Accounts /\ call.req.from \in Accounts
           /\ call.req.tool \in CompoundTools \cup MorphoTools
           /\ call.req.amount \in Amounts \cup {Everything, Malformed}
           /\ Amounts \subseteq Nat /\ Everything \notin Int
           /\ call.shares \in Nat \cup {None} /\ None \notin Int
           /\ others \in Nat /\ MaxOthers \in Nat /\ MaxAmount \in Nat
<1>1. call.req \in Request
  BY LendingAssumption DEF LendingTypes
<1>2. /\ Behalf \in Accounts /\ call.req.from \in Accounts
      /\ call.req.tool \in CompoundTools \cup MorphoTools
      /\ call.req.amount \in Amounts \cup {Everything, Malformed}
  BY <1>1 DEF Request, Behalf
<1> QED BY <1>1, <1>2, LendingAssumption DEF LendingTypes, Amounts, Call

\* A step of the call that changes only where it is.
LEMMA PcMoves ==
    ASSUME LendingTypes,
           NEW p \in {"reading", "allowance", "made", "refused"},
           call' = [call EXCEPT !.pc = p]
    PROVE  /\ call' \in Call /\ call'.pc = p /\ call'.req = call.req /\ call'.note = call.note
           /\ call'.shares = call.shares /\ call'.totals = call.totals
           /\ Behalf' = Behalf
  BY DEF LendingTypes, Call, Behalf

\* A transaction that is made.
LEMMA TxMade ==
    ASSUME NEW op \in CompoundTools \cup MorphoTools, NEW assets \in Nat \cup {Everything},
           NEW shares \in Nat, Made(op, assets, shares)
    PROVE  /\ tx' \in Tx /\ tx'.outcome = "none"
           /\ tx'.op = op /\ tx'.assets = assets /\ tx'.shares = shares
  BY DEF Made, NoTx, Tx

LEMMA NoneMade == NoTx \in Tx /\ NoTx.outcome = "none"
  BY DEF NoTx, Tx

\* The names of the two protocols differ.
LEMMA OfMorpho ==
    ASSUME NEW o \in MorphoTools
    PROVE  /\ o \notin CompoundTools
           /\ o # "compound_supply" /\ o # "compound_withdraw"
           /\ o # "compound_borrow" /\ o # "compound_repay"
  BY DEF MorphoTools, CompoundTools

LEMMA OfCompound ==
    ASSUME NEW o \in CompoundTools
    PROVE  /\ o \notin MorphoTools /\ o # "morpho_repay" /\ o # "morpho_withdraw"
           /\ o # "morpho_supply" /\ o # "morpho_borrow"
  BY DEF MorphoTools, CompoundTools

\* A step that leaves the chain alone, and gives the call another pc.
LEMMA ToolStep ==
    ASSUME IInv, call.pc \in {"asked", "reading", "allowance"},
           NEW p \in {"reading", "allowance", "made", "refused"},
           call' = [call EXCEPT !.pc = p],
           UNCHANGED <<chainVars, others>>,
           spent' = Accounts,
           moved' = moved \/ (moved' \subseteq Accounts /\ call.shares = None),
           tx' \in Tx, tx'.outcome = "none",
           p \in {"refused", "reading"} => tx' = NoTx,
           p = "reading" => call.req.amount = Everything /\ call.req.tool \in MaxReads,
           p \in {"allowance", "made"} =>
               AmountsOK' /\ (Untouched(call.req.from)' => IntentOK(call.req.from)'),
           p = "allowance" => call.req.tool \in MorphoTools
    PROVE  IInv'
<1>1. LendingTypes /\ Going
  BY DEF IInv
<1>2. /\ call' \in Call /\ call'.pc = p /\ call'.req = call.req /\ call'.note = call.note
      /\ call'.shares = call.shares /\ call'.totals = call.totals
      /\ Behalf' = Behalf
  BY <1>1, PcMoves
<1>3. UNCHANGED <<comet, market, position, allowance>>
  BY DEF chainVars
<1>4. LendingTypes' /\ call'.pc # "idle"
  BY <1>1, <1>2 DEF LendingTypes
<1>5. ChainTypes' /\ DebtsOK'
  BY <1>1, <1>2, <1>3 DEF Going, ChainTypes, DebtsOK
<1>6. SharesOK'
  BY <1>1, <1>2, <1>3 DEF Going, SharesOK, Untouched
<1>7. PriceOK'
  BY <1>1, <1>2, <1>3 DEF Going, PriceOK
<1>8. NoteOK'
  BY <1>1, <1>2, <1>4, ReqFields DEF NoteOK
<1>9. call'.pc = "reading" => call'.req.amount = Everything /\ call'.req.tool \in MaxReads
  BY <1>2
<1>10. call'.pc \in {"allowance", "made"} =>
           AmountsOK' /\ (Untouched(call.req.from)' => IntentOK(call.req.from)')
  BY <1>2
<1>11. Going'
  BY <1>2, <1>5, <1>6, <1>7, <1>8, <1>9, <1>10 DEF Going
<1> QED BY <1>4, <1>11 DEF IInv

\* Refusing makes no transaction.
LEMMA RefusedStep ==
    ASSUME IInv, call.pc \in {"asked", "reading"}, Refuse,
           UNCHANGED <<chainVars, spent, others>>,
           moved' = moved \/ (moved' \subseteq Accounts /\ call.shares = None)
    PROVE  IInv'
<1>1. tx' = NoTx /\ spent' = Accounts /\ call' = [call EXCEPT !.pc = "refused"]
  BY DEF IInv, Going, Refuse
<1>2. tx' \in Tx /\ tx'.outcome = "none"
  BY <1>1, NoneMade
<1> QED BY <1>1, <1>2, ToolStep

-----------------------------------------------------------------------------
(* The steps of the call                                                    *)

LEMMA AcceptedAmounts ==
    ASSUME LendingTypes, Accepts(call.req)
    PROVE  /\ call.req.amount \in Amounts \cup {Everything}
           /\ call.req.amount # Malformed
           /\ call.req.amount = Everything => call.req.tool \in MaxTools
<1> DEFINE r == call.req
<1>1. r.tool \in CompoundTools \cup MorphoTools
  BY ReqFields
<1> HIDE DEF r
<1>2. \E max \in BOOLEAN : AmountOk(r, max) /\ (max => r.tool \in MaxTools)
  BY <1>1 DEF r, Accepts, CompoundSupplyAccepts, CompoundWithdrawAccepts, CompoundBorrowAccepts,
     CompoundRepayAccepts, MorphoMarketOk, MorphoSupplyAccepts, MorphoWithdrawAccepts,
     MorphoBorrowAccepts, MorphoRepayAccepts, MorphoSupplyCollateralAccepts,
     MorphoWithdrawCollateralAccepts, CompoundTools, MorphoTools, MaxTools
<1>3. r.amount \in Amounts \/ (r.amount = Everything /\ r.tool \in MaxTools)
  BY <1>2 DEF AmountOk
<1> QED BY <1>3, LendingAssumption DEF r, Amounts

LEMMA CompoundStep ==
    ASSUME IInv, NEW tool \in CompoundTools, NEW selector \in {"supply", "withdraw"},
           NEW intent \in {"supply-collateral", "withdraw-collateral", "borrow", "repay-debt"},
           Compound(tool, selector, intent),
           \/ tool = "compound_supply" /\ selector = "supply" /\ intent = "supply-collateral"
           \/ tool = "compound_withdraw" /\ selector = "withdraw" /\ intent = "withdraw-collateral"
           \/ tool = "compound_borrow" /\ selector = "withdraw" /\ intent = "borrow"
           \/ tool = "compound_repay" /\ selector = "supply" /\ intent = "repay-debt"
    PROVE  IInv'
<1>1. /\ call.pc = "asked" /\ call.req.tool = tool /\ Accepts(call.req)
      /\ Reads(call.req.from) /\ UNCHANGED <<chainVars, spent, others>>
  BY DEF Compound
<1>2. LendingTypes /\ Going
  BY <1>1 DEF IInv
<1>3. call.shares = None /\ spent = Accounts /\ spent' = Accounts
  BY <1>1, <1>2 DEF Going
<1>4. moved' \subseteq Accounts
  BY <1>1, <1>2 DEF Reads, LendingTypes
<1>5. CASE deriveIntent(call.req.from, selector, call.req.asset) # intent
  <2>1. Refuse
    BY <1>5 DEF Compound
  <2> QED BY <1>1, <1>3, <1>4, <2>1, RefusedStep
<1>6. CASE deriveIntent(call.req.from, selector, call.req.asset) = intent
  <2>1. call' = [call EXCEPT !.pc = "made"] /\ Made(tool, call.req.amount, 0)
    BY <1>6 DEF Compound
  <2>2. /\ call.req.amount \in Nat \cup {Everything} /\ call.req.amount # Malformed
        /\ call.req.amount = Everything => call.req.tool \in MaxTools
    BY <1>1, <1>2, AcceptedAmounts, ReqFields
  <2>3. /\ tx' \in Tx /\ tx'.outcome = "none"
        /\ tx'.op = tool /\ tx'.assets = call.req.amount /\ tx'.shares = 0
    BY <2>1, <2>2, TxMade
  <2>4. call'.req = call.req
    BY <1>2, <2>1, PcMoves
  <2>5. AmountsOK'
    BY <1>1, <2>2, <2>3, <2>4, OfCompound DEF AmountsOK, MaxReads
  <2>6. comet' = comet /\ comet[call.req.from] \in Int
    BY <1>1, <1>2, ReqFields DEF chainVars, Going, ChainTypes
  <2>7. IntentOK(call.req.from)'
    <3> DEFINE b == comet[call.req.from]
               s == call.req.asset
    <3>1. deriveIntent(call.req.from, selector, s) =
            CASE selector = "supply" ->
                   IF s = "loan" /\ b < 0 THEN "repay-debt" ELSE "supply-collateral"
              [] selector = "withdraw" ->
                   IF s = "loan" /\ b <= 0 THEN "borrow" ELSE "withdraw-collateral"
      BY DEF deriveIntent
    <3>2. comet'[call'.req.from] = b /\ call'.req.asset = s /\ b \in Int
      BY <2>4, <2>6
    <3>4. deriveIntent(call.req.from, selector, s) = intent
      BY <1>6
    <3> HIDE DEF b, s
    <3> DEFINE owes == s = "loan" /\ b < 0
               has == s # "loan" \/ b > 0
    <3>3. /\ tool = "compound_supply" => ~owes
          /\ tool = "compound_repay" => owes
          /\ tool = "compound_borrow" => ~has
          /\ tool = "compound_withdraw" => has
      BY <3>1, <3>2, <3>4
    <3> QED BY <2>3, <3>2, <3>3 DEF IntentOK
  <2> QED BY <1>1, <1>3, <1>4, <2>1, <2>3, <2>5, <2>7, ToolStep
<1> QED BY <1>5, <1>6

\* Morpho's tools that make a transaction at once, of what the caller named.
LEMMA MorphoMade ==
    ASSUME IInv, NEW tool \in MorphoTools, NEW p \in {"allowance", "made"}, Asked(tool),
           call' = [call EXCEPT !.pc = p], Made(tool, call.req.amount, 0),
           call.req.amount # Everything,
           UNCHANGED <<chainVars, spent, others>>,
           moved' = moved \/ Reads(Behalf)
    PROVE  IInv'
<1>1. call.pc = "asked" /\ call.req.tool = tool /\ Accepts(call.req)
  BY DEF Asked
<1>2. LendingTypes /\ Going
  BY <1>1 DEF IInv
<1>3. call.shares = None /\ spent' = Accounts
  BY <1>1, <1>2 DEF Going
<1>4. moved' = moved \/ moved' \subseteq Accounts
  BY <1>2 DEF Reads, LendingTypes
<1>5. call.req.amount \in Nat /\ call.req.amount # Malformed
  BY <1>1, <1>2, AcceptedAmounts, ReqFields
<1>6. /\ tx' \in Tx /\ tx'.outcome = "none"
      /\ tx'.op = tool /\ tx'.assets = call.req.amount /\ tx'.shares = 0
  BY <1>5, TxMade
<1>7. call'.req = call.req
  BY <1>2, PcMoves
<1>8. AmountsOK'
  BY <1>1, <1>5, <1>6, <1>7 DEF AmountsOK
<1>9. IntentOK(call.req.from)'
  BY <1>6, OfMorpho DEF IntentOK
<1> QED BY <1>1, <1>3, <1>4, <1>6, <1>8, <1>9, ToolStep

LEMMA MorphoSteps ==
    ASSUME IInv,
           \/ MorphoSupply \/ MorphoWithdraw \/ MorphoBorrow \/ MorphoRepay
           \/ MorphoSupplyCollateral \/ MorphoWithdrawCollateral
    PROVE  IInv'
<1>1. call.pc = "asked" /\ Accepts(call.req)
  BY DEF MorphoSupply, MorphoWithdraw, MorphoBorrow, MorphoRepay, MorphoSupplyCollateral,
     MorphoWithdrawCollateral, Asked
<1>2. LendingTypes /\ Going
  BY <1>1 DEF IInv
<1>3. call.req.amount = Everything => call.req.tool \in MaxTools
  BY <1>1, <1>2, AcceptedAmounts
<1>4. CASE MorphoSupply
  BY <1>3, <1>4, MorphoMade DEF MorphoSupply, MorphoTools, Asked, MaxTools, historyVars
<1>5. CASE MorphoSupplyCollateral
  BY <1>3, <1>5, MorphoMade DEF MorphoSupplyCollateral, MorphoTools, Asked, MaxTools, historyVars
<1>6. CASE MorphoWithdrawCollateral
  BY <1>3, <1>6, MorphoMade DEF MorphoWithdrawCollateral, MorphoTools, Asked, MaxTools, historyVars
<1>7. CASE MorphoBorrow
  <2>1. Asked("morpho_borrow") /\ Reads(Behalf) /\ UNCHANGED <<chainVars, spent, others>>
    BY <1>7 DEF MorphoBorrow, Behalf
  <2>2. CASE Refuse
    <3>1. moved' \subseteq Accounts /\ call.shares = None
      BY <1>1, <1>2, <2>1 DEF Reads, LendingTypes, Going
    <3> QED BY <1>1, <2>1, <2>2, <3>1, RefusedStep
  <2>3. CASE call' = [call EXCEPT !.pc = "made"] /\ Made("morpho_borrow", call.req.amount, 0)
    BY <1>3, <2>1, <2>3, MorphoMade DEF MorphoTools, Asked, MaxTools
  <2> QED BY <1>7, <2>2, <2>3 DEF MorphoBorrow
<1>8. ASSUME NEW tool \in MaxReads, Asked(tool), call.req.amount = Everything,
             call' = [call EXCEPT !.pc = "reading"], UNCHANGED tx,
             UNCHANGED <<chainVars, historyVars>>
      PROVE  IInv'
  <2>1. tx' = NoTx /\ spent' = Accounts /\ moved' = moved
    BY <1>1, <1>2, <1>8 DEF Going, historyVars
  <2>2. call.req.tool \in MaxReads
    BY <1>8 DEF Asked
  <2>3. tx' \in Tx /\ tx'.outcome = "none"
    BY <2>1, NoneMade
  <2> QED BY <1>1, <1>8, <2>1, <2>2, <2>3, ToolStep DEF historyVars
<1>9. CASE MorphoWithdraw
  <2>1. CASE call.req.amount = Everything
    BY <1>8, <1>9, <2>1 DEF MorphoWithdraw, MaxReads
  <2>2. CASE call.req.amount # Everything
    BY <1>9, <2>2, MorphoMade DEF MorphoWithdraw, MorphoTools, historyVars
  <2> QED BY <2>1, <2>2
<1>10. CASE MorphoRepay
  <2>1. CASE call.req.amount = Everything
    BY <1>8, <1>10, <2>1 DEF MorphoRepay, MaxReads
  <2>2. CASE call.req.amount # Everything
    BY <1>10, <2>2, MorphoMade DEF MorphoRepay, MorphoTools, historyVars
  <2> QED BY <2>1, <2>2
<1> QED BY <1>4, <1>5, <1>6, <1>7, <1>9, <1>10

\* The transactions of everything, once both reads have answered.
LEMMA MaxSteps ==
    ASSUME IInv, WithdrawMax \/ RepayMax
    PROVE  IInv'
<1>1. /\ call.pc = "reading" /\ call.shares # None /\ call.totals # None
      /\ UNCHANGED <<chainVars, historyVars>>
  BY DEF WithdrawMax, RepayMax, AnswersRead
<1>2. LendingTypes /\ Going
  BY <1>1 DEF IInv
<1>3. /\ call.req.amount = Everything /\ call.req.tool \in MaxReads /\ spent' = Accounts
      /\ moved' = moved /\ Everything # Malformed /\ call.shares \in Nat
      /\ call.totals \in [assets : Nat, shares : Nat]
  BY <1>1, <1>2, LendingAssumption DEF Going, historyVars, LendingTypes, Call
<1>4. CASE call.shares = 0
  <2>1. Refuse
    BY <1>4 DEF WithdrawMax, RepayMax
  <2> QED BY <1>1, <2>1, RefusedStep DEF historyVars
<1>5. CASE call.shares # 0 /\ WithdrawMax
  <2> DEFINE x == toAssetsDown(call.shares, call.totals.assets, call.totals.shares)
  <2>1. /\ call.req.tool = "morpho_withdraw"
        /\ call' = [call EXCEPT !.pc = "made"] /\ Made("morpho_withdraw", x, 0)
    BY <1>5 DEF WithdrawMax
  <2>2. x \in Nat
    <3>1. /\ call.totals.assets \in Nat /\ call.totals.shares \in Nat
          /\ market.assets \in Nat /\ market.shares \in Nat
      BY <1>2, <1>3 DEF Going, ChainTypes, Market
    <3>2. (call.totals.assets + 1) * (market.shares + VirtualShares)
            <= (market.assets + 1) * (call.totals.shares + VirtualShares)
      BY <1>1, <1>2, <2>1 DEF Going, PriceOK
    <3> QED BY <1>3, <3>1, <3>2, MaxStillFits
  <2>3. tx' \in Tx /\ tx'.outcome = "none" /\ tx'.op = "morpho_withdraw"
        /\ tx'.assets = x /\ tx'.shares = 0
    BY <2>1, <2>2, TxMade DEF MorphoTools
  <2>4. call'.req = call.req /\ call'.shares = call.shares /\ call'.totals = call.totals
    BY <1>2, <2>1, PcMoves
  <2>5. AmountsOK'
    BY <1>1, <1>3, <1>5, <2>1, <2>3, <2>4 DEF AmountsOK, MaxTools
  <2>6. IntentOK(call.req.from)'
    BY <2>3 DEF IntentOK
  <2> QED BY <1>1, <1>3, <2>1, <2>3, <2>5, <2>6, ToolStep DEF historyVars
<1>6. CASE call.shares # 0 /\ RepayMax
  <2>1. /\ call.req.tool = "morpho_repay"
        /\ call' = [call EXCEPT !.pc = "allowance"] /\ Made("morpho_repay", 0, call.shares)
    BY <1>6 DEF RepayMax
  <2>3. tx' \in Tx /\ tx'.outcome = "none" /\ tx'.op = "morpho_repay"
        /\ tx'.assets = 0 /\ tx'.shares = call.shares
    BY <1>3, <2>1, TxMade DEF MorphoTools
  <2>4. call'.req = call.req /\ call'.shares = call.shares /\ call'.totals = call.totals
    BY <1>2, <2>1, PcMoves
  <2>5. AmountsOK'
    BY <1>1, <1>3, <1>6, <2>1, <2>3, <2>4 DEF AmountsOK, MaxTools
  <2>6. IntentOK(call.req.from)'
    BY <2>3 DEF IntentOK
  <2> QED BY <1>1, <1>3, <2>1, <2>3, <2>5, <2>6, ToolStep DEF historyVars, MorphoTools
<1> QED BY <1>4, <1>5, <1>6

LEMMA ReadPositionStep ==
    ASSUME IInv, ReadPosition
    PROVE  IInv'
<1> DEFINE p == position[call.req.onBehalf]
           n == IF call.req.tool = "morpho_withdraw" THEN p.shares ELSE p.owedShares
<1>1. /\ call.pc = "reading" /\ call' = [call EXCEPT !.shares = n] /\ Reads(Behalf)
      /\ UNCHANGED <<tx, chainVars, spent, others>>
  BY DEF ReadPosition, Behalf
<1>2. LendingTypes /\ Going
  BY <1>1 DEF IInv
<1>3. p \in Position
  BY <1>2, ReqFields DEF Going, ChainTypes, Behalf
<1>4. n \in Nat
  BY <1>3 DEF Position
<1>5. /\ call' \in Call /\ call'.pc = "reading" /\ call'.req = call.req
      /\ call'.shares = n /\ call'.totals = call.totals /\ Behalf' = Behalf
  BY <1>1, <1>2, <1>4 DEF LendingTypes, Call, Behalf
<1>6. UNCHANGED <<comet, market, position, allowance>>
  BY <1>1 DEF chainVars
<1>7. LendingTypes' /\ call'.pc # "idle"
  BY <1>1, <1>2, <1>5 DEF LendingTypes, Reads
<1>8. ChainTypes' /\ DebtsOK' /\ PriceOK'
  BY <1>1, <1>2, <1>5, <1>6 DEF Going, ChainTypes, DebtsOK, PriceOK
<1>9. SharesOK'
  BY <1>5, <1>6 DEF SharesOK, Behalf
<1>10. tx' = NoTx /\ spent' = Accounts
  BY <1>1, <1>2 DEF Going
<1>11. Going'
  BY <1>1, <1>2, <1>5, <1>8, <1>9, <1>10 DEF Going, NoteOK
<1> QED BY <1>7, <1>10, <1>11, NoneMade DEF IInv

LEMMA ReadMarketStep ==
    ASSUME IInv, ReadMarket
    PROVE  IInv'
<1> DEFINE t == IF call.req.tool = "morpho_withdraw"
                THEN [assets |-> market.assets, shares |-> market.shares]
                ELSE [assets |-> market.owed, shares |-> market.owedShares]
<1>1. /\ call.pc = "reading" /\ call' = [call EXCEPT !.totals = t]
      /\ UNCHANGED <<tx, chainVars, historyVars>>
  BY DEF ReadMarket
<1>2. LendingTypes /\ Going
  BY <1>1 DEF IInv
<1>3. market \in Market
  BY <1>2 DEF Going, ChainTypes
<1>4. t \in [assets : Nat, shares : Nat]
  BY <1>3 DEF Market
<1>5. /\ call' \in Call /\ call'.pc = "reading" /\ call'.req = call.req
      /\ call'.shares = call.shares /\ call'.totals = t /\ Behalf' = Behalf
  BY <1>1, <1>2, <1>4 DEF LendingTypes, Call, Behalf
<1>6. UNCHANGED <<comet, market, position, allowance, moved, spent, others>>
  BY <1>1 DEF chainVars, historyVars
<1>7. LendingTypes' /\ call'.pc # "idle"
  BY <1>1, <1>2, <1>5, <1>6 DEF LendingTypes
<1>8. ChainTypes' /\ DebtsOK' /\ SharesOK'
  BY <1>1, <1>2, <1>5, <1>6 DEF Going, ChainTypes, DebtsOK, SharesOK, Untouched
<1>9. PriceOK'
  <2>1. SUFFICES ASSUME call.req.tool = "morpho_withdraw"
        PROVE  (t.assets + 1) * (market.shares + VirtualShares)
                 <= (market.assets + 1) * (t.shares + VirtualShares)
    BY <1>5, <1>6 DEF PriceOK
  <2>2. t.assets = market.assets /\ t.shares = market.shares
    BY <2>1
  <2>3. PICK x \in Nat : x = (market.assets + 1) * (market.shares + VirtualShares)
    BY <1>3, SharesAssumption, Products DEF Market
  <2>4. x <= x
    OBVIOUS
  <2> HIDE DEF t
  <2> QED BY <2>2, <2>3, <2>4
<1>10. tx' = NoTx /\ spent' = Accounts
  BY <1>1, <1>2, <1>6 DEF Going
<1>11. Going'
  BY <1>1, <1>2, <1>5, <1>8, <1>9, <1>10 DEF Going, NoteOK
<1> QED BY <1>7, <1>10, <1>11, NoneMade DEF IInv

LEMMA AllowanceSteps ==
    ASSUME IInv, ReadAllowance \/ AllowanceUnread
    PROVE  IInv'
<1>1. /\ call.pc = "allowance" /\ UNCHANGED <<tx, chainVars, moved, others>>
  BY DEF ReadAllowance, AllowanceUnread
<1>2. LendingTypes /\ Going /\ tx.outcome = "none"
  BY <1>1 DEF IInv
<1>3. UNCHANGED <<comet, market, position, allowance>>
  BY <1>1 DEF chainVars
<1>4. \E b \in BOOLEAN :
         /\ call' = [call EXCEPT !.pc = "made", !.note = b]
         /\ \/ b = NeedsNote(allowance[Behalf]) /\ spent' = spent \ {Behalf}
            \/ spent' = Accounts
  <2>1. CASE ReadAllowance
    <3>1. NeedsNote(allowance[Behalf]) \in BOOLEAN
      BY Zenon DEF NeedsNote
    <3>2. /\ call' = [call EXCEPT !.pc = "made", !.note = NeedsNote(allowance[Behalf])]
          /\ spent' = spent \ {Behalf}
      BY <2>1, Zenon DEF ReadAllowance, Behalf
    <3> QED BY <3>1, <3>2, Zenon
  <2>2. CASE AllowanceUnread
    <3>1. call' = [call EXCEPT !.pc = "made", !.note = call.note]
      BY <1>2, <2>2 DEF AllowanceUnread, LendingTypes, Call
    <3> QED BY <1>2, <2>2, <3>1 DEF AllowanceUnread, LendingTypes, Call
  <2> QED BY <2>1, <2>2
<1>5. PICK b \in BOOLEAN :
         /\ call' = [call EXCEPT !.pc = "made", !.note = b]
         /\ \/ b = NeedsNote(allowance[Behalf]) /\ spent' = spent \ {Behalf}
            \/ spent' = Accounts
  BY <1>4
<1>6. /\ call' \in Call /\ call'.pc = "made" /\ call'.req = call.req /\ call'.note = b
      /\ call'.shares = call.shares /\ call'.totals = call.totals /\ Behalf' = Behalf
  BY <1>2, <1>5 DEF LendingTypes, Call, Behalf
<1>7. spent' \subseteq Accounts
  BY <1>2, <1>5 DEF LendingTypes
<1>8. LendingTypes'
  BY <1>1, <1>2, <1>6, <1>7 DEF LendingTypes
<1>9. ChainTypes' /\ DebtsOK' /\ SharesOK' /\ PriceOK'
  BY <1>1, <1>2, <1>3, <1>6 DEF Going, ChainTypes, DebtsOK, SharesOK, PriceOK, Untouched
<1>10. AmountsOK'
  BY <1>1, <1>2, <1>6 DEF Going, AmountsOK
<1>11. Untouched(call.req.from)' => IntentOK(call.req.from)'
  BY <1>1, <1>2, <1>3, <1>6 DEF Going, IntentOK, Untouched
<1>12. NoteOK'
  <2>1. NeedsNote(allowance[Behalf])' = NeedsNote(allowance[Behalf])
    BY <1>1, <1>3, <1>6 DEF NeedsNote
  <2>2. Behalf \in Accounts
    BY <1>2, ReqFields
  <2> QED BY <1>5, <1>6, <2>1, <2>2 DEF NoteOK
<1>13. Going'
  BY <1>6, <1>9, <1>10, <1>11, <1>12 DEF Going
<1> QED BY <1>1, <1>2, <1>6, <1>8, <1>13 DEF IInv

LEMMA RefuseCallStep ==
    ASSUME IInv, RefuseCall
    PROVE  IInv'
  BY RefusedStep DEF RefuseCall, historyVars

-----------------------------------------------------------------------------
(* The steps of others                                                      *)

LEMMA MeanwhileGoing ==
    ASSUME IInv, Meanwhile
    PROVE  /\ LendingTypes /\ Going /\ tx.outcome = "none" /\ call.pc # "idle"
           /\ others' \in 0..MaxOthers /\ others' = others + 1
<1>1. tx.outcome = "none" /\ call.pc # "idle" /\ others < MaxOthers /\ others' = others + 1
  BY DEF Meanwhile
<1>2. LendingTypes /\ Going
  BY <1>1 DEF IInv
<1> QED BY <1>1, <1>2, ReqFields DEF LendingTypes

\* A step of others: what is left to show is about the chain.
LEMMA OtherStep ==
    ASSUME IInv, Meanwhile, UNCHANGED <<call, tx>>,
           moved \subseteq moved', moved' \subseteq Accounts,
           spent \subseteq spent', spent' \subseteq Accounts,
           ChainTypes', DebtsOK', SharesOK', PriceOK',
           call.req.from \notin moved' => IntentOK(call.req.from)',
           Behalf \notin spent' => allowance'[Behalf] = allowance[Behalf]
    PROVE  IInv'
<1>1. /\ LendingTypes /\ Going /\ tx.outcome = "none" /\ call.pc # "idle"
      /\ others' \in 0..MaxOthers
  BY MeanwhileGoing
<1>2. LendingTypes'
  BY <1>1 DEF LendingTypes
<1>3. AmountsOK' <=> AmountsOK
  BY DEF AmountsOK
<1>4. Behalf' = Behalf /\ Behalf \in Accounts
  BY <1>1, ReqFields DEF Behalf
<1>5. NoteOK'
  <2>1. SUFFICES ASSUME call.pc = "made", ~call.note, Behalf \notin spent'
        PROVE  ~NeedsNote(allowance[Behalf])'
    BY <1>4 DEF NoteOK
  <2>2. ~NeedsNote(allowance[Behalf])
    BY <1>1, <2>1 DEF Going, NoteOK
  <2>3. allowance'[Behalf] = allowance[Behalf]
    BY <2>1
  <2> QED BY <1>4, <2>2, <2>3 DEF NeedsNote
<1>6. Untouched(call.req.from)' => IntentOK(call.req.from)'
  BY DEF Untouched
<1>7. call'.pc \in {"asked", "reading", "allowance"} => spent' = Accounts
  BY <1>1 DEF Going
<1>8. Going'
  BY <1>1, <1>3, <1>5, <1>6, <1>7 DEF Going
<1> QED BY <1>1, <1>2, <1>8 DEF IInv

LEMMA OtherCometStep ==
    ASSUME IInv, NEW a \in Accounts, OtherComet(a)
    PROVE  IInv'
<1>1. /\ Meanwhile /\ call.req.tool \in CompoundTools
      /\ moved' = moved \cup {a}
      /\ UNCHANGED <<call, tx, market, position, allowance, spent>>
  BY DEF OtherComet
<1>2. PICK b \in (-MaxAmount)..MaxAmount : comet' = [comet EXCEPT ![a] = b]
  BY DEF OtherComet
<1>3. LendingTypes /\ Going /\ others' = others + 1 /\ others \in Nat
  BY <1>1, MeanwhileGoing, ReqFields
<1>4. /\ call.req.from \in Accounts /\ b \in Int /\ MaxAmount \in Nat
      /\ Behalf \in Accounts /\ Behalf' = Behalf
  BY <1>1, <1>2, <1>3, ReqFields DEF Behalf
<1>5. ChainTypes'
  BY <1>1, <1>2, <1>3, <1>4 DEF Going, ChainTypes
<1>6. DebtsOK'
  BY <1>1, <1>3, <1>4 DEF Going, DebtsOK, ChainTypes, Market
<1>7. SharesOK' /\ PriceOK'
  BY <1>1, <1>3, <1>4 DEF Going, SharesOK, PriceOK, Untouched
<1>8. call.req.from \notin moved' => IntentOK(call.req.from)'
  <2>1. SUFFICES ASSUME call.req.from \notin moved'
        PROVE  IntentOK(call.req.from)'
    OBVIOUS
  <2>2. call.req.from # a /\ Untouched(call.req.from)
    BY <1>1, <2>1 DEF Untouched
  <2>3. call.pc \in {"reading", "allowance", "made"}
    BY <1>1 DEF Meanwhile
  <2>4. comet'[call.req.from] = comet[call.req.from]
    BY <1>2, <1>3, <1>4, <2>2 DEF Going, ChainTypes
  <2>5. CASE call.pc = "reading"
    BY <1>1, <1>3, <2>5 DEF Going, IntentOK, NoTx
  <2>6. CASE call.pc # "reading"
    <3>1. IntentOK(call.req.from)
      BY <1>3, <2>2, <2>3, <2>6 DEF Going
    <3> QED BY <1>1, <2>4, <3>1 DEF IntentOK
  <2> QED BY <2>5, <2>6
<1>9. moved' \subseteq Accounts /\ spent' \subseteq Accounts
  BY <1>1, <1>3 DEF LendingTypes
<1> QED BY <1>1, <1>5, <1>6, <1>7, <1>8, <1>9, OtherStep

\* In a call of a Morpho tool Compound's intents say nothing.
LEMMA MorphoIntent ==
    ASSUME IInv, Meanwhile, call.req.tool \in MorphoTools, UNCHANGED <<call, tx>>
    PROVE  IntentOK(call.req.from)'
<1>1. LendingTypes /\ Going /\ call.pc \in {"reading", "allowance", "made"}
  BY MeanwhileGoing DEF Meanwhile
<1>2. tx.op = "none" \/ tx.op \in MorphoTools
  BY <1>1 DEF Going, AmountsOK, NoTx
<1> QED BY <1>2, OfMorpho DEF IntentOK

LEMMA OtherSupplyStep ==
    ASSUME IInv, NEW a \in Accounts, OtherSupply(a)
    PROVE  IInv'
<1>1. /\ Meanwhile /\ call.req.tool \in MorphoTools
      /\ moved' = moved \cup {a}
      /\ UNCHANGED <<call, tx, comet, allowance, spent>>
  BY DEF OtherSupply
<1>2. PICK x \in Amounts \ {0} :
         /\ market' = [market EXCEPT !.assets = @ + x,
                                     !.shares = @ + toSharesDown(x, market.assets, market.shares)]
         /\ position' = [position EXCEPT ![a].shares =
                                     @ + toSharesDown(x, market.assets, market.shares)]
  BY DEF OtherSupply
<1>3. PICK m : m = toSharesDown(x, market.assets, market.shares)
  OBVIOUS
<1>4. LendingTypes /\ Going /\ others' = others + 1 /\ others \in Nat
  BY <1>1, MeanwhileGoing, ReqFields
<1>5. /\ market \in Market /\ position \in [Accounts -> Position] /\ x \in Nat
      /\ Behalf \in Accounts /\ Behalf' = Behalf /\ MaxAmount \in Nat
  BY <1>1, <1>4, ReqFields DEF Going, ChainTypes, Behalf
<1>6. m \in Nat /\ m * (market.assets + 1) <= x * (market.shares + VirtualShares)
  BY <1>3, <1>5, MintedIsPaid DEF Market
<1>7. /\ market' \in Market /\ market'.assets = market.assets + x
      /\ market'.shares = market.shares + m
      /\ market'.owed = market.owed /\ market'.owedShares = market.owedShares
  <2>1. market' = [market EXCEPT !.assets = @ + x, !.shares = @ + m]
    BY <1>2, <1>3
  <2>2. /\ market.assets + x \in Nat /\ market.shares + m \in Nat
        /\ market.owed \in Nat /\ market.owedShares \in Nat
    BY <1>5, <1>6 DEF Market
  <2>3. PICK u \in Nat : u = market.assets + x
    BY <2>2
  <2>4. PICK v \in Nat : v = market.shares + m
    BY <2>2
  <2>5. market' = [market EXCEPT !.assets = u, !.shares = v]
    BY <2>1, <2>3, <2>4
  <2>6. /\ market' \in Market /\ market'.assets = u /\ market'.shares = v
        /\ market'.owed = market.owed /\ market'.owedShares = market.owedShares
    BY <1>5, <2>2, <2>5 DEF Market
  <2> QED BY <2>3, <2>4, <2>6
<1>8. /\ position' \in [Accounts -> Position]
      /\ \A c \in Accounts : position'[c].owedShares = position[c].owedShares
      /\ \A c \in Accounts : c # a => position'[c] = position[c]
  BY <1>2, <1>3, <1>5, <1>6 DEF Position
<1>9. ChainTypes'
  BY <1>1, <1>4, <1>7, <1>8 DEF Going, ChainTypes
<1>10. DebtsOK'
  BY <1>4, <1>5, <1>7, <1>8 DEF Going, DebtsOK, Market
<1>11. SharesOK'
  <2>1. SUFFICES ASSUME call.shares # None, Behalf \notin moved'
        PROVE  call.shares = IF call.req.tool = "morpho_withdraw"
                             THEN position'[Behalf].shares ELSE position'[Behalf].owedShares
    BY <1>1, <1>5 DEF SharesOK, Untouched
  <2>2. Behalf # a /\ Untouched(Behalf)
    BY <1>1, <2>1 DEF Untouched
  <2>3. position'[Behalf] = position[Behalf]
    BY <1>5, <1>8, <2>2
  <2> QED BY <1>4, <2>1, <2>2, <2>3 DEF Going, SharesOK
<1>12. PriceOK'
  <2>1. SUFFICES ASSUME call.totals # None, call.req.tool = "morpho_withdraw"
        PROVE  (call.totals.assets + 1) * (market'.shares + VirtualShares)
                 <= (market'.assets + 1) * (call.totals.shares + VirtualShares)
    BY <1>1 DEF PriceOK
  <2>2. call.totals \in [assets : Nat, shares : Nat]
    BY <1>4, <2>1 DEF LendingTypes, Call
  <2> DEFINE p0 == call.totals.assets + 1
             q0 == call.totals.shares + VirtualShares
             p == market.assets + 1
             q == market.shares + VirtualShares
  <2>3. p0 \in Nat /\ q0 \in Nat /\ p \in Nat /\ p > 0 /\ q \in Nat
    BY <1>5, <2>2, SharesAssumption DEF Market
  <2>4. p0 * q <= p * q0
    BY <1>4, <2>1 DEF Going, PriceOK
  <2>5. m * p <= x * q
    BY <1>6
  <2>6. market'.assets + 1 = p + x /\ market'.shares + VirtualShares = q + m
    BY <1>5, <1>6, <1>7, SharesAssumption DEF Market
  <2> HIDE DEF p0, q0, p, q
  <2>7. p0 * (q + m) <= (p + x) * q0
    BY <1>5, <1>6, <2>3, <2>4, <2>5, PaidInFull
  <2> QED BY <2>6, <2>7 DEF p0, q0
<1>13. IntentOK(call.req.from)'
  BY <1>1, MorphoIntent
<1>14. moved' \subseteq Accounts /\ spent' \subseteq Accounts
  BY <1>1, <1>4 DEF LendingTypes
<1> QED BY <1>1, <1>9, <1>10, <1>11, <1>12, <1>13, <1>14, OtherStep

LEMMA OtherWithdrawStep ==
    ASSUME IInv, NEW a \in Accounts, OtherWithdraw(a)
    PROVE  IInv'
<1>1. /\ Meanwhile /\ call.req.tool \in MorphoTools
      /\ moved' = moved \cup {a}
      /\ UNCHANGED <<call, tx, comet, allowance, spent>>
  BY DEF OtherWithdraw
<1>2. PICK x \in Amounts \ {0} :
         LET burnt == toSharesUp(x, market.assets, market.shares) IN
         /\ burnt <= position[a].shares
         /\ burnt <= market.shares
         /\ x + market.owed <= market.assets
         /\ market' = [market EXCEPT !.assets = @ - x, !.shares = @ - burnt]
         /\ position' = [position EXCEPT ![a].shares = @ - burnt]
  BY DEF OtherWithdraw
<1>3. PICK m : m = toSharesUp(x, market.assets, market.shares)
  OBVIOUS
<1>4. LendingTypes /\ Going /\ others' = others + 1 /\ others \in Nat
  BY <1>1, MeanwhileGoing, ReqFields
<1>5. /\ market \in Market /\ position \in [Accounts -> Position] /\ x \in Nat
      /\ Behalf \in Accounts /\ Behalf' = Behalf /\ MaxAmount \in Nat
  BY <1>1, <1>4, ReqFields DEF Going, ChainTypes, Behalf
<1>6. m \in Nat /\ x * (market.shares + VirtualShares) <= m * (market.assets + 1)
  BY <1>3, <1>5, BurntIsWorth DEF Market
<1>7. /\ m <= position[a].shares /\ m <= market.shares /\ x <= market.assets
      /\ market' = [market EXCEPT !.assets = @ - x, !.shares = @ - m]
      /\ position' = [position EXCEPT ![a].shares = @ - m]
  BY <1>2, <1>3, <1>5 DEF Market
<1>8. /\ market' \in Market /\ market'.assets = market.assets - x
      /\ market'.shares = market.shares - m
      /\ market'.owed = market.owed /\ market'.owedShares = market.owedShares
  <2>2. /\ market.assets - x \in Nat /\ market.shares - m \in Nat
        /\ market.owed \in Nat /\ market.owedShares \in Nat
    BY <1>5, <1>6, <1>7 DEF Market
  <2>3. PICK u \in Nat : u = market.assets - x
    BY <2>2
  <2>4. PICK v \in Nat : v = market.shares - m
    BY <2>2
  <2>5. market' = [market EXCEPT !.assets = u, !.shares = v]
    BY <1>7, <2>3, <2>4
  <2>6. /\ market' \in Market /\ market'.assets = u /\ market'.shares = v
        /\ market'.owed = market.owed /\ market'.owedShares = market.owedShares
    BY <1>5, <2>2, <2>5 DEF Market
  <2> QED BY <2>3, <2>4, <2>6
<1>9. /\ position' \in [Accounts -> Position]
      /\ \A c \in Accounts : position'[c].owedShares = position[c].owedShares
      /\ \A c \in Accounts : c # a => position'[c] = position[c]
  BY <1>5, <1>6, <1>7 DEF Position
<1>10. ChainTypes'
  BY <1>1, <1>4, <1>8, <1>9 DEF Going, ChainTypes
<1>11. DebtsOK'
  BY <1>4, <1>5, <1>8, <1>9 DEF Going, DebtsOK, Market
<1>12. SharesOK'
  <2>1. SUFFICES ASSUME call.shares # None, Behalf \notin moved'
        PROVE  call.shares = IF call.req.tool = "morpho_withdraw"
                             THEN position'[Behalf].shares ELSE position'[Behalf].owedShares
    BY <1>1, <1>5 DEF SharesOK, Untouched
  <2>2. Behalf # a /\ Untouched(Behalf)
    BY <1>1, <2>1 DEF Untouched
  <2>3. position'[Behalf] = position[Behalf]
    BY <1>5, <1>9, <2>2
  <2> QED BY <1>4, <2>1, <2>2, <2>3 DEF Going, SharesOK
<1>13. PriceOK'
  <2>1. SUFFICES ASSUME call.totals # None, call.req.tool = "morpho_withdraw"
        PROVE  (call.totals.assets + 1) * (market'.shares + VirtualShares)
                 <= (market'.assets + 1) * (call.totals.shares + VirtualShares)
    BY <1>1 DEF PriceOK
  <2>2. call.totals \in [assets : Nat, shares : Nat]
    BY <1>4, <2>1 DEF LendingTypes, Call
  <2> DEFINE p0 == call.totals.assets + 1
             q0 == call.totals.shares + VirtualShares
             p == market.assets + 1
             q == market.shares + VirtualShares
  <2>3. /\ p0 \in Nat /\ q0 \in Nat /\ p \in Nat /\ p > 0 /\ q \in Nat
        /\ x <= p /\ m <= q
    BY <1>5, <1>6, <1>7, <2>2, SharesAssumption DEF Market
  <2>4. p0 * q <= p * q0
    BY <1>4, <2>1 DEF Going, PriceOK
  <2>5. x * q <= m * p
    BY <1>6
  <2>6. market'.assets + 1 = p - x /\ market'.shares + VirtualShares = q - m
    BY <1>5, <1>6, <1>8, SharesAssumption DEF Market
  <2> HIDE DEF p0, q0, p, q
  <2>7. p0 * (q - m) <= (p - x) * q0
    BY <1>5, <1>6, <2>3, <2>4, <2>5, TakenInFull
  <2> QED BY <2>6, <2>7 DEF p0, q0
<1>14. IntentOK(call.req.from)'
  BY <1>1, MorphoIntent
<1>15. moved' \subseteq Accounts /\ spent' \subseteq Accounts
  BY <1>1, <1>4 DEF LendingTypes
<1> QED BY <1>1, <1>10, <1>11, <1>12, <1>13, <1>14, <1>15, OtherStep

LEMMA OtherRepayStep ==
    ASSUME IInv, NEW a \in Accounts, OtherRepay(a)
    PROVE  IInv'
<1>1. /\ Meanwhile /\ call.req.tool \in MorphoTools
      /\ position[a].owedShares > 0
      /\ moved' = moved \cup {a}
      /\ position' = [position EXCEPT ![a].owedShares = @ - 1]
      /\ UNCHANGED <<call, tx, comet, allowance, spent>>
  BY DEF OtherRepay
<1>2. PICK x : x = toAssetsUp(1, market.owed, market.owedShares)
  OBVIOUS
<1>3. market' = [market EXCEPT !.owed = IF @ > x THEN @ - x ELSE 0, !.owedShares = @ - 1]
  BY <1>2 DEF OtherRepay
<1>4. LendingTypes /\ Going /\ others' = others + 1 /\ others \in Nat
  BY <1>1, MeanwhileGoing, ReqFields
<1>5. /\ market \in Market /\ position \in [Accounts -> Position]
      /\ Behalf \in Accounts /\ Behalf' = Behalf /\ MaxAmount \in Nat
  BY <1>1, <1>4, ReqFields DEF Going, ChainTypes, Behalf
<1>6. a = Behalf /\ market.owedShares = position[a].owedShares /\ market.owedShares \in Nat
  BY <1>1, <1>4, <1>5 DEF Going, DebtsOK, Market
<1>7. x \in Nat
  <2>1. market.owed \in Nat /\ market.owedShares \in Nat /\ 1 <= market.owedShares
    BY <1>1, <1>5, <1>6 DEF Market
  <2>2. toAssetsUp(1, market.owed, market.owedShares) \in Nat
    BY <2>1, DebtIsBounded
  <2> QED BY <1>2, <2>2
<1>8. PICK u : u = IF market.owed > x THEN market.owed - x ELSE 0
  OBVIOUS
<1>9. u \in Nat /\ u <= market.owed
  BY <1>5, <1>7, <1>8 DEF Market
<1>10. PICK v : v = market.owedShares - 1
  OBVIOUS
<1>11. v \in Nat
  BY <1>1, <1>6, <1>10
<1>12. market' = [market EXCEPT !.owed = u, !.owedShares = v]
  BY <1>3, <1>8, <1>10
<1>13. /\ market' \in Market /\ market'.owed = u /\ market'.owedShares = v
       /\ market'.assets = market.assets /\ market'.shares = market.shares
  BY <1>5, <1>9, <1>11, <1>12 DEF Market
<1>14. position' = [position EXCEPT ![a].owedShares = v]
  BY <1>1, <1>6, <1>10
<1>15. /\ position' \in [Accounts -> Position] /\ position'[a].owedShares = v
       /\ \A c \in Accounts : c # a => position'[c] = position[c]
  BY <1>5, <1>11, <1>14 DEF Position
<1>16. ChainTypes'
  BY <1>1, <1>4, <1>13, <1>15 DEF Going, ChainTypes
<1>17. DebtsOK'
  <2>1. market'.owed <= 2 * MaxAmount + others'
    BY <1>4, <1>5, <1>9, <1>13 DEF Going, DebtsOK, Market
  <2>2. \A c \in Accounts \ {Behalf} : position'[c].owedShares = 0
    BY <1>4, <1>6, <1>15 DEF Going, DebtsOK
  <2> QED BY <1>5, <1>6, <1>13, <1>15, <2>1, <2>2 DEF DebtsOK
<1>18. SharesOK'
  BY <1>1, <1>5, <1>6 DEF SharesOK, Untouched
<1>19. PriceOK'
  BY <1>1, <1>4, <1>13 DEF Going, PriceOK
<1>20. IntentOK(call.req.from)'
  BY <1>1, MorphoIntent
<1>21. moved' \subseteq Accounts /\ spent' \subseteq Accounts
  BY <1>1, <1>4 DEF LendingTypes
<1> QED BY <1>1, <1>16, <1>17, <1>18, <1>19, <1>20, <1>21, OtherStep

LEMMA AccrueStep ==
    ASSUME IInv, Accrue
    PROVE  IInv'
<1>1. /\ Meanwhile /\ call.req.tool \in MorphoTools
      /\ market' = [market EXCEPT !.owed = @ + 1, !.assets = @ + 1]
      /\ UNCHANGED <<call, tx, comet, position, allowance, moved, spent>>
  BY DEF Accrue
<1>2. LendingTypes /\ Going /\ others' = others + 1 /\ others \in Nat
  BY <1>1, MeanwhileGoing, ReqFields
<1>3. /\ market \in Market /\ Behalf \in Accounts /\ Behalf' = Behalf /\ MaxAmount \in Nat
  BY <1>1, <1>2, ReqFields DEF Going, ChainTypes, Behalf
<1>4. PICK u : u = market.owed + 1
  OBVIOUS
<1>5. PICK v : v = market.assets + 1
  OBVIOUS
<1>6. u \in Nat /\ v \in Nat
  BY <1>3, <1>4, <1>5 DEF Market
<1>7. market' = [market EXCEPT !.owed = u, !.assets = v]
  BY <1>1, <1>4, <1>5
<1>8. /\ market' \in Market /\ market'.owed = u /\ market'.assets = v
      /\ market'.shares = market.shares /\ market'.owedShares = market.owedShares
  BY <1>3, <1>6, <1>7 DEF Market
<1>9. ChainTypes'
  BY <1>1, <1>2, <1>8 DEF Going, ChainTypes
<1>10. DebtsOK'
  BY <1>1, <1>2, <1>3, <1>4, <1>8 DEF Going, DebtsOK, Market
<1>11. SharesOK'
  BY <1>1, <1>2, <1>3 DEF Going, SharesOK, Untouched
<1>12. PriceOK'
  <2>1. SUFFICES ASSUME call.totals # None, call.req.tool = "morpho_withdraw"
        PROVE  (call.totals.assets + 1) * (market'.shares + VirtualShares)
                 <= (market'.assets + 1) * (call.totals.shares + VirtualShares)
    BY <1>1 DEF PriceOK
  <2>2. call.totals \in [assets : Nat, shares : Nat]
    BY <1>2, <2>1 DEF LendingTypes, Call
  <2> DEFINE p0 == call.totals.assets + 1
             q0 == call.totals.shares + VirtualShares
             p == market.assets + 1
             q == market.shares + VirtualShares
  <2>3. p0 \in Nat /\ q0 \in Nat /\ p \in Nat /\ p > 0 /\ q \in Nat
    BY <1>3, <2>2, SharesAssumption DEF Market
  <2>4. p0 * q <= p * q0
    BY <1>2, <2>1 DEF Going, PriceOK
  <2>5. market'.assets + 1 = p + 1 /\ market'.shares + VirtualShares = q
    BY <1>5, <1>8
  <2> HIDE DEF p0, q0, p, q
  <2>6. 0 * p <= 1 * q
    BY <2>3
  <2>7. p0 * (q + 0) <= (p + 1) * q0
    BY <2>3, <2>4, <2>6, PaidInFull
  <2>8. q + 0 = q
    BY <2>3
  <2> QED BY <2>5, <2>7, <2>8 DEF p0, q0
<1>13. IntentOK(call.req.from)'
  BY <1>1, MorphoIntent
<1> QED BY <1>1, <1>2, <1>9, <1>10, <1>11, <1>12, <1>13, OtherStep DEF LendingTypes

LEMMA OtherApprovalStep ==
    ASSUME IInv, NEW a \in Accounts, OtherApproval(a)
    PROVE  IInv'
<1>1. /\ Meanwhile /\ call.req.tool \in MorphoTools
      /\ spent' = spent \cup {a}
      /\ UNCHANGED <<call, tx, comet, market, position, moved>>
  BY DEF OtherApproval
<1>2. PICK n \in {0, 1, Unlimited} : allowance' = [allowance EXCEPT ![a] = n]
  BY DEF OtherApproval
<1>3. LendingTypes /\ Going /\ others' = others + 1 /\ others \in Nat
  BY <1>1, MeanwhileGoing, ReqFields
<1>4. /\ market \in Market /\ Behalf \in Accounts /\ Behalf' = Behalf /\ MaxAmount \in Nat
      /\ MaxOthers \in Nat
  BY <1>1, <1>3, ReqFields DEF Going, ChainTypes, Behalf
<1>5. n \in Nat
  BY <1>2, <1>4 DEF Unlimited
<1>6. ChainTypes'
  BY <1>1, <1>2, <1>3, <1>5 DEF Going, ChainTypes
<1>7. DebtsOK'
  BY <1>1, <1>3, <1>4 DEF Going, DebtsOK, Market
<1>8. SharesOK' /\ PriceOK'
  BY <1>1, <1>3, <1>4 DEF Going, SharesOK, PriceOK, Untouched
<1>9. IntentOK(call.req.from)'
  BY <1>1, MorphoIntent
<1>10. Behalf \notin spent' => allowance'[Behalf] = allowance[Behalf]
  BY <1>1, <1>2, <1>3, <1>4 DEF Going, ChainTypes
<1>11. moved' \subseteq Accounts /\ spent' \subseteq Accounts
  BY <1>1, <1>3 DEF LendingTypes
<1> QED BY <1>1, <1>6, <1>7, <1>8, <1>9, <1>10, <1>11, OtherStep

-----------------------------------------------------------------------------
(* The transaction executes                                                 *)

LEMMA ExecuteGoing ==
    ASSUME IInv, Execute
    PROVE  /\ LendingTypes /\ Going /\ call.pc = "made" /\ AmountsOK
           /\ UNCHANGED <<call, moved, spent, others>>
           /\ Untouched(call.req.from) => IntentOK(call.req.from)
           /\ tx.op = call.req.tool
<1>1. call.pc = "made" /\ tx.outcome = "none" /\ UNCHANGED <<call, moved, spent, others>>
  BY DEF Execute, historyVars
<1>2. LendingTypes /\ Going
  BY <1>1 DEF IInv
<1> QED BY <1>1, <1>2 DEF Going, AmountsOK

Ended == {"allowance", "shares", "reverted", "supplied", "repaid", "withdrew", "borrowed"}

\* What is left of a step that executes the transaction.
LEMMA Executed ==
    ASSUME IInv, Execute, NEW o \in Ended, Outcome(o), Kept'
    PROVE  IInv'
<1>1. LendingTypes /\ call.pc = "made" /\ UNCHANGED <<call, moved, spent, others>>
  BY ExecuteGoing
<1>2. tx' = [tx EXCEPT !.outcome = o] /\ tx \in Tx
  BY <1>1 DEF Outcome, LendingTypes
<1>3. tx' \in Tx /\ tx'.outcome = o /\ o # "none"
  BY <1>2 DEF Tx, Ended
<1>4. LendingTypes'
  BY <1>1, <1>3 DEF LendingTypes
<1> QED BY <1>1, <1>3, <1>4 DEF IInv

\* A transaction that just reverts breaks no promise.
LEMMA RevertedStep ==
    ASSUME IInv, Execute, Outcome("reverted")
    PROVE  IInv'
<1>1. LendingTypes /\ UNCHANGED <<call, moved, spent, others>>
  BY ExecuteGoing
<1>2. tx' = [tx EXCEPT !.outcome = "reverted"] /\ tx \in Tx
  BY <1>1 DEF Outcome, LendingTypes
<1>3. tx'.outcome = "reverted"
  BY <1>2 DEF Tx
<1>4. Kept'
  BY <1>3 DEF Kept, IntentIsKept, RepayMaxClears, WithdrawMaxFits, QuietMeansApproved
<1> QED BY <1>4, Executed DEF Ended

LEMMA CometStep ==
    ASSUME IInv, Execute, CometExecutes(call.req.from)
    PROVE  IInv'
<1> DEFINE p == call.req.from
           b == comet[p]
           supplies == tx.op \in {"compound_supply", "compound_repay"}
           owed == IF b < 0 THEN 0 - b ELSE 0
           given == IF b > 0 THEN b ELSE 0
           amount == IF tx.assets # Everything THEN tx.assets
                     ELSE IF supplies THEN owed ELSE given
           after == IF supplies THEN b + amount ELSE b - amount
           loan == call.req.asset = "loan"
<1>1. /\ LendingTypes /\ Going /\ AmountsOK /\ tx \in Tx
      /\ UNCHANGED <<call, moved, spent, others>>
      /\ Untouched(p) => IntentOK(p)
      /\ tx.op = call.req.tool
  BY ExecuteGoing DEF LendingTypes
<1>2. tx.op \in CompoundTools
  BY DEF CometExecutes
<1>3. b \in Int /\ Everything \notin Int
  BY <1>1, ReqFields DEF Going, ChainTypes
<1>4. /\ tx.assets = call.req.amount
      /\ tx.assets \in Nat \/ tx.assets = Everything
      /\ tx.op \in {"compound_supply", "compound_borrow"} => tx.assets \in Nat
  <2>1. tx.assets = call.req.amount
    BY <1>1, <1>2, OfCompound DEF AmountsOK, MaxReads
  <2>2. call.req.amount \in Nat \/ call.req.amount = Everything
    BY <1>1, ReqFields DEF AmountsOK
  <2>3. call.req.amount = Everything => tx.op \notin {"compound_supply", "compound_borrow"}
    BY <1>1 DEF AmountsOK, MaxTools
  <2> QED BY <2>1, <2>2, <2>3
<1>5. \E o \in Ended :
         /\ Outcome(o)
         /\ o \in {"supplied", "repaid", "withdrew", "borrowed"}
         /\ ~loan => o = IF supplies THEN "supplied" ELSE "withdrew"
         /\ loan => o = IF supplies THEN IF owed > 0 THEN "repaid" ELSE "supplied"
                                   ELSE IF after < 0 /\ amount > 0 THEN "borrowed" ELSE "withdrew"
  <2>1. CASE ~loan
    BY <2>1 DEF CometExecutes, Reverts, Ended
  <2>2. CASE loan
    BY <2>2 DEF CometExecutes, Ended
  <2> QED BY <2>1, <2>2
<1>6. PICK o \in Ended :
         /\ Outcome(o)
         /\ o \in {"supplied", "repaid", "withdrew", "borrowed"}
         /\ ~loan => o = IF supplies THEN "supplied" ELSE "withdrew"
         /\ loan => o = IF supplies THEN IF owed > 0 THEN "repaid" ELSE "supplied"
                                   ELSE IF after < 0 /\ amount > 0 THEN "borrowed" ELSE "withdrew"
  BY <1>5
<1>7. /\ tx'.outcome = o /\ tx'.op = tx.op /\ tx'.assets = tx.assets
  BY <1>1, <1>6 DEF Outcome, Tx
<1>8. IntentIsKept'
  <2>1. SUFFICES ASSUME Untouched(p)
        PROVE  /\ tx.op = "compound_supply" => o # "repaid"
               /\ tx.op = "compound_repay" => o # "supplied"
               /\ tx.op = "compound_borrow" /\ tx.assets # 0 => o # "withdrew"
               /\ tx.op = "compound_withdraw" /\ tx.assets = Everything => o # "borrowed"
    BY <1>1, <1>7 DEF IntentIsKept, Untouched
  <2>2. /\ tx.op = "compound_supply" => ~(loan /\ b < 0)
        /\ tx.op = "compound_repay" => loan /\ b < 0
        /\ tx.op = "compound_borrow" => ~(~loan \/ b > 0)
    BY <1>1, <2>1 DEF IntentOK
  <2>3. CASE tx.op = "compound_supply"
    BY <1>3, <1>6, <2>2, <2>3
  <2>4. CASE tx.op = "compound_repay"
    BY <1>3, <1>6, <2>2, <2>4
  <2>5. CASE tx.op = "compound_borrow"
    BY <1>3, <1>4, <1>6, <2>2, <2>5
  <2>6. CASE tx.op = "compound_withdraw"
    <3>1. ASSUME tx.assets = Everything PROVE ~(after < 0 /\ amount > 0)
      <4>1. ~supplies
        BY <2>6
      <4>2. amount = given
        BY <3>1, <4>1
      <4>3. after = b - given
        BY <4>1, <4>2
      <4>4. given \in Int /\ (given > 0 => given = b)
        BY <1>3
      <4> HIDE DEF b, given, amount, after
      <4> QED BY <1>3, <4>2, <4>3, <4>4
    <3> QED BY <1>6, <2>6, <3>1
  <2> QED BY <1>2, <2>3, <2>4, <2>5, <2>6 DEF CompoundTools
<1>9. RepayMaxClears' /\ WithdrawMaxFits' /\ QuietMeansApproved'
  BY <1>2, <1>6, <1>7, OfCompound DEF RepayMaxClears, WithdrawMaxFits, QuietMeansApproved
<1>10. Kept'
  BY <1>8, <1>9 DEF Kept
<1> QED BY <1>6, <1>10, Executed

\* Whatever a Morpho tool's transaction comes to, it is kept if a maximum is and if
\* no allowance was in its way that the note was quiet about.
LEMMA MorphoKept ==
    ASSUME IInv, Execute, tx.op \in MorphoTools, NEW o \in Ended, Outcome(o),
           o = "shares" => /\ ~(tx.op = "morpho_repay" /\ call.req.amount = Everything
                                  /\ Untouched(Behalf))
                           /\ ~(tx.op = "morpho_withdraw" /\ call.req.amount = Everything
                                  /\ Untouched(Behalf)),
           o = "repaid" /\ tx.op = "morpho_repay" /\ call.req.amount = Everything
               /\ Untouched(Behalf) => position'[Behalf].owedShares = 0,
           o = "allowance" /\ Behalf = call.req.from => NeedsNote(allowance[Behalf])
    PROVE  IInv'
<1>1. /\ LendingTypes /\ Going /\ tx \in Tx /\ call.pc = "made"
      /\ UNCHANGED <<call, moved, spent, others>>
  BY ExecuteGoing DEF LendingTypes
<1>2. tx'.outcome = o /\ tx'.op = tx.op /\ tx'.assets = tx.assets
  BY <1>1 DEF Outcome, Tx
<1>3. IntentIsKept'
  BY <1>2, OfMorpho DEF IntentIsKept
<1>4. RepayMaxClears'
  BY <1>1, <1>2 DEF RepayMaxClears, Untouched, Behalf
<1>5. WithdrawMaxFits'
  BY <1>1, <1>2 DEF WithdrawMaxFits, Untouched, Behalf
<1>6. QuietMeansApproved'
  <2>1. SUFFICES ASSUME ~call.note, call.req.onBehalf = call.req.from,
                        call.req.from \notin spent, o = "allowance"
        PROVE  FALSE
    BY <1>1, <1>2 DEF QuietMeansApproved
  <2>2. ~NeedsNote(allowance[Behalf])
    BY <1>1, <2>1 DEF Going, NoteOK, Behalf
  <2> QED BY <2>1, <2>2 DEF Behalf
<1>7. Kept'
  BY <1>3, <1>4, <1>5, <1>6 DEF Kept
<1> QED BY <1>7, Executed

\* A quiet note means an allowance of what was asked for.
LEMMA NoNoteNeeded ==
    ASSUME LendingTypes, Going, tx.shares = 0, tx.assets \in Nat,
           allowance[call.req.from] < tx.assets, Behalf = call.req.from
    PROVE  NeedsNote(allowance[Behalf])
  BY DEF NeedsNote

LEMMA MorphoStep ==
    ASSUME IInv, Execute, tx.op \in MorphoTools, MorphoExecutes(call.req.from)
    PROVE  IInv'
<1> DEFINE p == call.req.from
<1>1. /\ LendingTypes /\ Going /\ tx \in Tx /\ AmountsOK /\ call.pc = "made"
      /\ UNCHANGED <<call, moved, spent, others>>
      /\ tx.op = call.req.tool
  BY ExecuteGoing DEF LendingTypes
<1>2. /\ market \in Market /\ position \in [Accounts -> Position] /\ Behalf \in Accounts
      /\ position[Behalf] \in Position
  BY <1>1, ReqFields DEF Going, ChainTypes
<1>3. call.req.onBehalf = Behalf
  BY DEF Behalf
<1>4. /\ tx.shares \in Nat
      /\ ~(call.req.amount = Everything /\ tx.op \in MaxReads) =>
             tx.assets = call.req.amount /\ tx.shares = 0 /\ tx.assets \in Nat
  <2>1. tx.shares \in Nat
    BY <1>1 DEF Tx
  <2>2. call.req.amount \in Nat \/ call.req.amount = Everything
    BY <1>1, ReqFields DEF AmountsOK
  <2>3. call.req.amount = Everything => tx.op \in MaxReads
    BY <1>1, OfMorpho DEF AmountsOK, MaxTools, MaxReads
  <2> QED BY <1>1, <2>1, <2>2, <2>3 DEF AmountsOK
<1>5. CASE tx.op = "morpho_supply"
  <2>1. MorphoSupplies(p, Behalf, tx.assets)
    BY <1>3, <1>5 DEF MorphoExecutes
  <2>2. tx.shares = 0 /\ tx.assets \in Nat
    BY <1>4, <1>5 DEF MaxReads
  <2>3. CASE allowance[p] < tx.assets
    <3>1. Outcome("allowance")
      BY <2>1, <2>3 DEF MorphoSupplies, Reverts
    <3> QED BY <1>1, <2>2, <2>3, <3>1, NoNoteNeeded, MorphoKept DEF Ended
  <2>4. CASE ~(allowance[p] < tx.assets)
    <3>1. Outcome("supplied")
      BY <2>1, <2>4 DEF MorphoSupplies
    <3> QED BY <1>1, <3>1, MorphoKept DEF Ended
  <2> QED BY <2>3, <2>4
<1>6. CASE tx.op = "morpho_withdraw"
  <2> DEFINE burnt == toSharesUp(tx.assets, market.assets, market.shares)
  <2>1. MorphoWithdraws(p, Behalf, tx.assets)
    BY <1>3, <1>6 DEF MorphoExecutes
  <2>2. ASSUME position[Behalf].shares < burnt, call.req.amount = Everything, Untouched(Behalf)
        PROVE  FALSE
    <3> DEFINE s == call.shares
               t == call.totals
    <3>1. /\ s \in Nat /\ t # None /\ s # None
          /\ tx.assets = toAssetsDown(s, t.assets, t.shares)
      BY <1>1, <1>6, <2>2, ReqFields DEF AmountsOK, MaxReads
    <3>2. position[Behalf].shares = s
      BY <1>1, <1>6, <2>2, <3>1 DEF Going, SharesOK
    <3>3. t \in [assets : Nat, shares : Nat]
      BY <1>1, <3>1 DEF LendingTypes, Call
    <3>4. (t.assets + 1) * (market.shares + VirtualShares)
             <= (market.assets + 1) * (t.shares + VirtualShares)
      BY <1>1, <1>6, <3>1 DEF Going, PriceOK
    <3>5. t.assets \in Nat /\ t.shares \in Nat /\ market.assets \in Nat /\ market.shares \in Nat
      BY <1>2, <3>3 DEF Market
    <3> HIDE DEF s, t
    <3>6. toSharesUp(toAssetsDown(s, t.assets, t.shares), market.assets, market.shares) <= s
      BY <3>1, <3>4, <3>5, MaxStillFits
    <3>7. toAssetsDown(s, t.assets, t.shares) \in Nat
      BY <3>1, <3>4, <3>5, MaxStillFits
    <3>8. burnt \in Nat
      BY <3>1, <3>5, <3>7, BurntIsWorth
    <3>9. burnt <= s
      BY <3>1, <3>6
    <3> HIDE DEF burnt
    <3> QED BY <2>2, <3>1, <3>2, <3>8, <3>9
  <2>3. CASE p # Behalf
    BY <2>1, <2>3, RevertedStep DEF MorphoWithdraws, Reverts
  <2>4. CASE p = Behalf /\ position[Behalf].shares < burnt
    <3>1. Outcome("shares")
      BY <2>1, <2>4 DEF MorphoWithdraws, Reverts
    <3> QED BY <1>1, <1>6, <2>2, <2>4, <3>1, MorphoKept DEF Ended
  <2>5. CASE p = Behalf /\ ~(position[Behalf].shares < burnt)
    <3>1. Outcome("reverted") \/ Outcome("withdrew")
      BY <2>1, <2>5 DEF MorphoWithdraws, Reverts
    <3> QED BY <3>1, RevertedStep, MorphoKept DEF Ended
  <2> QED BY <2>3, <2>4, <2>5
<1>7. CASE tx.op = "morpho_borrow"
  <2>1. MorphoBorrows(p, Behalf, tx.assets)
    BY <1>3, <1>7 DEF MorphoExecutes
  <2>2. Outcome("reverted") \/ Outcome("borrowed")
    BY <2>1 DEF MorphoBorrows, Reverts
  <2> QED BY <2>2, RevertedStep, MorphoKept DEF Ended
<1>8. CASE tx.op = "morpho_repay"
  <2> DEFINE byShares == tx.shares
             debt == position[Behalf].owedShares
             burnt == IF byShares > 0 THEN byShares
                      ELSE toSharesDown(tx.assets, market.owed, market.owedShares)
             assets == IF byShares > 0 THEN toAssetsUp(byShares, market.owed, market.owedShares)
                       ELSE tx.assets
             all == call.req.amount = Everything
  <2>1. MorphoRepays(p, Behalf, tx.assets, byShares)
    BY <1>3, <1>8 DEF MorphoExecutes
  <2>2. debt \in Nat /\ debt = market.owedShares /\ market.owed \in Nat
    BY <1>1, <1>2 DEF Going, DebtsOK, Market, Position
  <2>3. ASSUME all, Untouched(Behalf) PROVE burnt = debt
    <3>1. byShares = call.shares /\ call.shares \in Nat \ {0}
      BY <1>1, <1>8, <2>3 DEF AmountsOK, MaxReads
    <3>2. call.shares = debt
      BY <1>1, <1>8, <2>3, <3>1, ReqFields DEF Going, SharesOK
    <3> QED BY <3>1, <3>2
  <2>4. CASE debt < burnt
    <3>1. Outcome("shares")
      BY <2>1, <2>4 DEF MorphoRepays, Reverts
    <3>2. ~(all /\ Untouched(Behalf))
      BY <2>2, <2>3, <2>4
    <3> QED BY <1>8, <3>1, <3>2, MorphoKept DEF Ended
  <2>5. CASE ~(debt < burnt) /\ allowance[p] < assets
    <3>1. Outcome("allowance")
      BY <2>1, <2>5 DEF MorphoRepays, Reverts
    <3>2. ASSUME Behalf = p PROVE NeedsNote(allowance[Behalf])
      <4>1. CASE byShares > 0
        <5>1. byShares \in Nat /\ byShares <= market.owedShares /\ market.owedShares \in Nat
          BY <1>4, <2>2, <2>5, <4>1
        <5>2. assets \in Nat /\ assets <= market.owed + 1
          BY <2>2, <4>1, <5>1, DebtIsBounded
        <5>3. /\ market.owed <= 2 * MaxAmount + others /\ others <= MaxOthers
              /\ MaxAmount \in Nat /\ MaxOthers \in Nat /\ others \in Nat
          BY <1>1, ReqFields DEF Going, DebtsOK, LendingTypes
        <5>4. allowance[Behalf] \in Nat
          BY <1>1, <1>2 DEF Going, ChainTypes
        <5> HIDE DEF assets
        <5>5. allowance[Behalf] < Unlimited
          BY <2>2, <2>5, <3>2, <5>2, <5>3, <5>4 DEF Unlimited
        <5> QED BY <4>1, <5>5 DEF NeedsNote
      <4>2. CASE ~(byShares > 0)
        BY <1>4, <2>5, <3>2, <4>2 DEF NeedsNote
      <4> QED BY <4>1, <4>2
    <3> QED BY <3>1, <3>2, MorphoKept DEF Ended
  <2>6. CASE ~(debt < burnt) /\ ~(allowance[p] < assets)
    <3>1. /\ Outcome("repaid")
          /\ position' = [position EXCEPT ![Behalf].owedShares = @ - burnt]
      BY <2>1, <2>6 DEF MorphoRepays
    <3>2. ASSUME all, Untouched(Behalf) PROVE position'[Behalf].owedShares = 0
      <4>1. burnt = debt
        BY <2>3, <3>2
      <4>2. position'[Behalf].owedShares = debt - burnt
        BY <1>2, <3>1 DEF Position
      <4> HIDE DEF debt, burnt
      <4> QED BY <2>2, <4>1, <4>2
    <3> QED BY <1>1, <3>1, <3>2, MorphoKept DEF Ended
  <2> QED BY <2>4, <2>5, <2>6
<1>9. CASE tx.op \in {"morpho_supply_collateral", "morpho_withdraw_collateral"}
  <2>1. MorphoCollateral(p, Behalf, tx.assets)
    BY <1>3, <1>9 DEF MorphoExecutes
  <2>2. tx.shares = 0 /\ tx.assets \in Nat
    BY <1>4, <1>9 DEF MaxReads
  <2>3. \/ Outcome("allowance") /\ allowance[p] < tx.assets
        \/ Outcome("supplied") \/ Outcome("reverted") \/ Outcome("withdrew")
    BY <2>1 DEF MorphoCollateral, Reverts
  <2>4. CASE Outcome("allowance") /\ allowance[p] < tx.assets
    BY <1>1, <2>2, <2>4, NoNoteNeeded, MorphoKept DEF Ended
  <2>5. CASE Outcome("supplied") \/ Outcome("reverted") \/ Outcome("withdrew")
    BY <1>9, <2>5, RevertedStep, MorphoKept DEF Ended
  <2> QED BY <2>3, <2>4, <2>5
<1> QED BY <1>5, <1>6, <1>7, <1>8, <1>9 DEF MorphoTools

LEMMA ExecuteStep ==
    ASSUME IInv, Execute
    PROVE  IInv'
<1>1. CASE CometExecutes(call.req.from)
  BY <1>1, CometStep
<1>2. CASE tx.op \in MorphoTools /\ MorphoExecutes(call.req.from)
  BY <1>2, MorphoStep
<1>3. CASE Reverts("reverted")
  BY <1>3, RevertedStep DEF Reverts
<1> QED BY <1>1, <1>2, <1>3 DEF Execute

LEMMA NextStep ==
    ASSUME IInv, Next
    PROVE  IInv'
<1>1. CASE CompoundSupply
  BY <1>1, CompoundStep DEF CompoundSupply, CompoundTools
<1>2. CASE CompoundWithdraw
  BY <1>2, CompoundStep DEF CompoundWithdraw, CompoundTools
<1>3. CASE CompoundBorrow
  BY <1>3, CompoundStep DEF CompoundBorrow, CompoundTools
<1>4. CASE CompoundRepay
  BY <1>4, CompoundStep DEF CompoundRepay, CompoundTools
<1>5. CASE \/ MorphoSupply \/ MorphoWithdraw \/ MorphoBorrow \/ MorphoRepay
           \/ MorphoSupplyCollateral \/ MorphoWithdrawCollateral
  BY <1>5, MorphoSteps
<1>6. CASE ReadPosition \/ ReadMarket \/ WithdrawMax \/ RepayMax \/ RefuseCall
  BY <1>6, ReadPositionStep, ReadMarketStep, MaxSteps, RefuseCallStep
<1>7. CASE ReadAllowance \/ AllowanceUnread \/ Execute
  BY <1>7, AllowanceSteps, ExecuteStep
<1>8. ASSUME NEW a \in Accounts,
             OtherComet(a) \/ OtherSupply(a) \/ OtherWithdraw(a) \/ OtherRepay(a)
                \/ OtherApproval(a)
      PROVE  IInv'
  BY <1>8, OtherCometStep, OtherSupplyStep, OtherWithdrawStep, OtherRepayStep, OtherApprovalStep
<1>9. CASE Accrue
  BY <1>9, AccrueStep
<1> QED BY <1>1, <1>2, <1>3, <1>4, <1>5, <1>6, <1>7, <1>8, <1>9 DEF Next

-----------------------------------------------------------------------------
(* The initial states, and the theorems                                     *)

LEMMA InitHolds == Init => IInv
<1> SUFFICES ASSUME Init PROVE IInv
  OBVIOUS
<1>1. PICK r \in Requests : \E a \in {r.from, r.onBehalf} :
        /\ call = Asking(r)
        /\ tx = NoTx
        /\ moved = {}
        /\ spent = Accounts
        /\ others = 0
        /\ IF r.tool \in CompoundTools
           THEN /\ \E b \in (-MaxAmount)..MaxAmount :
                     comet = [c \in Accounts |-> IF c = r.from THEN b ELSE 0]
                /\ market = [assets |-> 0, shares |-> 0, owed |-> 0, owedShares |-> 0]
                /\ position = [c \in Accounts |->
                                 [shares |-> 0, owedShares |-> 0, collateral |-> 0]]
                /\ allowance = [c \in Accounts |-> 0]
           ELSE /\ comet = [c \in Accounts |-> 0]
                /\ \E given \in 0..MaxAmount, owed \in 0..MaxAmount, coll \in {0, 1} :
                     /\ position = [c \in Accounts |->
                                      IF c = r.onBehalf
                                      THEN [shares |-> given, owedShares |-> owed,
                                            collateral |-> coll]
                                      ELSE [shares |-> 1, owedShares |-> 0, collateral |-> 0]]
                     /\ market \in Markets(given + Cardinality(Accounts) - 1, owed)
                /\ \E n \in {0, 1, Unlimited} :
                     allowance = [c \in Accounts |-> IF c = a THEN n ELSE Unlimited]
  BY DEF Init
<1>2. r \in Request /\ MaxAmount \in Nat /\ MaxOthers \in Nat /\ Unlimited \in Nat
  BY LendingAssumption DEF Unlimited
<1>3. /\ call \in Call /\ call.req = r /\ call.pc = "asked" /\ call.shares = None
      /\ call.totals = None /\ Behalf = r.onBehalf /\ Behalf \in Accounts
  BY <1>1, <1>2 DEF Asking, Call, Behalf, Request
<1>4. LendingTypes
  BY <1>1, <1>2, <1>3, NoneMade DEF LendingTypes
<1>5. Cardinality(Accounts) - 1 \in Nat
  BY <1>3, LendingAssumption, FS_CardinalityType, FS_EmptySet
<1>6. ChainTypes /\ DebtsOK
  <2>1. CASE r.tool \in CompoundTools
    <3>1. PICK b \in (-MaxAmount)..MaxAmount :
             comet = [c \in Accounts |-> IF c = r.from THEN b ELSE 0]
      BY <1>1, <2>1
    <3>2. /\ market = [assets |-> 0, shares |-> 0, owed |-> 0, owedShares |-> 0]
          /\ position = [c \in Accounts |-> [shares |-> 0, owedShares |-> 0, collateral |-> 0]]
          /\ allowance = [c \in Accounts |-> 0]
      BY <1>1, <2>1
    <3>3. ChainTypes
      BY <1>2, <3>1, <3>2 DEF ChainTypes, Market, Position
    <3>4. market.owed = 0 /\ market.owedShares = 0
          /\ \A c \in Accounts : position[c].owedShares = 0
      BY <3>2
    <3>5. DebtsOK
      BY <1>1, <1>2, <1>3, <3>4 DEF DebtsOK
    <3> QED BY <3>3, <3>5
  <2>2. CASE r.tool \notin CompoundTools
    <3>1. comet = [c \in Accounts |-> 0]
      BY <1>1, <2>2
    <3>2. PICK given \in 0..MaxAmount, owed \in 0..MaxAmount, coll \in {0, 1} :
             /\ position = [c \in Accounts |->
                              IF c = r.onBehalf
                              THEN [shares |-> given, owedShares |-> owed, collateral |-> coll]
                              ELSE [shares |-> 1, owedShares |-> 0, collateral |-> 0]]
             /\ market \in Markets(given + Cardinality(Accounts) - 1, owed)
      BY <1>1, <2>2
    <3>3. PICK a \in {r.from, r.onBehalf}, n \in {0, 1, Unlimited} :
             allowance = [c \in Accounts |-> IF c = a THEN n ELSE Unlimited]
      BY <1>1, <2>2
    <3>4. PICK h \in Nat : h = given + Cardinality(Accounts) - 1
      BY <1>2, <1>5
    <3>5. /\ market \in [assets : 0..(2 * MaxAmount), shares : {h}, owed : 0..(2 * MaxAmount),
                          owedShares : {owed}]
      BY <3>2, <3>4 DEF Markets
    <3>6. /\ market \in Market /\ market.owed <= 2 * MaxAmount /\ market.owedShares = owed
      BY <1>2, <3>5 DEF Market
    <3>7. position \in [Accounts -> Position]
      BY <1>2, <3>2 DEF Position
    <3>8. ChainTypes
      BY <1>2, <3>1, <3>3, <3>6, <3>7 DEF ChainTypes
    <3>9. /\ position[Behalf].owedShares = owed
          /\ \A c \in Accounts \ {Behalf} : position[c].owedShares = 0
      BY <1>3, <3>2
    <3>10. DebtsOK
      BY <1>1, <1>2, <3>6, <3>9 DEF DebtsOK, Market
    <3> QED BY <3>8, <3>10
  <2> QED BY <2>1, <2>2
<1>7. SharesOK /\ PriceOK /\ NoteOK
  BY <1>3 DEF SharesOK, PriceOK, NoteOK
<1>8. Going
  BY <1>1, <1>3, <1>6, <1>7 DEF Going
<1> QED BY <1>1, <1>3, <1>4, <1>8, NoneMade DEF IInv

\* What is known of a call of a lending tool, of the chain while it runs, and of its
\* transaction, in every reachable state: the invariant that the four below rest on.
THEOREM LendingInvariance == LendingToolsSpec => []IInv
<1>1. LendingToolsInit => IInv
  <2>1. ASSUME Rests PROVE IInv
    <3>1. tx = NoTx /\ call.pc = "idle"
      BY <2>1 DEF Rests, Asking
    <3> QED BY <3>1 DEF IInv
  <2> QED BY <2>1, InitHolds DEF LendingToolsInit
<1>2. IInv /\ [LendingToolsNext]_<<vars, scanVars, simVars>> => IInv'
  <2> SUFFICES ASSUME IInv, [LendingToolsNext]_<<vars, scanVars, simVars>> PROVE IInv'
    OBVIOUS
  <2>1. CASE Next
    BY <2>1, NextStep
  <2>2. CASE UNCHANGED vars
    <3>1. UNCHANGED <<call, tx, comet, market, position, allowance, moved, spent, others>>
      BY <2>2 DEF vars, chainVars, historyVars
    <3>2. LendingTypes' <=> LendingTypes
      BY <3>1 DEF LendingTypes
    <3>3. Behalf' = Behalf
      BY <3>1 DEF Behalf
    <3>4. (ChainTypes' <=> ChainTypes) /\ (DebtsOK' <=> DebtsOK)
      BY <3>1, <3>3 DEF ChainTypes, DebtsOK
    <3>5. (SharesOK' <=> SharesOK) /\ (PriceOK' <=> PriceOK) /\ (AmountsOK' <=> AmountsOK)
      BY <3>1, <3>3 DEF SharesOK, PriceOK, AmountsOK, Untouched
    <3>6. NoteOK' <=> NoteOK
      BY <3>1, <3>3 DEF NoteOK, NeedsNote
    <3>7. IntentOK(call.req.from)' <=> IntentOK(call.req.from)
      BY <3>1 DEF IntentOK
    <3>8. Untouched(call.req.from)' <=> Untouched(call.req.from)
      BY <3>1 DEF Untouched
    <3>9. Going' <=> Going
      BY <3>1, <3>4, <3>5, <3>6, <3>7, <3>8 DEF Going
    <3>10. Kept' <=> Kept
      BY <3>1 DEF Kept, IntentIsKept, RepayMaxClears, WithdrawMaxFits, QuietMeansApproved,
         Untouched
    <3> QED BY <3>1, <3>2, <3>9, <3>10 DEF IInv
  <2> QED BY <2>1, <2>2 DEF LendingToolsNext
<1> QED BY <1>1, <1>2, PTL DEF LendingToolsSpec

LEMMA InvKeeps == IInv => Kept
<1>1. ASSUME tx.outcome = "none" PROVE Kept
  BY <1>1 DEF Kept, IntentIsKept, RepayMaxClears, WithdrawMaxFits, QuietMeansApproved
<1> QED BY <1>1, NoneMade DEF IInv

\* A Compound transaction executes as the operation it was prepared for, if nobody moved
\* the position since deriveIntent read it.
THEOREM IntentsAreKept == LendingToolsSpec => []IntentIsKept
<1>1. IInv => IntentIsKept
  BY InvKeeps DEF Kept
<1> QED BY <1>1, LendingInvariance, PTL

\* Repaying "max" on Morpho ends the debt, however interest accrues.
THEOREM RepayingMaxClears == LendingToolsSpec => []RepayMaxClears
<1>1. IInv => RepayMaxClears
  BY InvKeeps DEF Kept
<1> QED BY <1>1, LendingInvariance, PTL

\* Withdrawing "max" never asks for more shares than there are: what the deposits, the
\* withdrawals and the interest of others do to a share, it is worth no less than before.
THEOREM WithdrawingMaxFits == LendingToolsSpec => []WithdrawMaxFits
<1>1. IInv => WithdrawMaxFits
  BY InvKeeps DEF Kept
<1> QED BY <1>1, LendingInvariance, PTL

\* A receipt without a note about the approval has one that suffices.
THEOREM QuietReceiptsAreApproved == LendingToolsSpec => []QuietMeansApproved
<1>1. IInv => QuietMeansApproved
  BY InvKeeps DEF Kept
<1> QED BY <1>1, LendingInvariance, PTL

-----------------------------------------------------------------------------
(* The scans of the event log                                               *)

\* The blocks that a call is to read, once it knows the head.
WindowOK ==
    /\ scan.from = fromBlock(scan.req.lookback, scan.to)
    /\ scan.asked <= scan.to /\ scan.to <= head
    /\ scan.from <= scan.cursor

\* Every event of the blocks behind the cursor has been found.
ChunksOK ==
    \A b \in scan.from..scan.to : b < scan.cursor => log[b] \subseteq scan.found

Named(i) == \E b \in scan.from..scan.to : i \in log[b]

\* An item that was named is to be read, failed, or has been read: then it is as it was.
RowOK(i) ==
    /\ scan.rows[i] > 0 /\ i \notin stale => scan.rows[i] = held[i]
    /\ Named(i) =>
          \/ i \in scan.found
          \/ /\ ScanAsks(ScanMorphoTools)
             /\ i \in stale \/ (held[i] = 0 /\ scan.rows[i] = 0)

ScanInv ==
    /\ ScanTypeOK
    /\ scan.pc = "asked" => scan.asked <= head
    /\ scan.pc \in {"scanning", "reading"} => WindowOK /\ ~scan.scanFailed
    /\ scan.pc \in {"asked", "scanning"} =>
          scan.rows = [i \in Items |-> 0] /\ scan.failed = {} /\ ~scan.scanFailed
    /\ scan.pc = "scanning" => ChunksOK
    /\ scan.pc = "reading" => \A i \in Items : RowOK(i)
    /\ NothingHidden

-----------------------------------------------------------------------------
(* Facts about the operators                                                *)

\* A chunk ends no earlier than it starts, and within the window.
LEMMA ChunkEnds ==
    ASSUME scan \in Scan, scan.cursor <= scan.to
    PROVE  /\ ChunkTo \in scan.cursor..scan.to
           /\ NextChunk \in Nat /\ scan.cursor < NextChunk
<1> USE ScanAssumption
<1>1. scan.cursor \in Nat /\ scan.to \in Nat
  BY DEF Scan
<1> DEFINE far == scan.cursor + ChunkBlocks - 1
<1>2. far \in Nat /\ far >= scan.cursor
  BY <1>1
<1>3. ChunkTo = scan.to \/ (ChunkTo = far /\ far <= scan.to)
  BY <1>1, <1>2 DEF ChunkTo
<1> HIDE DEF far
<1>4. ChunkTo \in scan.cursor..scan.to
  BY <1>1, <1>2, <1>3
<1> QED BY <1>1, <1>4 DEF NextChunk

\* What a call was asked, and what its answer must show, is fixed once it is answered.
LEMMA InWindowNamed ==
    ASSUME scan \in Scan, WindowOK, head \in 0..MaxBlock, NEW i \in Items, InWindow(i)
    PROVE  Named(i)
<1>1. /\ scan.asked \in Nat /\ scan.to \in Nat /\ scan.req.lookback \in Nat
      /\ scan.req \in ScanRequest
  BY DEF Scan, ScanRequest
<1>2. PICK b \in 0..scan.asked : b + scan.req.lookback >= scan.to /\ i \in log[b]
  BY DEF InWindow
<1>3. b \in scan.from..scan.to
  <2>1. b <= scan.to /\ b \in Nat
    BY <1>1, <1>2 DEF WindowOK
  <2>2. scan.from <= b
    BY <1>1, <1>2, <2>1 DEF WindowOK, fromBlock
  <2>3. scan.from \in Nat
    BY DEF Scan
  <2> QED BY <1>1, <2>1, <2>2, <2>3
<1> QED BY <1>2, <1>3 DEF Named

-----------------------------------------------------------------------------
(* The steps                                                                *)

LEMMA Starts == ScanInit => ScanInv
<1> SUFFICES ASSUME ScanInit PROVE ScanInv
  OBVIOUS
<1> USE ScanAssumption
<1>1. PICK r \in ScanRequests : scan = ScanAsked(r, head)
  BY DEF ScanInit
<1>2. /\ scan.pc = "asked" /\ scan.asked = head
      /\ scan.rows = [i \in Items |-> 0] /\ scan.failed = {} /\ scan.scanFailed = FALSE
  BY <1>1 DEF ScanAsked
<1>3. head \in 0..MaxBlock /\ head \in Nat
  BY DEF ScanInit
<1>4. scan \in Scan
  BY <1>1, <1>3 DEF ScanAsked, Scan
<1>5. log \in [0..MaxBlock -> SUBSET Items]
  BY DEF ScanInit
<1>6. ScanTypeOK
  BY <1>3, <1>4, <1>5 DEF ScanTypeOK, ScanInit
<1> QED BY <1>2, <1>3, <1>6 DEF ScanInv, NothingHidden

LEMMA ReadHeadKeeps == ScanInv /\ ReadHead => ScanInv'
<1> SUFFICES ASSUME ScanInv, ReadHead PROVE ScanInv'
  OBVIOUS
<1> DEFINE from == fromBlock(scan.req.lookback, head)
<1>1. scan \in Scan /\ head \in Nat /\ scan.req \in ScanRequest /\ scan.asked \in Nat
  BY ScanAssumption DEF ScanInv, ScanTypeOK, Scan
<1>2. scan.req.lookback \in Nat
  BY <1>1 DEF ScanRequest
<1>3. from \in 0..head /\ from \in Nat
  BY <1>1, <1>2 DEF fromBlock
<1>4. scan' = [scan EXCEPT !.pc = "scanning", !.from = from, !.to = head, !.cursor = from]
  BY DEF ReadHead
<1> HIDE DEF from
<1>5. scan' \in Scan
  BY <1>1, <1>3, <1>4 DEF Scan
<1>6. /\ scan'.pc = "scanning" /\ scan'.req = scan.req /\ scan'.asked = scan.asked
      /\ scan'.from = from /\ scan'.to = head /\ scan'.cursor = from
      /\ scan'.rows = scan.rows /\ scan'.failed = scan.failed
      /\ scan'.scanFailed = scan.scanFailed
  BY <1>1, <1>4 DEF Scan
<1>7. UNCHANGED <<log, head, held, stale, used>> /\ scan.pc = "asked"
  BY DEF ReadHead
<1>8. WindowOK'
  BY <1>1, <1>3, <1>6, <1>7 DEF WindowOK, ScanInv, from
<1>9. ChunksOK'
  BY <1>3, <1>6 DEF ChunksOK
<1>10. ScanTypeOK'
  BY <1>5, <1>7 DEF ScanInv, ScanTypeOK
<1> QED BY <1>6, <1>7, <1>8, <1>9, <1>10 DEF ScanInv, NothingHidden

LEMMA ScanChunkKeeps == ScanInv /\ ScanChunk => ScanInv'
<1> SUFFICES ASSUME ScanInv, ScanChunk PROVE ScanInv'
  OBVIOUS
<1> DEFINE new == UNION {log[b] : b \in scan.cursor..ChunkTo}
<1>1. scan \in Scan /\ scan.cursor \in Nat /\ scan.to \in Nat /\ scan.from \in Nat
  BY DEF ScanInv, ScanTypeOK, Scan
<1>2. /\ scan.pc = "scanning" /\ scan.cursor <= scan.to
      /\ scan' = [scan EXCEPT !.found = @ \cup new, !.cursor = NextChunk]
      /\ UNCHANGED <<log, head, held, stale, used>>
  BY DEF ScanChunk
<1>3. /\ ChunkTo \in scan.cursor..scan.to /\ NextChunk \in Nat
      /\ scan.cursor < NextChunk /\ NextChunk = ChunkTo + 1
  BY <1>1, <1>2, ChunkEnds DEF NextChunk
<1>4. WindowOK /\ ChunksOK /\ head \in 0..MaxBlock /\ log \in [0..MaxBlock -> SUBSET Items]
  BY <1>2 DEF ScanInv, ScanTypeOK
<1>5. new \subseteq Items
  <2> SUFFICES ASSUME NEW b \in scan.cursor..ChunkTo PROVE log[b] \subseteq Items
    OBVIOUS
  <2>1. b \in 0..MaxBlock
    BY <1>1, <1>3, <1>4, ScanAssumption DEF WindowOK
  <2> QED BY <2>1, <1>4
<1>6. \A b \in scan.cursor..ChunkTo : log[b] \subseteq new
  OBVIOUS
<1> HIDE DEF new
<1>7. scan' \in Scan
  BY <1>1, <1>2, <1>3, <1>5 DEF Scan
<1>8. /\ scan'.pc = "scanning" /\ scan'.req = scan.req /\ scan'.asked = scan.asked
      /\ scan'.from = scan.from /\ scan'.to = scan.to /\ scan'.cursor = NextChunk
      /\ scan'.found = scan.found \cup new
      /\ scan'.rows = scan.rows /\ scan'.failed = scan.failed
      /\ scan'.scanFailed = scan.scanFailed
  BY <1>1, <1>2 DEF Scan
<1>9. WindowOK'
  BY <1>1, <1>2, <1>3, <1>4, <1>8 DEF WindowOK
<1>10. ChunksOK'
  <2> SUFFICES ASSUME NEW b \in scan.from..scan.to, b < NextChunk
               PROVE log[b] \subseteq scan.found \cup new
    BY <1>2, <1>8 DEF ChunksOK
  <2>1. CASE b < scan.cursor
    BY <2>1, <1>4 DEF ChunksOK
  <2>2. CASE ~(b < scan.cursor)
    <3>1. b \in scan.cursor..ChunkTo
      BY <2>2, <1>1, <1>3
    <3> QED BY <3>1, <1>6
  <2> QED BY <2>1, <2>2
<1>11. ScanTypeOK'
  BY <1>2, <1>7 DEF ScanInv, ScanTypeOK
<1> QED BY <1>2, <1>8, <1>9, <1>10, <1>11 DEF ScanInv, NothingHidden

LEMMA ScanEndsKeeps == ScanInv /\ ScanEnds => ScanInv'
<1> SUFFICES ASSUME ScanInv, ScanEnds PROVE ScanInv'
  OBVIOUS
<1>1. scan \in Scan /\ scan.cursor \in Nat /\ scan.to \in Nat /\ scan.from \in Nat
  BY DEF ScanInv, ScanTypeOK, Scan
<1>2. /\ scan.pc = "scanning" /\ scan.cursor > scan.to
      /\ scan' = [scan EXCEPT !.pc = "reading"]
      /\ UNCHANGED <<log, head, held, stale, used>>
  BY DEF ScanEnds
<1>3. scan' \in Scan
  BY <1>1, <1>2 DEF Scan
<1>4. /\ scan'.pc = "reading" /\ scan'.req = scan.req /\ scan'.asked = scan.asked
      /\ scan'.from = scan.from /\ scan'.to = scan.to /\ scan'.cursor = scan.cursor
      /\ scan'.found = scan.found /\ scan'.rows = scan.rows
      /\ scan'.failed = scan.failed /\ scan'.scanFailed = scan.scanFailed
  BY <1>1, <1>2 DEF Scan
<1>5. WindowOK'
  BY <1>2, <1>4 DEF ScanInv, WindowOK
<1>6. ASSUME NEW i \in Items PROVE RowOK(i)'
  <2>1. scan'.rows[i] = 0
    BY <1>2, <1>4 DEF ScanInv
  <2>2. \A b \in scan.from..scan.to : log[b] \subseteq scan.found
    <3>1. \A b \in scan.from..scan.to : b < scan.cursor
      BY <1>1, <1>2
    <3> QED BY <3>1, <1>2 DEF ScanInv, ChunksOK
  <2>3. Named(i)' => i \in scan'.found
    BY <2>2, <1>2, <1>4 DEF Named
  <2> QED BY <2>1, <2>3 DEF RowOK
<1>7. ScanTypeOK'
  BY <1>2, <1>3 DEF ScanInv, ScanTypeOK
<1> QED BY <1>2, <1>4, <1>5, <1>6, <1>7 DEF ScanInv, NothingHidden

LEMMA FailuresKeep == ScanInv /\ (ScanFails \/ MulticallFails) => ScanInv'
<1> SUFFICES ASSUME ScanInv, ScanFails \/ MulticallFails PROVE ScanInv'
  OBVIOUS
<1>1. scan \in Scan
  BY DEF ScanInv, ScanTypeOK
<1>2. /\ \/ scan' = [scan EXCEPT !.pc = "answered", !.scanFailed = TRUE, !.rpcDegraded = TRUE]
         \/ scan' = [scan EXCEPT !.pc = "error"]
      /\ UNCHANGED <<log, head, held, stale, used>>
  BY DEF ScanFails, MulticallFails
<1>3. scan' \in Scan
  BY <1>1, <1>2 DEF Scan
<1>4. scan'.pc = "error" \/ (scan'.pc = "answered" /\ scan'.scanFailed = TRUE)
  BY <1>1, <1>2 DEF Scan
<1>5. ScanTypeOK'
  BY <1>2, <1>3 DEF ScanInv, ScanTypeOK
<1> QED BY <1>4, <1>5 DEF ScanInv, NothingHidden

LEMMA AllowancesKeep == ScanInv /\ filterActiveAllowances => ScanInv'
<1> SUFFICES ASSUME ScanInv, filterActiveAllowances PROVE ScanInv'
  OBVIOUS
<1> USE ScanAssumption
<1>1. /\ scan \in Scan /\ scan.pc = "reading" /\ ScanAsks({"get_token_allowances"})
      /\ WindowOK /\ head \in 0..MaxBlock /\ held \in [Items -> 0..MaxHeld]
      /\ scan.found \subseteq Items /\ scan.req \in ScanRequest
  BY DEF ScanInv, ScanTypeOK, filterActiveAllowances, Scan
<1>2. PICK failed \in SUBSET scan.found :
         scan' = [scan EXCEPT !.pc = "answered", !.failed = failed,
                              !.rpcDegraded = scan.req.fallback,
                              !.rows = [i \in Items |-> IF i \in scan.found \ failed
                                                        THEN held[i] ELSE 0]]
  BY DEF filterActiveAllowances
<1>3. UNCHANGED <<log, head, held, used>> /\ stale' = {}
  BY DEF filterActiveAllowances
<1> DEFINE rows == [i \in Items |-> IF i \in scan.found \ failed THEN held[i] ELSE 0]
<1>4. rows \in [Items -> 0..MaxHeld] /\ scan.req.fallback \in BOOLEAN
  BY <1>1 DEF ScanRequest
<1>5. \A i \in Items : rows[i] = IF i \in scan.found \ failed THEN held[i] ELSE 0
  OBVIOUS
<1> HIDE DEF rows
<1>6. scan' = [scan EXCEPT !.pc = "answered", !.failed = failed,
                           !.rpcDegraded = scan.req.fallback, !.rows = rows]
  BY <1>2 DEF rows
<1>7. scan' \in Scan
  BY <1>1, <1>4, <1>6 DEF Scan
<1>8. /\ scan'.pc = "answered" /\ scan'.req = scan.req /\ scan'.asked = scan.asked
      /\ scan'.to = scan.to /\ scan'.rows = rows /\ scan'.failed = failed
  BY <1>1, <1>6 DEF Scan
<1>9. ASSUME NEW i \in Items \ failed, InWindow(i)' PROVE rows[i] = held[i]
  <2>1. Named(i)
    <3>1. InWindow(i)
      BY <1>3, <1>8, <1>9 DEF InWindow
    <3> QED BY <3>1, <1>1, InWindowNamed
  \* What was found is taken off the list only after a read of a market.
  <2>2. ~ScanAsks(ScanMorphoTools)
    BY <1>1 DEF ScanAsks, ScanMorphoTools
  <2>3. i \in scan.found
    BY <2>1, <2>2, <1>1 DEF ScanInv, RowOK
  <2> QED BY <2>3, <1>5, <1>9
<1>10. ScanTypeOK'
  BY <1>3, <1>7 DEF ScanInv, ScanTypeOK
<1>11. ~ScanAsks(ScanMorphoTools)'
  BY <1>1, <1>8 DEF ScanAsks, ScanMorphoTools
<1> QED BY <1>3, <1>8, <1>9, <1>10, <1>11 DEF ScanInv, NothingHidden

LEMMA MarketReadKeeps ==
    ASSUME NEW i \in Items, ScanInv, readOneMarket(i)
    PROVE  ScanInv'
<1> USE ScanAssumption
<1>1. /\ scan \in Scan /\ scan.pc = "reading" /\ ScanAsks(ScanMorphoTools)
      /\ WindowOK /\ ~scan.scanFailed /\ held \in [Items -> 0..MaxHeld]
      /\ scan.found \subseteq Items /\ scan.failed \subseteq Items
      /\ scan.rows \in [Items -> 0..MaxHeld] /\ i \in Unread
      /\ \A j \in Items : RowOK(j)
      /\ UNCHANGED <<log, head, held, used>>
  BY DEF ScanInv, ScanTypeOK, readOneMarket, Scan
<1>2. i \in scan.found /\ scan.rows[i] = 0
  BY <1>1 DEF Unread
<1>3. CASE /\ held[i] = 0
           /\ scan' = [scan EXCEPT !.found = @ \ {i}]
           /\ stale' = stale \ {i}
  <2>1. scan' \in Scan
    BY <1>1, <1>3 DEF Scan
  <2>2. /\ scan'.pc = scan.pc /\ scan'.req = scan.req /\ scan'.asked = scan.asked
        /\ scan'.from = scan.from /\ scan'.to = scan.to /\ scan'.cursor = scan.cursor
        /\ scan'.found = scan.found \ {i} /\ scan'.rows = scan.rows
        /\ scan'.scanFailed = scan.scanFailed
    BY <1>1, <1>3 DEF Scan
  <2>3. ASSUME NEW j \in Items PROVE RowOK(j)'
    <3>1. RowOK(j)
      BY <1>1
    <3>2. Named(j)' <=> Named(j)
      BY <1>1, <2>2 DEF Named
    <3>3. CASE j = i
      BY <3>3, <1>1, <1>2, <1>3, <2>2 DEF RowOK, ScanAsks
    <3>4. CASE j # i
      BY <3>1, <3>2, <3>4, <1>1, <1>3, <2>2 DEF RowOK, ScanAsks
    <3> QED BY <3>3, <3>4
  <2>4. ScanTypeOK' /\ WindowOK'
    BY <1>1, <1>3, <2>1, <2>2 DEF ScanInv, ScanTypeOK, WindowOK
  <2> QED BY <1>1, <2>2, <2>3, <2>4 DEF ScanInv, NothingHidden
<1>4. CASE /\ held[i] # 0
           /\ scan' = [scan EXCEPT !.rows[i] = held[i]]
           /\ stale' = stale \ {i}
  <2> DEFINE rows == [scan.rows EXCEPT ![i] = held[i]]
  <2>1. /\ rows \in [Items -> 0..MaxHeld] /\ rows[i] = held[i]
        /\ \A j \in Items : j # i => rows[j] = scan.rows[j]
    BY <1>1
  <2>2. scan' = [scan EXCEPT !.rows = rows]
    BY <1>4
  <2> HIDE DEF rows
  <2>3. scan' \in Scan
    BY <1>1, <2>1, <2>2 DEF Scan
  <2>4. /\ scan'.pc = scan.pc /\ scan'.req = scan.req /\ scan'.asked = scan.asked
        /\ scan'.from = scan.from /\ scan'.to = scan.to /\ scan'.cursor = scan.cursor
        /\ scan'.found = scan.found /\ scan'.rows = rows
        /\ scan'.scanFailed = scan.scanFailed
    BY <1>1, <2>2 DEF Scan
  <2>5. ASSUME NEW j \in Items PROVE RowOK(j)'
    <3>1. RowOK(j)
      BY <1>1
    <3>2. Named(j)' <=> Named(j)
      BY <1>1, <2>4 DEF Named
    <3>3. CASE j = i
      BY <3>3, <1>1, <1>2, <2>1, <2>4 DEF RowOK
    <3>4. CASE j # i
      BY <3>1, <3>2, <3>4, <1>1, <1>4, <2>1, <2>4 DEF RowOK, ScanAsks
    <3> QED BY <3>3, <3>4
  <2>6. ScanTypeOK' /\ WindowOK'
    BY <1>1, <1>4, <2>3, <2>4 DEF ScanInv, ScanTypeOK, WindowOK
  <2> QED BY <1>1, <2>4, <2>5, <2>6 DEF ScanInv, NothingHidden
<1>5. CASE scan' = [scan EXCEPT !.failed = @ \cup {i}] /\ UNCHANGED stale
  <2>1. scan' \in Scan
    BY <1>1, <1>5 DEF Scan
  <2>2. /\ scan'.pc = scan.pc /\ scan'.req = scan.req /\ scan'.asked = scan.asked
        /\ scan'.from = scan.from /\ scan'.to = scan.to /\ scan'.cursor = scan.cursor
        /\ scan'.found = scan.found /\ scan'.rows = scan.rows
        /\ scan'.scanFailed = scan.scanFailed
    BY <1>1, <1>5 DEF Scan
  <2>3. ASSUME NEW j \in Items PROVE RowOK(j)'
    <3>1. RowOK(j)
      BY <1>1
    <3>2. Named(j)' <=> Named(j)
      BY <1>1, <2>2 DEF Named
    <3> QED BY <3>1, <3>2, <1>1, <1>5, <2>2 DEF RowOK, ScanAsks
  <2>4. ScanTypeOK' /\ WindowOK'
    BY <1>1, <1>5, <2>1, <2>2 DEF ScanInv, ScanTypeOK, WindowOK
  <2> QED BY <1>1, <2>2, <2>3, <2>4 DEF ScanInv, NothingHidden
<1> QED BY <1>3, <1>4, <1>5 DEF readOneMarket

LEMMA PositionsKeep == ScanInv /\ AnswerPositions => ScanInv'
<1> SUFFICES ASSUME ScanInv, AnswerPositions PROVE ScanInv'
  OBVIOUS
<1>1. /\ scan \in Scan /\ scan.pc = "reading" /\ ScanAsks(ScanMorphoTools) /\ Unread = {}
      /\ WindowOK /\ head \in 0..MaxBlock /\ held \in [Items -> 0..MaxHeld]
      /\ scan.rows \in [Items -> 0..MaxHeld] /\ scan.req \in ScanRequest
      /\ \A j \in Items : RowOK(j)
      /\ UNCHANGED <<log, head, held, stale, used>>
      /\ scan' = [scan EXCEPT !.pc = "answered",
                              !.rpcDegraded = scan.req.fallback \/ scan.failed # {}]
  BY DEF ScanInv, ScanTypeOK, AnswerPositions, Scan
<1> DEFINE degraded == scan.req.fallback \/ scan.failed # {}
<1>2. degraded \in BOOLEAN /\ (scan.failed # {} => degraded)
  BY <1>1 DEF ScanRequest
<1>3. scan' = [scan EXCEPT !.pc = "answered", !.rpcDegraded = degraded]
  BY <1>1
<1> HIDE DEF degraded
<1>4. scan' \in Scan
  BY <1>1, <1>2, <1>3 DEF Scan
<1>5. /\ scan'.pc = "answered" /\ scan'.req = scan.req /\ scan'.asked = scan.asked
      /\ scan'.to = scan.to /\ scan'.rows = scan.rows /\ scan'.failed = scan.failed
      /\ scan'.rpcDegraded = degraded
  BY <1>1, <1>3 DEF Scan
<1>6. ASSUME NEW i \in Items \ scan.failed, i \notin stale, InWindow(i)'
      PROVE  scan.rows[i] = held[i]
  <2>1. Named(i)
    <3>1. InWindow(i)
      BY <1>1, <1>5, <1>6 DEF InWindow
    <3> QED BY <3>1, <1>1, InWindowNamed
  <2>2. CASE i \in scan.found
    <3>1. scan.rows[i] > 0
      BY <2>2, <1>1, <1>6 DEF Unread
    <3> QED BY <3>1, <1>1, <1>6 DEF RowOK
  <2>3. CASE i \notin scan.found
    BY <2>1, <2>3, <1>1, <1>6 DEF RowOK
  <2> QED BY <2>2, <2>3
<1>7. ScanTypeOK'
  BY <1>1, <1>4 DEF ScanInv, ScanTypeOK
<1> QED BY <1>1, <1>2, <1>5, <1>6, <1>7 DEF ScanInv, NothingHidden

\* A new block lies behind those that the call reads, and makes its item stale.
LEMMA EventKeeps ==
    ASSUME NEW i \in Items, ScanInv, Event(i)
    PROVE  ScanInv'
<1> USE ScanAssumption
<1>1. /\ scan \in Scan /\ scan.pc \in {"asked", "scanning", "reading"}
      /\ head \in 0..MaxBlock /\ head < MaxBlock /\ head' = head + 1
      /\ log \in [0..MaxBlock -> SUBSET Items] /\ held \in [Items -> 0..MaxHeld]
      /\ log' = [log EXCEPT ![head + 1] = {i}]
      /\ stale \subseteq Items /\ stale' = stale \cup {i} /\ UNCHANGED <<scan, used>>
      /\ scan.from \in Nat /\ scan.to \in Nat /\ scan.cursor \in Nat /\ scan.asked \in Nat
  BY DEF ScanInv, ScanTypeOK, Event, Running, Scan
<1>2. PICK n \in 0..MaxHeld : held' = [held EXCEPT ![i] = n]
  BY DEF Event
<1>3. /\ held' \in [Items -> 0..MaxHeld]
      /\ \A j \in Items : j # i => held'[j] = held[j]
      /\ log' \in [0..MaxBlock -> SUBSET Items]
      /\ \A b \in 0..head : log'[b] = log[b]
  BY <1>1, <1>2
<1>4. WindowOK => \A b \in scan.from..scan.to : log'[b] = log[b]
  BY <1>1, <1>3 DEF WindowOK
<1>5. ScanTypeOK'
  BY <1>1, <1>3 DEF ScanInv, ScanTypeOK
<1>6. WindowOK => WindowOK'
  BY <1>1 DEF WindowOK
<1>7. WindowOK /\ ChunksOK => ChunksOK'
  BY <1>1, <1>4 DEF ChunksOK
<1>8. ASSUME WindowOK, NEW j \in Items, RowOK(j) PROVE RowOK(j)'
  <2>1. Named(j)' <=> Named(j)
    BY <1>1, <1>4, <1>8 DEF Named
  <2>2. CASE j = i
    BY <1>8, <2>1, <2>2, <1>1 DEF RowOK, ScanAsks
  <2>3. CASE j # i
    BY <1>8, <2>1, <2>3, <1>1, <1>3 DEF RowOK, ScanAsks
  <2> QED BY <2>2, <2>3
<1> QED BY <1>1, <1>5, <1>6, <1>7, <1>8 DEF ScanInv, NothingHidden

LEMMA SpentKeeps ==
    ASSUME NEW i \in Items, ScanInv, Spent(i)
    PROVE  ScanInv'
<1> USE ScanAssumption
<1>1. /\ scan \in Scan /\ scan.pc \in {"asked", "scanning", "reading"}
      /\ held \in [Items -> 0..MaxHeld] /\ held[i] > 0
      /\ held' = [held EXCEPT ![i] = @ - 1]
      /\ stale \subseteq Items /\ stale' = stale \cup {i} /\ UNCHANGED <<scan, log, head>>
      /\ used \in Nat /\ used' = used + 1
  BY DEF ScanInv, ScanTypeOK, Spent, Running
<1>2. held[i] - 1 \in 0..MaxHeld
  BY <1>1
<1>3. held' \in [Items -> 0..MaxHeld] /\ \A j \in Items : j # i => held'[j] = held[j]
  BY <1>1, <1>2
<1>4. ScanTypeOK'
  BY <1>1, <1>3 DEF ScanInv, ScanTypeOK
<1>5. (WindowOK => WindowOK') /\ (ChunksOK => ChunksOK')
  BY <1>1 DEF WindowOK, ChunksOK
<1>6. ASSUME NEW j \in Items, RowOK(j) PROVE RowOK(j)'
  <2>1. Named(j)' <=> Named(j)
    BY <1>1 DEF Named
  <2>2. CASE j = i
    BY <1>6, <2>1, <2>2, <1>1 DEF RowOK, ScanAsks
  <2>3. CASE j # i
    BY <1>6, <2>1, <2>3, <1>1, <1>3 DEF RowOK, ScanAsks
  <2> QED BY <2>2, <2>3
<1> QED BY <1>1, <1>4, <1>5, <1>6 DEF ScanInv, NothingHidden

LEMMA ScanSteps == ScanInv /\ [ScanNext]_scanVars => ScanInv'
<1> SUFFICES ASSUME ScanInv, [ScanNext]_scanVars PROVE ScanInv'
  OBVIOUS
<1>1. CASE ReadHead
  BY <1>1, ReadHeadKeeps
<1>2. CASE ScanChunk
  BY <1>2, ScanChunkKeeps
<1>3. CASE ScanEnds
  BY <1>3, ScanEndsKeeps
<1>4. CASE ScanFails \/ MulticallFails
  BY <1>4, FailuresKeep
<1>5. CASE filterActiveAllowances
  BY <1>5, AllowancesKeep
<1>6. CASE AnswerPositions
  BY <1>6, PositionsKeep
<1>7. CASE \E i \in Items : readOneMarket(i) \/ Event(i) \/ Spent(i)
  BY <1>7, MarketReadKeeps, EventKeeps, SpentKeeps
<1>8. CASE UNCHANGED scanVars
  BY <1>8 DEF ScanInv, scanVars, ScanTypeOK, WindowOK, ChunksOK, RowOK, Named,
              NothingHidden, InWindow, ScanAsks
<1> QED BY <1>1, <1>2, <1>3, <1>4, <1>5, <1>6, <1>7, <1>8 DEF ScanNext

-----------------------------------------------------------------------------
(* The theorems about the scans                                             *)

\* A scan keeps its window, what it found in it and what it read of that.
THEOREM ScanInvariance == ScanSpec => []ScanInv
<1>1. ScanInit => ScanInv
  BY Starts
<1> QED BY <1>1, ScanSteps, PTL DEF ScanSpec

\* Every value is one that the tools can hold.
THEOREM ScanTypeCorrect == ScanSpec => []ScanTypeOK
<1>1. ScanInv => ScanTypeOK
  BY DEF ScanInv
<1> QED BY <1>1, ScanInvariance, PTL

\* get_token_allowances, get_morpho_positions and get_lending_positions list whatever the
\* wallet holds and was given within the lookback, for every log and chunk size.
THEOREM ScansHideNothing == ScanSpec => []NothingHidden
<1>1. ScanInv => NothingHidden
  BY DEF ScanInv
<1> QED BY <1>1, ScanInvariance, PTL

\* The same of the tools side by side: nothing that a tool prepares or projects disturbs a scan.
THEOREM ListsHideNothing == LendingToolsSpec => []NothingHidden
<1> DEFINE Inv == scan.pc = "idle" \/ ScanInv
<1>1. LendingToolsInit => Inv
  BY Starts DEF LendingToolsInit, ScanRests, ScanAsked
<1>2. Inv /\ [LendingToolsNext]_<<vars, scanVars, simVars>> => Inv'
  <2> SUFFICES ASSUME Inv, [LendingToolsNext]_<<vars, scanVars, simVars>> PROVE Inv'
    OBVIOUS
  <2>1. CASE scan.pc # "idle" /\ ScanNext
    BY <2>1, ScanSteps
  <2>2. CASE UNCHANGED scanVars
    <3>1. scan' = scan
      BY <2>2 DEF scanVars
    <3> QED BY <2>2, <3>1, ScanSteps
  <2> QED BY <2>1, <2>2 DEF LendingToolsNext
<1>3. Inv => NothingHidden
  BY DEF ScanInv, NothingHidden
<1> QED BY <1>1, <1>2, <1>3, PTL DEF LendingToolsSpec

-----------------------------------------------------------------------------
(* Sums over the assets                                                     *)

Worths(of, prices, over) == [x \in over |-> of[x] * prices[x]]

\* A total is what the sums of the community modules make of it.
LEMMA TotalIs ==
    ASSUME NEW of, NEW prices, NEW over, IsFiniteSet(over)
    PROVE  \E f : AreSums(f, Worths(of, prices, over), over) /\ Total(of, prices, over) = f[over]
<1> DEFINE Is(f) == f = [s \in SUBSET over |-> IF s = {} THEN 0
                             ELSE LET x == CHOOSE x \in s : TRUE IN of[x] * prices[x] + f[s \ {x}]]
<1>1. ASSUME NEW f PROVE AreSums(f, Worths(of, prices, over), over) <=> Is(f)
  <2>1. \A s \in SUBSET over : s # {} => /\ Pick(s) \in over
                                         /\ Pick(s) = CHOOSE x \in s : TRUE
    BY DEF Pick
  <2>2. \A x \in over : Worths(of, prices, over)[x] = of[x] * prices[x]
    BY DEF Worths
  <2>3. ASSUME AreSums(f, Worths(of, prices, over), over) PROVE Is(f)
    BY <2>1, <2>2, <2>3 DEF AreSums
  <2>4. ASSUME Is(f) PROVE AreSums(f, Worths(of, prices, over), over)
    BY <2>1, <2>2, <2>4 DEF AreSums
  <2> QED BY <2>3, <2>4
<1>2. PICK f : f = CHOOSE g : Is(g)
  OBVIOUS
<1>3. Total(of, prices, over) = f[over]
  BY <1>2, Zenon DEF Total, MapThenSumSet, MapThenFoldSet
<1> HIDE DEF Is
<1>4. \E g : Is(g)
  BY <1>1, SumsExist
<1>5. Is(f)
  BY <1>2, <1>4, Zenon
<1> QED BY <1>1, <1>3, <1>5

\* What weighs nothing may be left out, and only the amounts that are summed matter.
LEMMA Totals ==
    ASSUME NEW over, IsFiniteSet(over), NEW of \in [over -> Nat], NEW prices \in [over -> Nat]
    PROVE  /\ Total(of, prices, over) \in Nat
           /\ over = {} => Total(of, prices, over) = 0
           /\ \A a \in over : over = {a} => Total(of, prices, over) = of[a] * prices[a]
<1> DEFINE w == Worths(of, prices, over)
<1>1. w \in [over -> Nat] /\ \A x \in over : w[x] = of[x] * prices[x]
  <2>1. \A x \in over : of[x] \in Nat /\ prices[x] \in Nat
    OBVIOUS
  <2>2. \A x \in over : of[x] * prices[x] \in Nat
    BY <2>1, Products
  <2> QED BY <2>2 DEF Worths
<1>2. PICK f : AreSums(f, w, over) /\ Total(of, prices, over) = f[over]
  BY TotalIs
<1> HIDE DEF w
<1>3. ASSUME NEW s \in SUBSET over
      PROVE  /\ f[s] \in Nat
             /\ s = {} => f[s] = 0
             /\ \A a \in s : f[s] = w[a] + f[s \ {a}]
  <2>1. w \in [over -> Nat] /\ AreSums(f, w, over)
    BY <1>1, <1>2
  <2>2. f[s] \in Nat
    BY <2>1, SumsTake
  <2>3. s = {} => f[s] = 0
    BY <2>1, SumsTake
  <2>4. \A a \in s : f[s] = w[a] + f[s \ {a}]
    BY <2>1, SumsTake
  <2> QED BY <2>2, <2>3, <2>4
<1>4. over \in SUBSET over /\ {} \in SUBSET over
  OBVIOUS
<1>5. ASSUME NEW a \in over, over = {a} PROVE f[over] = of[a] * prices[a]
  <2>1. PICK p \in Nat : p = of[a] * prices[a]
    <3>1. w[a] \in Nat /\ w[a] = of[a] * prices[a]
      BY <1>1
    <3> QED BY <3>1
  <2>2. over \ {a} = {} /\ w[a] = p
    BY <1>1, <1>5, <2>1
  <2>3. f[over] = p + 0
    BY <1>3, <1>4, <2>2
  <2> QED BY <2>1, <2>3
<1> QED BY <1>2, <1>3, <1>5

LEMMA SameTotal ==
    ASSUME NEW over, IsFiniteSet(over), NEW of \in [over -> Nat], NEW prices \in [over -> Nat],
           NEW some \in SUBSET over, NEW part, NEW costs,
           \A x \in over \ some : of[x] = 0,
           \A x \in some : part[x] = of[x] /\ costs[x] = prices[x]
    PROVE  Total(part, costs, some) = Total(of, prices, over)
<1> DEFINE w == Worths(of, prices, over)
           v == Worths(part, costs, some)
<1>1. w \in [over -> Nat] /\ \A x \in over : w[x] = of[x] * prices[x]
  <2>1. \A x \in over : of[x] \in Nat /\ prices[x] \in Nat
    OBVIOUS
  <2>2. \A x \in over : of[x] * prices[x] \in Nat
    BY <2>1, Products
  <2> QED BY <2>2 DEF Worths
<1>2. \A x \in some : v[x] = w[x]
  BY DEF Worths
<1>3. \A x \in over \ some : w[x] = 0
  <2>1. \A x \in over \ some : prices[x] \in Nat
    OBVIOUS
  <2>2. \A n \in Nat : 0 * n = 0
    OBVIOUS
  <2> QED BY <1>1, <2>1, <2>2
<1>4. PICK f : AreSums(f, w, over) /\ Total(of, prices, over) = f[over]
  BY TotalIs
<1>5. IsFiniteSet(some)
  BY FS_Subset
<1>6. PICK g : AreSums(g, v, some) /\ Total(part, costs, some) = g[some]
  BY <1>5, TotalIs
<1> HIDE DEF w, v
<1>7. g[some] = f[some]
  BY <1>2, <1>4, <1>6, SumsAgree
<1>8. f[over] = f[some]
  BY <1>1, <1>3, <1>4, SumsSkip
<1> QED BY <1>4, <1>6, <1>7, <1>8

-----------------------------------------------------------------------------
(* How an account stands                                                    *)

Account == [supplied : [Assets -> Nat], debt : [Assets -> Nat], enabled : SUBSET Assets,
            emode : BOOLEAN]

CometOk(a) ==
    /\ a.enabled = {} /\ ~a.emode
    /\ a.supplied[Base] = 0 \/ a.debt[Base] = 0
    /\ \A x \in Others : a.debt[x] = 0

\* Standing, of any account at any prices.
Stands(protocol, a, prices, percent) ==
    LET over == IF protocol = "aave-v3" THEN a.enabled ELSE Others
    IN [backing |-> percent * Total(a.supplied, prices, over),
        debt |-> 100 * Total(a.debt, prices, Assets)]

LEMMA BacksIs ==
    ASSUME NEW protocol \in Protocols, NEW a \in Account, NEW prices \in [Assets -> Nat]
    PROVE  Total(a.supplied, prices, IF protocol = "aave-v3" THEN a.enabled ELSE Others) \in Nat
<1> DEFINE over == IF protocol = "aave-v3" THEN a.enabled ELSE Others
<1>1. over \in SUBSET Assets /\ IsFiniteSet(over)
  BY SimAssumption, FS_Subset DEF Account, Others
<1> HIDE DEF over
<1>2. PICK s \in [over -> Nat] : s = [x \in over |-> a.supplied[x]]
  BY <1>1 DEF Account
<1>3. PICK p \in [over -> Nat] : p = [x \in over |-> prices[x]]
  BY <1>1
<1>4. Total(s, p, over) \in Nat
  BY <1>1, Totals
<1>5. Total(a.supplied, prices, over) = Total(s, p, over)
  BY <1>1, <1>2, <1>3, SameTotal
<1> QED BY <1>4, <1>5 DEF over

LEMMA StandsIsHealth ==
    ASSUME NEW protocol \in Protocols, NEW a \in Account, NEW prices \in [Assets -> Nat],
           NEW percent \in Nat
    PROVE  Stands(protocol, a, prices, percent) \in Health
<1> DEFINE over == IF protocol = "aave-v3" THEN a.enabled ELSE Others
<1>1. PICK t \in Nat : t = Total(a.supplied, prices, over)
  BY BacksIs
<1>2. PICK d \in Nat : d = Total(a.debt, prices, Assets)
  BY SimAssumption, Totals DEF Account
<1>3. Stands(protocol, a, prices, percent) = [backing |-> percent * t, debt |-> 100 * d]
  BY <1>1, <1>2 DEF Stands
<1> QED BY <1>3, Products DEF Health

\* At a higher threshold the same debt is better backed.
LEMMA Widens ==
    ASSUME NEW protocol \in Protocols, NEW a \in Account, NEW prices \in [Assets -> Nat],
           NEW low \in Nat, NEW high \in Nat, low <= high
    PROVE  \E b \in Nat, c \in Nat, d \in Nat :
              /\ b <= c
              /\ Stands(protocol, a, prices, low) = [backing |-> b, debt |-> d]
              /\ Stands(protocol, a, prices, high) = [backing |-> c, debt |-> d]
<1> DEFINE over == IF protocol = "aave-v3" THEN a.enabled ELSE Others
<1>1. PICK t \in Nat : t = Total(a.supplied, prices, over)
  BY BacksIs
<1>2. PICK d \in Nat : d = 100 * Total(a.debt, prices, Assets)
  BY StandsIsHealth DEF Stands, Health
<1>3. PICK b \in Nat, c \in Nat : b = low * t /\ c = high * t
  BY Products
<1>4. b <= c
  BY <1>3, Times
<1> QED BY <1>1, <1>2, <1>3, <1>4 DEF Stands

\* The health that the code computes is the account's, if every supply is collateral and, in
\* a Comet, nothing but the base is owed.
LEMMA HealthIsStanding ==
    ASSUME NEW protocol \in Protocols, NEW v \in View, NEW a \in Account,
           protocol = "aave-v3" =>
               /\ a.enabled = {x \in Assets : a.supplied[x] > 0}
               /\ v["supplied"] = a.supplied /\ v["debt"] = a.debt,
           protocol = "compound-v3" =>
               /\ \A x \in Others : a.debt[x] = 0
               /\ \A x \in Others : v["supplied"][x] = a.supplied[x]
               /\ v["debt"][Base] = a.debt[Base]
    PROVE  HealthOf(protocol, v) = Stands(protocol, a, v["price"], Factor)
<1>1. /\ v["supplied"] \in [Assets -> Nat] /\ v["debt"] \in [Assets -> Nat]
      /\ v["price"] \in [Assets -> Nat]
  BY DEF View, Fields
<1>2. a.supplied \in [Assets -> Nat] /\ a.debt \in [Assets -> Nat] /\ a.enabled \in SUBSET Assets
  BY DEF Account
<1>3. /\ IsFiniteSet(Assets) /\ Base \in Assets /\ Others \in SUBSET Assets
      /\ IsFiniteSet(Others)
  BY SimAssumption, FS_Subset DEF Others
<1>4. CASE protocol = "aave-v3"
  <2>1. \A x \in Assets \ a.enabled : a.supplied[x] = 0
    BY <1>2, <1>4
  <2>2. Total(a.supplied, v["price"], a.enabled) = Total(a.supplied, v["price"], Assets)
    BY <1>1, <1>2, <1>3, <2>1, SameTotal
  <2> QED BY <1>4, <2>2 DEF HealthOf, computeHealthFactor, Stands
<1>5. CASE protocol = "compound-v3"
  <2>1. Total(v["supplied"], v["price"], Others) = Total(a.supplied, v["price"], Others)
    <3>1. PICK s \in [Others -> Nat] : s = [x \in Others |-> a.supplied[x]]
      BY <1>2, <1>3
    <3>2. PICK p \in [Others -> Nat] : p = [x \in Others |-> v["price"][x]]
      BY <1>1, <1>3
    <3>3. Total(a.supplied, v["price"], Others) = Total(s, p, Others)
      BY <1>3, <3>1, <3>2, SameTotal
    <3>4. Total(v["supplied"], v["price"], Others) = Total(s, p, Others)
      BY <1>3, <1>5, <3>1, <3>2, SameTotal
    <3> QED BY <3>3, <3>4
  <2>2. Total(v["debt"], v["price"], {Base}) = Total(a.debt, v["price"], Assets)
    <3>1. {Base} \in SUBSET Assets /\ \A x \in Assets \ {Base} : a.debt[x] = 0
      BY <1>3, <1>5 DEF Others
    <3>2. \A x \in {Base} : v["debt"][x] = a.debt[x]
      BY <1>5
    <3> QED BY <1>1, <1>2, <1>3, <3>1, <3>2, SameTotal
  <2> QED BY <1>5, <2>1, <2>2 DEF HealthOf, computeCompoundCollateralization, Stands
<1> QED BY <1>4, <1>5 DEF Protocols

-----------------------------------------------------------------------------
(* What was shown and what is reached                                       *)

LEMMA LessIs ==
    ASSUME NEW n \in Int, NEW m \in Int
    PROVE  /\ n > m => Less(n, m) = n - m
           /\ n <= m => Less(n, m) = 0
           /\ Less(n, m) \in Nat
BY DEF Less

LEMMA SimAsks ==
    ASSUME NEW r \in SimRequest
    PROVE  /\ r.protocol \in Protocols /\ r.asset \in Assets /\ r.action \in SimActions
           /\ r.amount \in Nat
BY SimAssumption DEF SimRequest

\* What the chain executes leaves an account in order.
LEMMA AccountStays ==
    ASSUME NEW r \in SimRequest, acct \in Account,
           r.protocol = "compound-v3" => CometOk(acct),
           Takes(r)
    PROVE  /\ AccountAfter(r) \in Account
           /\ r.protocol = "compound-v3" => CometOk(AccountAfter(r))
<1>1. /\ r.protocol \in Protocols /\ r.asset \in Assets /\ r.action \in SimActions
      /\ r.amount \in Nat /\ Base \in Assets
  BY SimAsks, SimAssumption
<1>2. /\ acct = [supplied |-> acct.supplied, debt |-> acct.debt, enabled |-> acct.enabled,
             emode |-> acct.emode]
      /\ acct.supplied \in [Assets -> Nat] /\ acct.debt \in [Assets -> Nat]
      /\ acct.enabled \in SUBSET Assets /\ acct.emode \in BOOLEAN
  BY DEF Account
<1>3. PICK b : b = AccountAfter(r)
  OBVIOUS
<1>4. \A x \in Assets : b.supplied[x] >= 0
  BY <1>3 DEF Takes
<1>5. CASE r.protocol = "aave-v3"
  <2>1. b = PoolAfter(r)
    BY <1>3, <1>5 DEF AccountAfter
  <2>2. PICK s \in Nat, d \in Nat : s = acct.supplied[r.asset] /\ d = acct.debt[r.asset]
    BY <1>1, <1>2
  <2>7. ASSUME NEW e \in SUBSET Assets, NEW n \in Nat, NEW m \in Nat
        PROVE  /\ [acct EXCEPT !.supplied[r.asset] = n, !.enabled = e] \in Account
               /\ [acct EXCEPT !.supplied[r.asset] = n] \in Account
               /\ [acct EXCEPT !.debt[r.asset] = m] \in Account
    BY <1>1, <1>2 DEF Account
  <2>3. CASE r.action = "supply"
    <3>1. PICK n \in Nat : n = s + r.amount
      BY <1>1, <2>2
    <3>2. PICK e \in SUBSET Assets :
             e = IF s = 0 THEN acct.enabled \cup {r.asset} ELSE acct.enabled
      BY <1>1, <1>2
    <3>3. b = [acct EXCEPT !.supplied[r.asset] = n, !.enabled = e]
      BY <2>1, <2>2, <2>3, <3>1, <3>2 DEF PoolAfter
    <3>4. b \in Account
      BY <2>7, <3>3, Zenon
    <3> QED BY <1>3, <1>5, <3>4
  <2>4. CASE r.action = "withdraw"
    <3>1. b = [acct EXCEPT !.supplied[r.asset] = s - r.amount]
      BY <2>1, <2>2, <2>4 DEF PoolAfter
    <3>2. b.supplied[r.asset] = s - r.amount
      BY <1>1, <1>2, <3>1
    <3>3. s - r.amount \in Nat
      BY <1>1, <1>4, <2>2, <3>2
    <3>4. b \in Account
      BY <2>7, <3>1, <3>3, Zenon
    <3> QED BY <1>3, <1>5, <3>4
  <2>5. CASE r.action = "borrow"
    <3>1. b = [acct EXCEPT !.debt[r.asset] = d + r.amount]
      BY <2>1, <2>2, <2>5 DEF PoolAfter
    <3>2. d + r.amount \in Nat
      BY <1>1, <2>2
    <3>3. b \in Account
      BY <2>7, <3>1, <3>2, Zenon
    <3> QED BY <1>3, <1>5, <3>3
  <2>6. CASE r.action = "repay"
    <3>1. Less(d, r.amount) \in Nat
      BY <1>1, <2>2 DEF Less
    <3>2. b = [acct EXCEPT !.debt[r.asset] = Less(d, r.amount)]
      BY <2>1, <2>2, <2>6 DEF PoolAfter
    <3>3. b \in Account
      BY <2>7, <3>1, <3>2, Zenon
    <3> QED BY <1>3, <1>5, <3>3
  <2> QED BY <1>1, <2>3, <2>4, <2>5, <2>6 DEF SimActions
<1>6. CASE r.protocol = "compound-v3"
  <2>1. b = CometAfter(r) /\ CometOk(acct)
    BY <1>3, <1>6 DEF AccountAfter
  <2>2. CASE r.asset = Base
    <3>1. PICK n \in Int : n = acct.supplied[Base] - acct.debt[Base]
                               + (IF r.action \in {"supply", "repay"} THEN r.amount ELSE -r.amount)
      BY <1>1, <1>2
    <3>2. b = [acct EXCEPT !.supplied[Base] = Less(n, 0), !.debt[Base] = Less(0, n)]
      BY <2>1, <2>2, <3>1 DEF CometAfter
    <3>3. PICK s \in Nat, d \in Nat : s = Less(n, 0) /\ d = Less(0, n) /\ (s = 0 \/ d = 0)
      BY <3>1, LessIs
    <3>4. b = [acct EXCEPT !.supplied[Base] = s, !.debt[Base] = d]
      BY <3>2, <3>3
    <3>5. /\ b \in Account
          /\ b.supplied[Base] = s /\ b.debt[Base] = d /\ b.enabled = acct.enabled
          /\ b.emode = acct.emode
          /\ \A x \in Others : b.debt[x] = acct.debt[x]
      BY <1>1, <1>2, <3>3, <3>4 DEF Account, Others
    <3> QED BY <1>3, <2>1, <3>3, <3>5 DEF CometOk
  <2>3. CASE r.asset # Base
    <3>1. PICK n \in Int : n = acct.supplied[r.asset]
                               + (IF r.action = "supply" THEN r.amount ELSE -r.amount)
      BY <1>1, <1>2
    <3>2. b = [acct EXCEPT !.supplied[r.asset] = n]
      BY <2>1, <2>3, <3>1 DEF CometAfter
    <3>3. n \in Nat
      <4>1. b.supplied[r.asset] = n
        BY <1>1, <1>2, <3>2
      <4> QED BY <1>1, <1>4, <3>1, <4>1
    <3>4. /\ b \in Account
          /\ b.supplied[Base] = acct.supplied[Base] /\ b.debt = acct.debt /\ b.enabled = acct.enabled
          /\ b.emode = acct.emode
      BY <1>1, <1>2, <2>3, <3>2, <3>3 DEF Account
    <3> QED BY <1>3, <2>1, <3>4 DEF CometOk
  <2> QED BY <2>2, <2>3
<1> QED BY <1>1, <1>5, <1>6 DEF Protocols

LEMMA ProjectedIsView ==
    ASSUME NEW r \in SimRequest, NEW v \in View
    PROVE  Projected(v, r) \in View /\ Projected(v, r)["price"] = v["price"]
<1>1. /\ r.protocol \in Protocols /\ r.asset \in Assets /\ r.action \in SimActions
      /\ r.amount \in Nat /\ Base \in Assets
  BY SimAsks, SimAssumption
<1>2. /\ v = [f \in Fields |-> v[f]] /\ Fields = {"supplied", "debt", "price"}
      /\ v["supplied"] \in [Assets -> Nat] /\ v["debt"] \in [Assets -> Nat]
  BY DEF View, Fields
<1>3. \A n \in Nat, m \in Nat : n + m \in Nat /\ Less(n, m) \in Nat
  BY LessIs
<1>4. ASSUME NEW a \in Assets, NEW n \in Nat
      PROVE  /\ [v EXCEPT !.supplied[a] = n] \in View /\ [v EXCEPT !.supplied[a] = n]["price"] = v["price"]
             /\ [v EXCEPT !.debt[a] = n] \in View /\ [v EXCEPT !.debt[a] = n]["price"] = v["price"]
  BY <1>2 DEF View
<1>5. \A a \in Assets : v["supplied"][a] \in Nat /\ v["debt"][a] \in Nat
  BY <1>2
<1>6. projectAave(v, r) \in View /\ projectAave(v, r)["price"] = v["price"]
  BY <1>1, <1>3, <1>4, <1>5 DEF projectAave, SimActions
<1>7. projectComet(v, r) \in View /\ projectComet(v, r)["price"] = v["price"]
  BY <1>1, <1>3, <1>4, <1>5 DEF projectComet, SimActions
<1> QED BY <1>6, <1>7 DEF Projected

\* What the simulation projects is what the contract makes of an account: in Aave exactly; in
\* a Comet, a loan of the base is first taken from what is supplied of it.
LEMMA ProjectsPool ==
    ASSUME NEW r \in SimRequest, NEW v \in View, acct \in Account,
           v["supplied"] = acct.supplied, v["debt"] = acct.debt,
           r.protocol = "aave-v3", Takes(r)
    PROVE  /\ Projected(v, r)["supplied"] = AccountAfter(r).supplied
           /\ Projected(v, r)["debt"] = AccountAfter(r).debt
<1>1. /\ r.protocol \in Protocols /\ r.asset \in Assets /\ r.action \in SimActions
      /\ r.amount \in Nat
  BY SimAsks
<1>2. /\ acct = [supplied |-> acct.supplied, debt |-> acct.debt, enabled |-> acct.enabled,
             emode |-> acct.emode]
      /\ acct.supplied \in [Assets -> Nat] /\ acct.debt \in [Assets -> Nat]
  BY DEF Account
<1>3. /\ v = [f \in Fields |-> v[f]] /\ Fields = {"supplied", "debt", "price"}
  BY DEF View, Fields
<1>4. PICK b, w : /\ b = AccountAfter(r) /\ b = PoolAfter(r)
                  /\ w = Projected(v, r) /\ w = projectAave(v, r)
  BY DEF AccountAfter, Projected
<1>5. \A x \in Assets : b.supplied[x] >= 0
  BY <1>4 DEF Takes
<1>6. CASE r.action = "supply"
  <2>1. PICK n : n = acct.supplied[r.asset] + r.amount
    OBVIOUS
  <2>2. w = [v EXCEPT !.supplied[r.asset] = n]
    BY <1>4, <1>6, <2>1 DEF projectAave
  <2>3. PICK e : b = [acct EXCEPT !.supplied[r.asset] = n, !.enabled = e]
    <3>1. PICK e : e = IF acct.supplied[r.asset] = 0 THEN acct.enabled \cup {r.asset}
                       ELSE acct.enabled
      OBVIOUS
    <3>2. b = [acct EXCEPT !.supplied[r.asset] = n, !.enabled = e]
      BY <1>4, <1>6, <2>1, <3>1 DEF PoolAfter
    <3> QED BY <3>2, Zenon
  <2>4. b.supplied = [acct.supplied EXCEPT ![r.asset] = n] /\ b.debt = acct.debt
    BY <1>2, <2>3
  <2>5. w["supplied"] = [v["supplied"] EXCEPT ![r.asset] = n] /\ w["debt"] = v["debt"]
    BY <1>3, <2>2
  <2> QED BY <1>4, <2>4, <2>5
<1>7. CASE r.action = "withdraw"
  <2>1. w = [v EXCEPT !.supplied[r.asset] = Less(@, r.amount)]
    BY <1>4, <1>7 DEF projectAave
  <2>2. b = [acct EXCEPT !.supplied[r.asset] = @ - r.amount]
    BY <1>4, <1>7 DEF PoolAfter
  <2>3. b.supplied[r.asset] = acct.supplied[r.asset] - r.amount
    BY <1>1, <1>2, <2>2
  <2>4. PICK s \in Nat : s = acct.supplied[r.asset]
    BY <1>1, <1>2
  <2>5. s - r.amount >= 0
    BY <1>1, <1>5, <2>3, <2>4
  <2>6. Less(s, r.amount) = s - r.amount
    BY <1>1, <2>5 DEF Less
  <2>7. /\ w = [v EXCEPT !.supplied[r.asset] = s - r.amount]
        /\ b = [acct EXCEPT !.supplied[r.asset] = s - r.amount]
    BY <2>1, <2>2, <2>4, <2>6
  <2>8. PICK n : n = s - r.amount
    OBVIOUS
  <2>9. b.supplied = [acct.supplied EXCEPT ![r.asset] = n] /\ b.debt = acct.debt
    BY <1>2, <2>7, <2>8
  <2>10. w["supplied"] = [v["supplied"] EXCEPT ![r.asset] = n] /\ w["debt"] = v["debt"]
    BY <1>3, <2>7, <2>8
  <2> QED BY <1>4, <2>9, <2>10
<1>8. CASE r.action = "borrow"
  <2>1. w = [v EXCEPT !.debt[r.asset] = @ + r.amount]
    BY <1>4, <1>8 DEF projectAave
  <2>2. b = [acct EXCEPT !.debt[r.asset] = @ + r.amount]
    BY <1>4, <1>8 DEF PoolAfter
  <2>3. b.debt = [acct.debt EXCEPT ![r.asset] = @ + r.amount] /\ b.supplied = acct.supplied
    BY <1>2, <2>2
  <2>4. w["debt"] = [v["debt"] EXCEPT ![r.asset] = @ + r.amount] /\ w["supplied"] = v["supplied"]
    BY <1>3, <2>1
  <2> QED BY <1>4, <2>3, <2>4
<1>9. CASE r.action = "repay"
  <2>1. w = [v EXCEPT !.debt[r.asset] = Less(@, r.amount)]
    BY <1>4, <1>9 DEF projectAave
  <2>2. b = [acct EXCEPT !.debt[r.asset] = Less(@, r.amount)]
    BY <1>4, <1>9 DEF PoolAfter
  <2>3. b.debt = [acct.debt EXCEPT ![r.asset] = Less(@, r.amount)] /\ b.supplied = acct.supplied
    BY <1>2, <2>2
  <2>4. w["debt"] = [v["debt"] EXCEPT ![r.asset] = Less(@, r.amount)] /\ w["supplied"] = v["supplied"]
    BY <1>3, <2>1
  <2> QED BY <1>4, <2>3, <2>4
<1> QED BY <1>1, <1>6, <1>7, <1>8, <1>9 DEF SimActions

LEMMA ProjectsComet ==
    ASSUME NEW r \in SimRequest, NEW v \in View, acct \in Account, CometOk(acct),
           v["supplied"] = acct.supplied, v["debt"] = acct.debt,
           r.protocol = "compound-v3", Takes(r), ~CometRefuses(v, r)
    PROVE  /\ \A x \in Others : Projected(v, r)["supplied"][x] = AccountAfter(r).supplied[x]
           /\ AccountAfter(r).debt[Base] <= Projected(v, r)["debt"][Base]
           /\ r.action # "borrow" => AccountAfter(r).debt[Base] = Projected(v, r)["debt"][Base]
<1>1. /\ r.protocol \in Protocols /\ r.asset \in Assets /\ r.action \in SimActions
      /\ r.amount \in Nat /\ Base \in Assets
  BY SimAsks, SimAssumption
<1>2. /\ acct = [supplied |-> acct.supplied, debt |-> acct.debt, enabled |-> acct.enabled,
             emode |-> acct.emode]
      /\ acct.supplied \in [Assets -> Nat] /\ acct.debt \in [Assets -> Nat]
  BY DEF Account
<1>3. /\ v = [f \in Fields |-> v[f]] /\ Fields = {"supplied", "debt", "price"}
  BY DEF View, Fields
<1>4. PICK b, w : /\ b = AccountAfter(r) /\ b = CometAfter(r)
                  /\ w = Projected(v, r) /\ w = projectComet(v, r)
  BY DEF AccountAfter, Projected
<1>5. \A x \in Assets : b.supplied[x] >= 0
  BY <1>4 DEF Takes
<1>6. PICK s \in Nat, d \in Nat, m \in Nat : /\ s = acct.supplied[Base] /\ d = acct.debt[Base]
                                             /\ m = r.amount /\ (s = 0 \/ d = 0)
  BY <1>1, <1>2 DEF CometOk
<1>7. CASE r.asset = Base
  <2>0. PICK n \in Int : n = s - d + (IF r.action \in {"supply", "repay"} THEN m ELSE -m)
    OBVIOUS
  <2>1. b = [acct EXCEPT !.supplied[Base] = Less(n, 0), !.debt[Base] = Less(0, n)]
    BY <1>4, <1>6, <1>7, <2>0 DEF CometAfter
  <2>2. b.debt[Base] = Less(0, n) /\ \A x \in Others : b.supplied[x] = acct.supplied[x]
    BY <1>1, <1>2, <2>1 DEF Others
  <2>3. CASE r.action \in {"supply", "repay"}
    <3>1. w = [v EXCEPT !.debt[Base] = Less(d, m)]
      BY <1>3, <1>4, <1>6, <1>7, <2>3 DEF projectComet
    <3>2. w["debt"][Base] = Less(d, m) /\ w["supplied"] = acct.supplied
      BY <1>1, <1>2, <1>3, <3>1
    <3>3. n = s - d + m
      BY <2>0, <2>3
    <3>5. Less(0, n) = IF d > m /\ s = 0 THEN d - m ELSE 0
      BY <1>6, <3>3 DEF Less
    <3>6. Less(d, m) = IF d > m /\ s = 0 THEN d - m ELSE 0
      BY <1>6 DEF Less
    <3>7. PICK h \in Nat : h = Less(0, n) /\ h = Less(d, m)
      BY <3>5, <3>6
    <3> QED BY <1>4, <2>2, <3>2, <3>7
  <2>4. CASE r.action = "withdraw"
    <3>1. w = [v EXCEPT !.debt[Base] = d + Less(m, s)]
      BY <1>3, <1>4, <1>6, <1>7, <2>4 DEF projectComet
    <3>2. w["debt"][Base] = d + Less(m, s) /\ w["supplied"] = acct.supplied
      BY <1>1, <1>2, <1>3, <3>1
    <3>3. n = s - d - m
      BY <2>0, <2>4
    <3>4. Less(0, n) = d + Less(m, s)
      <4>1. CASE s = 0
        <5>1. Less(m, s) = m
          BY <4>1 DEF Less
        <5>2. Less(0, n) = d + m
          BY <3>3, <4>1 DEF Less
        <5> QED BY <5>1, <5>2
      <4>2. CASE d = 0
        BY <3>3, <4>2 DEF Less
      <4> QED BY <1>6, <4>1, <4>2
    <3>5. PICK h \in Nat : h = Less(0, n) /\ h = w["debt"][Base]
      BY <1>6, <3>2, <3>4 DEF Less
    <3> QED BY <1>4, <2>2, <3>2, <3>5
  <2>5. CASE r.action = "borrow"
    <3>1. w = [v EXCEPT !.debt[Base] = d + m]
      BY <1>3, <1>4, <1>6, <1>7, <2>5 DEF projectComet
    <3>2. w["debt"][Base] = d + m /\ w["supplied"] = acct.supplied
      BY <1>1, <1>2, <1>3, <3>1
    <3>3. n = s - d - m
      BY <2>0, <2>5
    <3>4. Less(0, n) <= d + m
      BY <1>6, <3>3 DEF Less
    <3> QED BY <1>4, <2>2, <2>5, <3>2, <3>4
  <2> QED BY <1>1, <2>3, <2>4, <2>5 DEF SimActions
<1>8. CASE r.asset # Base
  <2>1. r.action \in {"supply", "withdraw"}
    BY <1>1, <1>8 DEF CometRefuses, SimActions
  <2>2. PICK a \in Assets, q \in Nat : a = r.asset /\ q = acct.supplied[a] /\ a # Base
    BY <1>1, <1>2, <1>8
  <2>3. CASE r.action = "supply"
    <3>1. b = [acct EXCEPT !.supplied[a] = q + m]
      BY <1>4, <1>6, <1>8, <2>2, <2>3 DEF CometAfter
    <3>2. w = [v EXCEPT !.supplied[a] = q + m]
      BY <1>3, <1>4, <1>6, <1>8, <2>2, <2>3 DEF projectComet
    <3>3. /\ \A x \in Others : w["supplied"][x] = b.supplied[x]
          /\ b.debt[Base] = d /\ w["debt"][Base] = d
      BY <1>1, <1>2, <1>3, <1>6, <2>2, <3>1, <3>2 DEF Others
    <3> QED BY <1>4, <1>6, <3>3
  <2>4. CASE r.action = "withdraw"
    <3>1. b = [acct EXCEPT !.supplied[a] = q + (-m)]
      BY <1>4, <1>6, <1>8, <2>2, <2>4 DEF CometAfter
    <3>2. w = [v EXCEPT !.supplied[a] = Less(q, m)]
      BY <1>3, <1>4, <1>6, <1>8, <2>2, <2>4 DEF projectComet
    <3>3. b.supplied[a] = q + (-m)
      BY <1>2, <2>2, <3>1
    <3>4. q + (-m) >= 0
      BY <1>5, <2>2, <3>3
    <3>5. Less(q, m) = q + (-m)
      BY <1>6, <3>4 DEF Less
    <3>6. /\ \A x \in Others : w["supplied"][x] = b.supplied[x]
          /\ b.debt[Base] = d /\ w["debt"][Base] = d
      BY <1>1, <1>2, <1>3, <1>6, <2>2, <3>1, <3>2, <3>5 DEF Others
    <3> QED BY <1>4, <1>6, <3>6
  <2> QED BY <2>1, <2>3, <2>4
<1> QED BY <1>7, <1>8

LEMMA ReachesProjected ==
    ASSUME NEW r \in SimRequest, NEW v \in View, acct \in Account,
           v["supplied"] = acct.supplied, v["debt"] = acct.debt,
           r.protocol = "compound-v3" => CometOk(acct),
           Takes(r), ~CometRefuses(v, r),
           r.protocol = "aave-v3" =>
               AccountAfter(r).enabled = {x \in Assets : AccountAfter(r).supplied[x] > 0},
           NEW h, h = HealthOf(r.protocol, Projected(v, r)),
           NEW g, g = Stands(r.protocol, AccountAfter(r), v["price"], Factor)
    PROVE  /\ h \in Health /\ g \in Health
           /\ NoHealthier(h, g)
           /\ r.action # "borrow" => SameHealth(h, g)
<1>1. /\ r.protocol \in Protocols /\ Base \in Assets /\ Factor \in Nat
      /\ Projected(v, r) \in View /\ Projected(v, r)["price"] = v["price"]
      /\ AccountAfter(r) \in Account
      /\ r.protocol = "compound-v3" => CometOk(AccountAfter(r))
  BY SimAsks, SimAssumption, AccountStays, ProjectedIsView
<1>2. PICK b \in Account, w \in View : b = AccountAfter(r) /\ w = Projected(v, r) /\ w["price"] = v["price"]
  BY <1>1
<1>3. w["price"] \in [Assets -> Nat] /\ w["supplied"] \in [Assets -> Nat] /\ w["debt"] \in [Assets -> Nat]
  BY DEF View, Fields
<1>4. g \in Health
  BY <1>1, <1>2, <1>3, StandsIsHealth
<1>5. ASSUME h = g
      PROVE  /\ h \in Health /\ g \in Health
             /\ NoHealthier(h, g)
             /\ r.action # "borrow" => SameHealth(h, g)
  <2>1. PICK x \in Nat, y \in Nat : x = g.backing /\ y = g.debt
    BY <1>4 DEF Health
  <2> QED BY <1>4, <1>5, <2>1 DEF NoHealthier, SameHealth
<1>6. CASE r.protocol = "aave-v3"
  <2>1. w["supplied"] = b.supplied /\ w["debt"] = b.debt
    BY <1>2, <1>6, ProjectsPool
  <2>2. HealthOf(r.protocol, w) = Stands(r.protocol, b, w["price"], Factor)
    BY <1>1, <1>2, <1>6, <2>1, HealthIsStanding
  <2> QED BY <1>2, <1>5, <2>2
<1>7. CASE r.protocol = "compound-v3"
  <2>1. /\ \A x \in Others : w["supplied"][x] = b.supplied[x] /\ b.debt[x] = 0
        /\ b.debt[Base] <= w["debt"][Base]
        /\ r.action # "borrow" => b.debt[Base] = w["debt"][Base]
    BY <1>1, <1>2, <1>7, ProjectsComet DEF CometOk
  <2>2. CASE b.debt[Base] = w["debt"][Base]
    <3>1. HealthOf(r.protocol, w) = Stands(r.protocol, b, w["price"], Factor)
      BY <1>1, <1>2, <1>7, <2>1, <2>2, HealthIsStanding
    <3> QED BY <1>2, <1>5, <3>1
  <2>3. CASE b.debt[Base] # w["debt"][Base]
    <3>1. PICK u \in View : u = [w EXCEPT !.debt = b.debt]
      BY DEF View, Fields, Account
    <3>2. u["supplied"] = w["supplied"] /\ u["debt"] = b.debt /\ u["price"] = w["price"]
      BY <3>1 DEF View, Fields
    <3>3. g = HealthOf(r.protocol, u)
      BY <1>1, <1>2, <1>7, <2>1, <3>2, HealthIsStanding
    <3>4. PICK n \in Nat, m \in Nat, p \in Nat : /\ n = b.debt[Base] /\ m = w["debt"][Base] /\ n <= m
                                                 /\ p = w["price"][Base]
      BY <1>1, <1>3, <2>1 DEF Account
    <3>5. /\ Total(u["debt"], u["price"], {Base}) = n * p
          /\ Total(w["debt"], w["price"], {Base}) = m * p
      <4>1. ASSUME NEW of \in [Assets -> Nat]
            PROVE  Total(of, w["price"], {Base}) = of[Base] * w["price"][Base]
        <5>1. PICK o \in [{Base} -> Nat] : o = [x \in {Base} |-> of[Base]]
          BY <1>1
        <5>2. PICK c \in [{Base} -> Nat] : c = [x \in {Base} |-> w["price"][Base]]
          BY <1>1, <1>3
        <5>3. IsFiniteSet({Base}) /\ Base \in {Base}
          BY FS_Singleton
        <5>4. Total(o, c, {Base}) = o[Base] * c[Base]
          BY <5>3, Totals
        <5>5. Total(of, w["price"], {Base}) = Total(o, c, {Base})
          BY <5>1, <5>2, <5>3, SameTotal
        <5> QED BY <5>1, <5>2, <5>4, <5>5
      <4> QED BY <1>3, <3>2, <3>4, <4>1 DEF Account
    <3>6. PICK k \in Nat : k = Factor * Total(w["supplied"], w["price"], Others)
      <4>1. PICK o \in [Others -> Nat] : o = [x \in Others |-> w["supplied"][x]]
        BY <1>3 DEF Others
      <4>2. PICK c \in [Others -> Nat] : c = [x \in Others |-> w["price"][x]]
        BY <1>3 DEF Others
      <4>3. IsFiniteSet(Others)
        BY SimAssumption, FS_Subset DEF Others
      <4>4. Total(o, c, Others) \in Nat
        BY <4>3, Totals
      <4>5. Total(w["supplied"], w["price"], Others) = Total(o, c, Others)
        BY <4>1, <4>2, <4>3, SameTotal
      <4> QED BY <1>1, <4>4, <4>5, Products
    <3>7. PICK x \in Nat, y \in Nat : x = n * p /\ y = m * p
      BY Products
    <3>8. x <= y
      BY <3>4, <3>7, Times
    <3>9. h = [backing |-> k, debt |-> 100 * y] /\ g = [backing |-> k, debt |-> 100 * x]
      BY <1>2, <1>7, <3>2, <3>3, <3>5, <3>6, <3>7 DEF HealthOf, computeCompoundCollateralization
    <3>10. k * (100 * x) <= k * (100 * y)
      BY <3>8, Times
    <3>11. NoHealthier(h, g)
      BY <3>8, <3>9, <3>10 DEF NoHealthier
    <3> QED BY <1>4, <2>1, <2>3, <3>9, <3>11 DEF Health
  <2> QED BY <2>2, <2>3
<1> QED BY <1>1, <1>6, <1>7 DEF Protocols

\* A warning is given where the change leads into danger.
LEMMA NoWarning ==
    ASSUME NEW s, s.before \in Health, s.after \in Health,
           warning(s) = "none", classifyLiquidationRisk(s.before) # "danger"
    PROVE  s.after.debt = 0 \/ 10 * s.after.backing >= 11 * s.after.debt
<1>1. classifyLiquidationRisk(s.after) # "danger"
  BY DEF warning
<1>2. PICK x \in Nat, y \in Nat : x = s.after.backing /\ y = s.after.debt
  BY DEF Health
<1>3. SUFFICES ASSUME y > 0, 10 * x < 11 * y PROVE FALSE
  BY <1>2
<1>4. 2 * x < 3 * y /\ ~(10 * x >= 11 * y) /\ y # 0
  BY <1>3
<1>5. classifyLiquidationRisk(s.after) = "danger"
  BY <1>2, <1>3, <1>4 DEF classifyLiquidationRisk
<1> QED BY <1>1, <1>5

\* An account that is no worse than one out of danger is not liquidated.
LEMMA OutOfDanger ==
    ASSUME NEW protocol \in Protocols, NEW a \in Account, NEW prices \in [Assets -> Nat],
           NEW h \in Health, h.debt = 0 \/ 10 * h.backing >= 11 * h.debt,
           NoHealthier(h, Stands(protocol, a, prices, Factor)),
           NEW percent \in {Factor, EModeFactor, LiquidateFactor}, NEW g, g = Stands(protocol, a, prices, percent)
    PROVE  ~(g.debt > 0 /\ g.backing < g.debt)
<1>1. Factor \in Nat /\ percent \in Nat /\ Factor <= percent
  BY SimAssumption
<1>5. PICK b \in Nat, c \in Nat, d \in Nat :
         /\ b <= c
         /\ Stands(protocol, a, prices, Factor) = [backing |-> b, debt |-> d]
         /\ g = [backing |-> c, debt |-> d]
  BY <1>1, Widens
<1>6. b <= c
  BY <1>5
<1>7. PICK x \in Nat, y \in Nat : x = h.backing /\ y = h.debt
  BY DEF Health
<1>8. SUFFICES ASSUME d > 0, c < d PROVE FALSE
  BY <1>5
<1>9. y > 0 /\ x * d <= b * y /\ 10 * x >= 11 * y
  BY <1>5, <1>7, <1>8 DEF NoHealthier
<1>10. b + 1 <= d
  BY <1>6, <1>8
<1>11. PICK xd \in Nat, yd \in Nat, yb \in Nat : xd = x * d /\ yd = y * d /\ yb = b * y
  BY Products
<1>12. (11 * y) * d <= (10 * x) * d
  BY <1>9, Times
<1>13. 11 * yd <= 10 * xd
  BY <1>11, <1>12
<1>14. b * y <= d * y
  BY <1>10, Times
<1>15. yb <= yd /\ xd <= yb
  BY <1>9, <1>11, <1>14
<1>16. yd > 0
  BY <1>8, <1>9, <1>11
<1> QED BY <1>13, <1>15, <1>16

\* Outside eMode an account stands at the reserves' thresholds, and in it no worse.
LEMMA EModeWidens ==
    ASSUME NEW protocol \in Protocols, NEW a \in Account, NEW prices \in [Assets -> Nat],
           NEW h \in Health, NoHealthier(h, Stands(protocol, a, prices, Factor))
    PROVE  /\ Threshold(a) \in Nat
           /\ ~a.emode => Threshold(a) = Factor
           /\ NoHealthier(h, Stands(protocol, a, prices, Threshold(a)))
<1>1. PICK percent \in Nat : percent = Threshold(a) /\ Factor \in Nat /\ Factor <= percent
  BY SimAssumption DEF Threshold
<1>2. PICK b \in Nat, c \in Nat, d \in Nat :
         /\ b <= c
         /\ Stands(protocol, a, prices, Factor) = [backing |-> b, debt |-> d]
         /\ Stands(protocol, a, prices, percent) = [backing |-> c, debt |-> d]
  BY <1>1, Widens
<1>3. PICK x \in Nat, y \in Nat : x = h.backing /\ y = h.debt
  BY DEF Health
<1>4. b * y <= c * y
  BY <1>2, Times
<1>5. PICK m \in Nat, n \in Nat, k \in Nat : m = b * y /\ n = c * y /\ k = x * d
  BY Products
<1>6. d = 0 \/ (y > 0 /\ k <= m)
  BY <1>2, <1>3, <1>5 DEF NoHealthier
<1>7. d = 0 \/ (y > 0 /\ k <= n)
  BY <1>4, <1>5, <1>6
<1>8. NoHealthier(h, Stands(protocol, a, prices, percent))
  BY <1>2, <1>3, <1>5, <1>7 DEF NoHealthier
<1> QED BY <1>1, <1>8 DEF Threshold

-----------------------------------------------------------------------------
(* The invariant                                                            *)

\* A change that was made led where the simulation said.
Reached ==
    ~sim.blind /\ Counted /\ sim.still =>
        LET stands == Standing(sim.req.protocol, acct, Threshold(acct)) IN
        /\ NoHealthier(sim.after, stands)
        /\ sim.req.action # "borrow" /\ ~acct.emode => SameHealth(sim.after, stands)
        /\ warning(sim) = "none" /\ classifyLiquidationRisk(sim.before) # "danger" =>
              ~Liquidatable(sim.req.protocol)

\* An answer is about the account as it was read.
SimInv ==
    /\ SimTypeOK
    /\ sim.req.protocol = "compound-v3" => CometOk(acct)
    /\ sim.pc = "answered" /\ ~sim.blind =>
          sim.before = HealthOf(sim.req.protocol, sim.seen)
    /\ sim.pc = "answered" /\ ~sim.blind /\ sim.req.tool = "simulate_position_change" =>
          /\ sim.after = HealthOf(sim.req.protocol, Projected(sim.seen, sim.req))
          /\ ~CometRefuses(sim.seen, sim.req)
    /\ sim.pc = "done" => Reached

Batch == SUBSET SUBSET (Fields \X Assets)

LEMMA BatchesAre ==
    ASSUME NEW protocol \in Protocols
    PROVE  Batches(protocol) \in Seq(Batch)
<1>1. Base \in Assets /\ Others \subseteq Assets
  BY SimAssumption DEF Others
<1>2. /\ {{"price"} \X Assets, {"supplied", "debt"} \X Assets} \in Batch
      /\ {{<<"supplied", Base>>}, {<<"debt", Base>>}} \in Batch
      /\ {{<<"price", Base>>}} \in Batch
  BY <1>1 DEF Batch, Fields
<1>3. {{<<f, a>>} : f \in {"supplied", "price"}, a \in Others} \in Batch
  BY <1>1 DEF Batch, Fields
<1> HIDE DEF Batch
<1> QED BY <1>2, <1>3 DEF Batches

LEMMA NoHealthIs == NoHealth \in Health
BY DEF NoHealth, Health

LEMMA SimStarts == SimInit => SimInv
<1> SUFFICES ASSUME SimInit PROVE SimInv
  OBVIOUS
<1>1. PICK r \in SimRequests : AccountOk(r.protocol, acct) /\ sim = SimAsked(r)
  BY DEF SimInit
<1>2. r.protocol \in Protocols /\ r \in SimRequest
  BY SimAsks, SimAssumption
<1>3. sim \in Sim
  <2>1. Batches(r.protocol) \in Seq(SUBSET SUBSET (Fields \X Assets))
    BY <1>2, BatchesAre DEF Batch
  <2>2. [f \in Fields |-> [a \in Assets |-> 0]] \in View
    BY DEF View
  <2> QED BY <1>1, <1>2, <2>1, <2>2, NoHealthIs DEF SimAsked, Sim
<1>4. /\ acct \in [supplied : [Assets -> Nat], debt : [Assets -> Nat], enabled : SUBSET Assets,
                    emode : BOOLEAN]
      /\ price \in [Assets -> Prices] /\ simMoves \in 0..MaxSimMoves
  BY SimAssumption DEF SimInit
<1>5. r.protocol = "compound-v3" => CometOk(acct)
  BY <1>1 DEF AccountOk, CometOk
<1>6. sim.pc = "reading" /\ sim.req = r
  BY <1>1 DEF SimAsked
<1> QED BY <1>3, <1>4, <1>5, <1>6 DEF SimInv, SimTypeOK

LEMMA NowIsView ==
    ASSUME SimTypeOK
    PROVE  /\ Now \in View /\ Now["supplied"] = acct.supplied /\ Now["debt"] = acct.debt
           /\ Now["price"] = price /\ price \in [Assets -> Nat] /\ acct \in Account
BY SimAssumption DEF SimTypeOK, Now, View, Fields, Account

LEMMA ReadSteps ==
    ASSUME SimInv, ReadPart \/ ReadPartFails
    PROVE  SimInv'
<1>1. sim \in Sim /\ sim.pc = "reading" /\ sim.reads # <<>> /\ UNCHANGED <<acct, price, simMoves>>
  <2>1. sim \in Sim
    BY DEF SimInv, SimTypeOK
  <2>2. sim.pc = "reading" /\ sim.reads # <<>> /\ UNCHANGED <<acct, price, simMoves>>
    BY Zenon DEF ReadPart, ReadPartFails
  <2> QED BY <2>1, <2>2
<1>2. sim.reads \in Seq(SUBSET SUBSET (Fields \X Assets)) /\ sim.seen \in View
  BY <1>1 DEF Sim
<1>3. sim'.pc \in {"reading", "error"} /\ sim'.req = sim.req /\ sim' \in Sim
  <2>1. CASE ReadPart
    <3>1. PICK part \in Head(sim.reads) :
            sim' = [sim EXCEPT
               !.seen = [f \in Fields |-> [a \in Assets |-> IF <<f, a>> \in part
                                                            THEN Now[f][a] ELSE @[f][a]]],
               !.reads = IF Head(@) = {part} THEN Tail(@) ELSE <<Head(@) \ {part}>> \o Tail(@)]
      BY <2>1 DEF ReadPart
    <3>2. PICK seen \in View :
            seen = [f \in Fields |-> [a \in Assets |-> IF <<f, a>> \in part
                                                       THEN Now[f][a] ELSE sim.seen[f][a]]]
      BY <1>2, NowIsView DEF View, SimInv
    <3>3. PICK reads \in Seq(SUBSET SUBSET (Fields \X Assets)) :
            reads = IF Head(sim.reads) = {part} THEN Tail(sim.reads)
                    ELSE <<Head(sim.reads) \ {part}>> \o Tail(sim.reads)
      <4> DEFINE B == SUBSET SUBSET (Fields \X Assets)
      <4>1. PICK rest, first : rest = Tail(sim.reads) /\ first = Head(sim.reads) \ {part}
        OBVIOUS
      <4>2. rest \in Seq(B) /\ first \in B
        BY <1>1, <1>2, <4>1
      <4> HIDE DEF B
      <4>3. <<first>> \o rest \in Seq(B)
        BY <4>2
      <4> QED BY <4>1, <4>2, <4>3 DEF B
    <3>4. sim' = [sim EXCEPT !.seen = sim'.seen, !.reads = sim'.reads]
      BY <1>1, <3>1 DEF Sim
    <3>5. sim'.seen = seen
      BY <1>1, <3>1, <3>2 DEF Sim
    <3>6. sim'.reads = reads
      BY <1>1, <3>1, <3>3 DEF Sim
    <3>7. sim' = [sim EXCEPT !.seen = seen, !.reads = reads]
      BY <3>4, <3>5, <3>6
    <3>8. sim' \in Sim /\ sim'.pc = sim.pc /\ sim'.req = sim.req
      BY <1>1, <3>7 DEF Sim
    <3> QED BY <1>1, <3>8
  <2>2. CASE ReadPartFails
    BY <1>1, <2>2 DEF ReadPartFails, Sim
  <2> QED BY <2>1, <2>2
<1> QED BY <1>1, <1>3 DEF SimInv, SimTypeOK, CometOk

LEMMA HealthIs ==
    ASSUME NEW protocol \in Protocols, NEW v \in View
    PROVE  HealthOf(protocol, v) \in Health
<1>1. /\ v["supplied"] \in [Assets -> Nat] /\ v["debt"] \in [Assets -> Nat]
      /\ v["price"] \in [Assets -> Nat]
  BY DEF View, Fields
<1>2. IsFiniteSet(Assets) /\ Factor \in Nat
  BY SimAssumption
<1>3. ASSUME NEW over \in SUBSET Assets, NEW of \in [Assets -> Nat]
      PROVE  Total(of, v["price"], over) \in Nat
  <2>1. IsFiniteSet(over)
    BY <1>2, FS_Subset
  <2>2. PICK s \in [over -> Nat] : s = [x \in over |-> of[x]]
    OBVIOUS
  <2>3. PICK p \in [over -> Nat] : p = [x \in over |-> v["price"][x]]
    BY <1>1
  <2>4. Total(s, p, over) \in Nat
    BY <2>1, Totals
  <2>5. Total(of, v["price"], over) = Total(s, p, over)
    BY <2>1, <2>2, <2>3, SameTotal
  <2> QED BY <2>4, <2>5
<1>4. Assets \in SUBSET Assets /\ Others \in SUBSET Assets /\ {Base} \in SUBSET Assets
  BY SimAssumption DEF Others
<1>5. computeHealthFactor(v) \in Health
  <2>1. PICK m \in Nat, n \in Nat : /\ m = Total(v["supplied"], v["price"], Assets)
                                    /\ n = Total(v["debt"], v["price"], Assets)
    BY <1>1, <1>3, <1>4
  <2> QED BY <1>2, <2>1, Products DEF computeHealthFactor, Health
<1>6. computeCompoundCollateralization(v) \in Health
  <2>1. PICK m \in Nat, n \in Nat : /\ m = Total(v["supplied"], v["price"], Others)
                                    /\ n = Total(v["debt"], v["price"], {Base})
    BY <1>1, <1>3, <1>4
  <2> QED BY <1>2, <2>1, Products DEF computeCompoundCollateralization, Health
<1> QED BY <1>5, <1>6 DEF HealthOf

LEMMA AnswerSteps ==
    ASSUME SimInv, Answer
    PROVE  SimInv'
<1>1. /\ sim \in Sim /\ sim.pc = "reading" /\ UNCHANGED <<acct, price, simMoves>>
      /\ sim.req \in SimRequest /\ sim.req.protocol \in Protocols /\ sim.seen \in View
  BY DEF SimInv, SimTypeOK, Answer, Sim, SimRequest
<1>2. PICK blind \in BOOLEAN :
        LET v == IF blind THEN Blinded(sim.seen) ELSE sim.seen
            simulates == sim.req.tool = "simulate_position_change"
        IN sim' = IF simulates /\ CometRefuses(v, sim.req)
                  THEN [sim EXCEPT !.pc = "refused"]
                  ELSE [sim EXCEPT
                          !.pc = "answered", !.blind = blind,
                          !.before = HealthOf(sim.req.protocol, v),
                          !.after = IF simulates
                                    THEN HealthOf(sim.req.protocol, Projected(v, sim.req)) ELSE @]
  BY Zenon DEF Answer
<1>3. PICK v \in View : v = IF blind THEN Blinded(sim.seen) ELSE sim.seen
  <2>1. Blinded(sim.seen) \in View
    BY <1>1, SimAssumption DEF Blinded, View, Fields
  <2> QED BY <1>1, <2>1
<1>4. /\ SimTypeOK' /\ (sim.req.protocol = "compound-v3" => CometOk(acct)')
      /\ sim'.req = sim.req /\ sim'.pc \in {"refused", "answered"} /\ sim'.seen = sim.seen
      /\ sim'.pc = "answered" =>
            /\ sim'.blind = blind /\ sim'.before = HealthOf(sim.req.protocol, v)
            /\ sim.req.tool = "simulate_position_change" =>
                  /\ sim'.after = HealthOf(sim.req.protocol, Projected(v, sim.req))
                  /\ ~CometRefuses(v, sim.req)
  <2>1. (sim.req.protocol = "compound-v3" => CometOk(acct)') /\ (sim' \in Sim => SimTypeOK')
    BY <1>1 DEF SimInv, SimTypeOK, CometOk
  <2>2. PICK before \in Health : before = HealthOf(sim.req.protocol, v)
    BY <1>1, HealthIs
  <2>3. PICK after \in Health : after = IF sim.req.tool = "simulate_position_change"
                                       THEN HealthOf(sim.req.protocol, Projected(v, sim.req))
                                       ELSE sim.after
    <3>1. HealthOf(sim.req.protocol, Projected(v, sim.req)) \in Health
      BY <1>1, ProjectedIsView, HealthIs
    <3> QED BY <1>1, <3>1 DEF Sim
  <2>4. CASE sim.req.tool = "simulate_position_change" /\ CometRefuses(v, sim.req)
    <3>1. sim' = [sim EXCEPT !.pc = "refused"]
      BY <1>2, <1>3, <2>4, Zenon
    <3> QED BY <1>1, <2>1, <3>1 DEF Sim
  <2>5. CASE ~(sim.req.tool = "simulate_position_change" /\ CometRefuses(v, sim.req))
    <3>1. sim' = [sim EXCEPT !.pc = "answered", !.blind = blind, !.before = before, !.after = after]
      BY <1>2, <1>3, <2>2, <2>3, <2>5
    <3> QED BY <1>1, <2>1, <2>2, <2>3, <2>5, <3>1 DEF Sim
  <2> QED BY <2>4, <2>5
<1>5. ASSUME sim'.pc = "answered", ~sim'.blind
      PROVE  /\ sim'.before = HealthOf(sim'.req.protocol, sim'.seen)
             /\ sim'.req.tool = "simulate_position_change" =>
                   /\ sim'.after = HealthOf(sim'.req.protocol, Projected(sim'.seen, sim'.req))
                   /\ ~CometRefuses(sim'.seen, sim'.req)
  <2>1. sim'.blind = blind
    BY <1>4, <1>5
  <2>2. ~blind
    BY <1>5, <2>1, Zenon
  <2>3. v = sim'.seen /\ sim'.req = sim.req
    BY <1>3, <1>4, <2>2
  <2> QED BY <1>4, <1>5, <2>3
<1>6. sim'.pc # "done" /\ sim'.req = sim.req
  BY <1>4
<1> QED BY <1>4, <1>5, <1>6 DEF SimInv

LEMMA ChangeSteps ==
    ASSUME SimInv, Change
    PROVE  SimInv'
<1>1. /\ sim \in Sim /\ sim.pc = "answered" /\ UNCHANGED <<price, simMoves>>
      /\ sim.req \in SimRequest /\ sim.req.protocol \in Protocols /\ sim.seen \in View
      /\ sim.req.tool = "simulate_position_change"
      /\ acct \in Account /\ price \in [Assets -> Nat] /\ price \in [Assets -> Prices]
      /\ simMoves \in 0..MaxSimMoves
      /\ sim.req.protocol = "compound-v3" => CometOk(acct)
  BY NowIsView DEF SimInv, SimTypeOK, Change, Sim, SimRequest
<1>2. CASE sim' = [sim EXCEPT !.pc = "reverted"] /\ UNCHANGED acct
  <2>1. sim' \in Sim /\ sim'.pc = "reverted" /\ sim'.req = sim.req
    BY <1>1, <1>2 DEF Sim
  <2> QED BY <1>1, <1>2, <2>1 DEF SimInv, SimTypeOK, CometOk, Account
<1>3. CASE /\ Takes(sim.req) /\ acct' = AccountAfter(sim.req)
           /\ sim' = [sim EXCEPT !.pc = "done", !.still = (sim.seen = Now)]
  <2>1. /\ sim' \in Sim /\ sim'.pc = "done" /\ sim'.req = sim.req /\ sim'.blind = sim.blind
        /\ sim'.before = sim.before /\ sim'.after = sim.after /\ sim'.still = (sim.seen = Now)
    BY <1>1, <1>3 DEF Sim
  <2>2. acct' \in Account /\ (sim.req.protocol = "compound-v3" => CometOk(acct'))
    BY <1>1, <1>3, AccountStays
  <2>3. SimTypeOK' /\ (sim'.req.protocol = "compound-v3" => CometOk(acct)')
    BY <1>1, <2>1, <2>2 DEF SimTypeOK, Account, CometOk
  <2>4. ASSUME ~sim'.blind, Counted', sim'.still
        PROVE  /\ NoHealthier(sim.after, Stands(sim.req.protocol, acct', price, Factor))
               /\ sim.req.action # "borrow" =>
                     SameHealth(sim.after, Stands(sim.req.protocol, acct', price, Factor))
               /\ sim.after \in Health /\ sim.before \in Health
    <3>1. /\ ~sim.blind /\ sim.seen["supplied"] = acct.supplied /\ sim.seen["debt"] = acct.debt
          /\ sim.seen["price"] = price
      BY <2>1, <2>4, NowIsView DEF SimInv
    <3>2. /\ sim.after = HealthOf(sim.req.protocol, Projected(sim.seen, sim.req))
          /\ ~CometRefuses(sim.seen, sim.req)
      BY <1>1, <3>1 DEF SimInv
    <3>3. sim.req.protocol = "aave-v3" =>
             AccountAfter(sim.req).enabled = {x \in Assets : AccountAfter(sim.req).supplied[x] > 0}
      BY <1>3, <2>1, <2>4 DEF Counted
    <3>4. PICK g : g = Stands(sim.req.protocol, AccountAfter(sim.req), sim.seen["price"], Factor)
      OBVIOUS
    <3>5. /\ NoHealthier(sim.after, g)
          /\ sim.req.action # "borrow" => SameHealth(sim.after, g)
      BY <1>1, <1>3, <3>1, <3>2, <3>3, <3>4, ReachesProjected
    <3> QED BY <1>1, <1>3, <3>1, <3>4, <3>5 DEF Sim
  <2>5. ASSUME NEW percent
        PROVE  Standing(sim.req.protocol, acct, percent)' = Stands(sim.req.protocol, acct', price, percent)
    BY <1>1, <2>1 DEF Standing, Stands
  <2>6. Reached'
    <3>1. SUFFICES ASSUME ~sim'.blind, Counted', sim'.still
                   PROVE  LET stands == Standing(sim.req.protocol, acct, Threshold(acct))' IN
                          /\ NoHealthier(sim.after, stands)
                          /\ sim.req.action # "borrow" /\ ~acct'.emode => SameHealth(sim.after, stands)
                          /\ (warning(sim)' = "none" /\ classifyLiquidationRisk(sim.before) # "danger") =>
                                ~Liquidatable(sim.req.protocol)'
      BY <2>1 DEF Reached
    <3>2. PICK h : h = Stands(sim.req.protocol, acct', price, Factor)
      OBVIOUS
    <3>3. /\ NoHealthier(sim.after, h) /\ (sim.req.action # "borrow" => SameHealth(sim.after, h))
          /\ sim.after \in Health /\ sim.before \in Health
      BY <2>4, <3>1, <3>2
    <3>4. PICK t : t = Threshold(acct')
      OBVIOUS
    <3>5. /\ t \in Nat /\ (~acct'.emode => t = Factor)
          /\ NoHealthier(sim.after, Stands(sim.req.protocol, acct', price, t))
      BY <1>1, <2>2, <3>2, <3>3, <3>4, EModeWidens
    <3>6. Standing(sim.req.protocol, acct, Threshold(acct))' = Stands(sim.req.protocol, acct', price, t)
      BY <1>1, <2>1, <3>4 DEF Standing, Stands, Threshold
    <3>7. ASSUME warning(sim)' = "none", classifyLiquidationRisk(sim.before) # "danger"
          PROVE  ~Liquidatable(sim.req.protocol)'
      <4>1. sim.after.debt = 0 \/ 10 * sim.after.backing >= 11 * sim.after.debt
        <5>1. sim'.before \in Health /\ sim'.after \in Health
          BY <2>1, <3>3
        <5>2. warning(sim') = "none" /\ classifyLiquidationRisk(sim'.before) # "danger"
          BY <2>1, <3>7
        <5>3. sim'.after.debt = 0 \/ 10 * sim'.after.backing >= 11 * sim'.after.debt
          BY <5>1, <5>2, NoWarning
        <5> QED BY <2>1, <5>3
      <4>2. PICK percent \in {Factor, EModeFactor, LiquidateFactor} :
              percent = IF sim.req.protocol = "aave-v3" THEN t ELSE LiquidateFactor
        BY <3>4 DEF Threshold
      <4>3. PICK g : g = Stands(sim.req.protocol, acct', price, percent)
        OBVIOUS
      <4>4. ~(g.debt > 0 /\ g.backing < g.debt)
        BY <1>1, <2>2, <3>2, <3>3, <4>1, <4>3, OutOfDanger
      <4>5. Liquidatable(sim.req.protocol)' => g.debt > 0 /\ g.backing < g.debt
        <5>1. Liquidatable(sim.req.protocol)' =
                 LET k == Stands(sim.req.protocol, acct', price, percent)
                 IN k.debt > 0 /\ k.backing < k.debt
          BY <1>1, <2>1, <3>4, <4>2 DEF Liquidatable, Standing, Stands, Threshold
        <5> QED BY <4>3, <5>1
      <4> QED BY <4>4, <4>5
    <3> QED BY <3>2, <3>3, <3>5, <3>6, <3>7
  <2> QED BY <2>1, <2>3, <2>6 DEF SimInv
<1> QED BY <1>2, <1>3 DEF Change

LEMMA MoveSteps ==
    ASSUME SimInv, PriceMoves \/ AccountMoves
    PROVE  SimInv'
<1>1. /\ sim' = sim /\ sim.pc # "done" /\ sim \in Sim
      /\ acct \in Account /\ price \in [Assets -> Prices]
      /\ simMoves \in 0..MaxSimMoves /\ simMoves < MaxSimMoves /\ simMoves' = simMoves + 1
      /\ sim.req.protocol = "compound-v3" => CometOk(acct)
  BY DEF SimInv, SimTypeOK, PriceMoves, AccountMoves, Moving, Account
<1>2. simMoves' \in 0..MaxSimMoves
  BY <1>1, SimAssumption
<1>3. acct' \in Account /\ (sim.req.protocol = "compound-v3" => CometOk(acct'))
  <2>1. CASE PriceMoves
    BY <1>1, <2>1 DEF PriceMoves
  <2>2. CASE AccountMoves
    <3>1. ASSUME NEW r \in SimRequests, r.protocol = sim.req.protocol, Takes(r),
                 acct' = AccountAfter(r)
          PROVE  acct' \in Account /\ (sim.req.protocol = "compound-v3" => CometOk(acct'))
      <4>1. r \in SimRequest
        BY SimAssumption
      <4> QED BY <1>1, <3>1, <4>1, AccountStays
    <3>2. CASE sim.req.protocol = "aave-v3" /\ acct' = [acct EXCEPT !.emode = ~@]
      BY <1>1, <3>2 DEF Account
    <3> QED BY <2>2, <3>1, <3>2 DEF AccountMoves
  <2> QED BY <2>1, <2>2
<1>4. price' \in [Assets -> Prices]
  BY <1>1 DEF PriceMoves, AccountMoves
<1> QED BY <1>1, <1>2, <1>3, <1>4 DEF SimInv, SimTypeOK, CometOk, Account

LEMMA SimStays ==
    ASSUME SimInv, UNCHANGED simVars
    PROVE  SimInv'
<1>1. sim' = sim /\ acct' = acct /\ price' = price /\ simMoves' = simMoves
  BY DEF simVars
<1>2. SimTypeOK' /\ CometOk(acct)' = CometOk(acct)
  BY <1>1 DEF SimInv, SimTypeOK, CometOk
<1>3. Reached' = Reached
  BY <1>1 DEF Reached, Counted, Standing, Liquidatable, Threshold
<1> QED BY <1>1, <1>2, <1>3 DEF SimInv

LEMMA SimSteps ==
    ASSUME SimInv, SimNext \/ UNCHANGED simVars
    PROVE  SimInv'
BY ReadSteps, AnswerSteps, ChangeSteps, MoveSteps, SimStays DEF SimNext

LEMMA SimInvShows == SimInv => ShownIsReached
<1> SUFFICES ASSUME SimInv, ~sim.blind, Counted PROVE ShownIsReached
  BY DEF ShownIsReached
<1>1. /\ sim.req.protocol \in Protocols /\ sim.seen \in View /\ sim.before \in Health
      /\ acct \in Account /\ Factor \in Nat
      /\ sim.req.protocol = "compound-v3" => CometOk(acct)
  BY NowIsView, SimAssumption DEF SimInv, SimTypeOK, Sim, SimRequest
<1>2. ASSUME sim.pc = "answered", sim.seen = Now
      PROVE  LET stands == Standing(sim.req.protocol, acct, Threshold(acct)) IN
             /\ NoHealthier(sim.before, stands)
             /\ ~acct.emode => SameHealth(sim.before, stands)
  <2>1. /\ sim.seen["supplied"] = acct.supplied /\ sim.seen["debt"] = acct.debt
        /\ sim.seen["price"] = price /\ price \in [Assets -> Nat]
    BY <1>2, NowIsView DEF SimInv
  <2>2. sim.before = HealthOf(sim.req.protocol, sim.seen)
    BY <1>2 DEF SimInv
  <2>3. HealthOf(sim.req.protocol, sim.seen) = Stands(sim.req.protocol, acct, price, Factor)
    BY <1>1, <2>1, HealthIsStanding DEF Counted, CometOk
  <2>4. sim.before = Stands(sim.req.protocol, acct, price, Factor)
    BY <2>2, <2>3
  <2>5. /\ NoHealthier(sim.before, Stands(sim.req.protocol, acct, price, Factor))
        /\ SameHealth(sim.before, Stands(sim.req.protocol, acct, price, Factor))
    BY <1>1, <2>4 DEF SameHealth, NoHealthier, Health
  <2>6. /\ ~acct.emode => Threshold(acct) = Factor
        /\ NoHealthier(sim.before, Stands(sim.req.protocol, acct, price, Threshold(acct)))
    BY <1>1, <2>1, <2>5, EModeWidens
  <2>7. Standing(sim.req.protocol, acct, Threshold(acct))
           = Stands(sim.req.protocol, acct, price, Threshold(acct))
    BY DEF Standing, Stands
  <2> QED BY <2>5, <2>6, <2>7
<1>3. sim.pc = "done" => Reached
  BY DEF SimInv
<1> QED BY <1>2, <1>3 DEF ShownIsReached, Reached

\* The types of the simulation's state.
THEOREM SimTypeCorrect == SimSpec => []SimTypeOK
<1>1. SimInv /\ [SimNext]_simVars => SimInv'
  BY SimSteps
<1>2. SimInv => SimTypeOK
  BY DEF SimInv
<1> QED BY SimStarts, <1>1, <1>2, PTL DEF SimSpec

\* simulate_position_change and get_lending_positions show the health that the account has,
\* or, of one in eMode, never a better one, and the change leads where the simulation said,
\* or where the account is better off: for every number of assets, every price and threshold.
THEOREM SimulationsAreReached == SimSpec => []ShownIsReached
<1>1. SimInv /\ [SimNext]_simVars => SimInv'
  BY SimSteps
<1> QED BY SimStarts, <1>1, SimInvShows, PTL DEF SimSpec

\* The same of the tools side by side.
THEOREM ToolsReachWhatTheyShow == LendingToolsSpec => []ShownIsReached
<1> DEFINE Inv == sim.pc = "idle" \/ SimInv
<1>1. LendingToolsInit => Inv
  BY SimStarts DEF LendingToolsInit, SimRests, SimAsked
<1>2. Inv /\ [LendingToolsNext]_<<vars, scanVars, simVars>> => Inv'
  <2> SUFFICES ASSUME Inv, [LendingToolsNext]_<<vars, scanVars, simVars>> PROVE Inv'
    OBVIOUS
  <2>1. CASE sim.pc # "idle" /\ SimNext
    BY <2>1, SimSteps
  <2>2. CASE UNCHANGED simVars
    <3>1. sim' = sim
      BY <2>2 DEF simVars
    <3> QED BY <2>2, <3>1, SimSteps
  <2> QED BY <2>1, <2>2 DEF LendingToolsNext
<1>3. Inv => ShownIsReached
  BY SimInvShows DEF ShownIsReached
<1> QED BY <1>1, <1>2, <1>3, PTL DEF LendingToolsSpec
=============================================================================
