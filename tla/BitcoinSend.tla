---------------------------- MODULE BitcoinSend -----------------------------
(***************************************************************************)
(* The tools that build a Bitcoin or Litecoin transaction:                  *)
(* prepare_btc_send, prepare_litecoin_native_send and prepare_btc_rbf_bump, *)
(* with the caches they read through, on a chain that other wallets of the  *)
(* same keys use too.                                                       *)
(*                                                                         *)
(* One call runs at a time: calls share the caches only, and a prepared     *)
(* transaction stays for later steps to meet.  How it is previewed, signed  *)
(* and sent is the business of BitcoinPay: here it is sent in one step.     *)
(***************************************************************************)
EXTENDS CoinSelect, Sequences, SequencesExt

CONSTANTS
    FirstCoins, \* confirmed coins of the receive addresses in the beginning
    Sends,      \* sends that may be asked for; override: with coins the caller lists
    Rates,      \* fee rates the network may estimate
    BumpRates,  \* fee rates a bump may name
    MaxTxs,     \* bound of the transactions of a behaviour
    MaxChange,  \* bound of the change addresses
    Nothing

ASSUME BitcoinAssumption ==
    /\ FirstCoins \subseteq [id : Nat, value : Nat, type : Types, from : {0}]
    /\ IsFiniteSet(FirstCoins)
    /\ \A c, d \in FirstCoins : c.id = d.id => c = d
    /\ Rates \subseteq Nat /\ BumpRates \subseteq Nat
    /\ Sends \subseteq [tool : {"send"}, target : Nat, rate : Nat \cup {Nothing}, recType : Types,
                        own : BOOLEAN, rbf : BOOLEAN, override : BOOLEAN]
    /\ MaxTxs \in Nat /\ MaxChange \in Nat

VARIABLES
    setting,    \* the network in use, and whether in demo mode
    call,       \* the call: what it asks, its pc, what it has read
    txs,        \* the transactions prepared, or made by another wallet
    utxoCache,  \* of esplora-client.ts: coins of an address, for 30 seconds
    infoCache,  \* of esplora-client.ts: whether a change address was used, for good
    scanCache   \* of xpub-scan.ts: the used change addresses, for 5 minutes

bitcoinVars == <<setting, call, txs, utxoCache, infoCache, scanCache>>
caches == <<utxoCache, infoCache, scanCache>>

Indexes == 0..MaxChange

-----------------------------------------------------------------------------
(* The chain.  An output pays someone else, the receive address of its type  *)
(* or a change address of it.                                                *)

Output(owner, index, value, type) == [owner |-> owner, index |-> index, value |-> value, type |-> type]

OutTypes(outs) == [i \in DOMAIN outs |-> outs[i].type]
OutSum(outs) == SumOver([i \in DOMAIN outs |-> outs[i].value])
Vsize(t) == Vbytes(t.ins, OutTypes(t.outs))

OnChain(i) == txs[i].status \in {"mempool", "confirmed"}

CoinOf(i, k) == [id |-> k, value |-> txs[i].outs[k].value, type |-> txs[i].outs[k].type, from |-> i]

Received ==
    UNION {{CoinOf(i, k) : k \in {k \in DOMAIN txs[i].outs : txs[i].outs[k].owner = "receive"}} :
           i \in {i \in DOMAIN txs : OnChain(i)}}

SpentCoins == UNION {txs[i].ins : i \in {i \in DOMAIN txs : OnChain(i)}}

Confirmed(c) == c.from # 0 => txs[c.from].status = "confirmed"

WalletCoins == FirstCoins \cup Received

Unspent == WalletCoins \ SpentCoins

Used(type) ==
    UNION {{o.index : o \in {txs[i].outs[k] : k \in DOMAIN txs[i].outs}
                        \cap [owner : {"change"}, index : Indexes, value : Nat, type : {type}]} :
           i \in {i \in DOMAIN txs : txs[i].status # "prepared"}}

-----------------------------------------------------------------------------
(* A call                                                                   *)

NoCall == [pc |-> "idle", req |-> Nothing, rate |-> 0, high |-> 0, ins |-> {}, change |-> 0, read |-> Nothing]

BitcoinInit ==
    /\ setting \in [net : {"btc", "ltc"}, demo : BOOLEAN]
    /\ call = NoCall
    /\ txs = <<>>
    /\ utxoCache = [t \in Types |-> Nothing]
    /\ infoCache = [t \in Types |-> [k \in Indexes |-> Nothing]]
    /\ scanCache = [t \in Types |-> Nothing]

\* An answered call leaves nothing behind.
Refuse == call' = NoCall /\ UNCHANGED txs

Make(t) == call' = NoCall /\ txs' = Append(txs, t)

\* utxoOverride: any coins the caller lists, spent ones and unconfirmed ones too.
Lists(s) == IF s.override
            THEN SUBSET {c \in WalletCoins : setting.net = "ltc" => c.type = "p2wpkh"}
            ELSE {Nothing}

SendRequests == UNION {{[s EXCEPT !.override = list] : list \in Lists(s)} : s \in Sends}

Requests == SendRequests \cup [tool : {"bump"}, of : DOMAIN txs, rate : BumpRates]

\* A Litecoin send pays a segwit address, and cannot signal that it may be replaced.
AskableLtc(r) == r.tool = "send" /\ r.recType = "p2wpkh" /\ ~r.rbf

Askable(r) == setting.net = "ltc" => AskableLtc(r)

Ask ==
    /\ call.pc = "idle"
    /\ Len(txs) < MaxTxs
    /\ \E r \in Requests :
         /\ Askable(r)
         /\ call' = [NoCall EXCEPT !.req = r, !.pc = IF r.tool = "bump" THEN "fetch"
                                                      ELSE IF setting.demo THEN "fees" ELSE "keys"]
    /\ UNCHANGED <<setting, txs, caches>>

-----------------------------------------------------------------------------
(* Selecting the coins, and the transaction of a send                        *)

ForfeitLimit == 10000

\* Change goes to the kind of address most of the coins come from; on a tie to taproot.
Dominant(ins) ==
    IF 2 * Cardinality({c \in ins : c.type = "p2wpkh"}) > Cardinality(ins) THEN "p2wpkh" ELSE "p2tr"

Transaction(tool, ins, outs, rate, rbf, keys, of, named) ==
    [tool |-> tool, ins |-> ins, outs |-> outs, fee |-> SumOf(ins) - OutSum(outs), rate |-> rate,
     rbf |-> rbf, keys |-> keys, of |-> of, named |-> named, status |-> "prepared"]

\* The coins that the caller named.
Named(r) == IF r.override = Nothing THEN {} ELSE r.override

Recipient(r) == Output(IF r.own THEN "receive" ELSE "them", 0, r.target, r.recType)

\* buildBtcPsbt refuses outputs that are dust; without change output the rest is fee.
BuildSend(ins, rate, changeOuts) ==
    Make(Transaction("send", ins, <<Recipient(call.req)>> \o changeOuts, rate, call.req.rbf,
                     "device", 0, Named(call.req)))

\* Selection and what follows without an await.  A demo persona has no extended key
\* to derive a change address from: its change goes to the fee.
SelectBtc(ins, rate, high) ==
    \E sel \in selectCoinsBnb(ins, call.req.target, rate, high, call.req.recType, "p2wpkh") :
       \/ ~sel.ok /\ Refuse
       \/ sel.ok /\ setting.demo /\ BuildSend(sel.ins, rate, <<>>)
       \/ /\ sel.ok /\ ~setting.demo
          /\ call' = [call EXCEPT !.pc = "index", !.rate = rate, !.ins = sel.ins, !.change = sel.change]
          /\ UNCHANGED txs

\* A Litecoin send has no change output, and gives up at most so much.
ForfeitsTooMuch(change) == change > ForfeitLimit

BuildLtcSend(ins, rate) == BuildSend(ins, rate, <<>>)

SelectLtc(ins, rate, high) ==
    \E sel \in selectCoinsBnb(ins, call.req.target, rate, high, "p2wpkh", "p2wpkh") :
       \/ (~sel.ok \/ ForfeitsTooMuch(sel.change)) /\ Refuse
       \/ sel.ok /\ ~ForfeitsTooMuch(sel.change) /\ BuildLtcSend(sel.ins, rate)

Select(ins, rate, high) ==
    \/ setting.net = "btc" /\ SelectBtc(ins, rate, high)
    \/ setting.net = "ltc" /\ SelectLtc(ins, rate, high)

-----------------------------------------------------------------------------
(* The steps of a send                                                       *)

\* The device shows both addresses; without a paired account, or when it is not
\* there, the call ends.
fetchBtcAddresses ==
    /\ call.pc = "keys" /\ setting.net = "btc"
    /\ \/ call' = [call EXCEPT !.pc = "fees"] /\ UNCHANGED txs
       \/ Refuse
    /\ UNCHANGED <<setting, caches>>

\* The same for the one address of Litecoin, with the app of that name open.
fetchLtcAddresses ==
    /\ call.pc = "keys" /\ setting.net = "ltc"
    /\ \/ call' = [call EXCEPT !.pc = "fees"] /\ UNCHANGED txs
       \/ Refuse
    /\ UNCHANGED <<setting, caches>>

\* The three-block estimate is the default rate, the one-block estimate the gauge.
Estimated(three, one) ==
    LET rate == IF call.req.rate = Nothing THEN three ELSE call.req.rate IN
    \/ call.req.override # Nothing /\ Select(call.req.override, rate, one)
    \/ /\ call.req.override = Nothing
       /\ call' = [call EXCEPT !.pc = "utxos", !.rate = rate, !.high = one]
       /\ UNCHANGED txs

\* The estimates are cached for a while, a failure too; 10 and 20 sat/vB stand in for
\* those that an answer lacks.
fetchFeeEstimates ==
    /\ call.pc = "fees" /\ setting.net = "btc"
    /\ \/ \E three \in Rates \cup {100}, one \in Rates \cup {200} : Estimated(three, one)
       \/ Refuse
    /\ UNCHANGED <<setting, caches>>

\* 1 litoshi/vB stands in for those of Litecoin.
fetchLtcFeeEstimates ==
    /\ call.pc = "fees" /\ setting.net = "ltc"
    /\ \/ \E three, one \in Rates \cup {10} : Estimated(three, one)
       \/ Refuse
    /\ UNCHANGED <<setting, caches>>

\* Mutant: coins still in the mempool are taken too.
SpendableAny(rows) == rows

\* Only confirmed coins are spent.
Spendable(rows) == {c \in rows : c.settled}

Plain(c) == [id |-> c.id, value |-> c.value, type |-> c.type, from |-> c.from]

\* A failed request counts as no coins, and is cached like an answer.
Rows(type, answered) ==
    IF utxoCache[type] # Nothing THEN utxoCache[type]
    ELSE IF type \in answered
    THEN {[id |-> c.id, value |-> c.value, type |-> c.type, from |-> c.from, settled |-> Confirmed(c)] :
            c \in {c \in Unspent : c.type = type}}
    ELSE {}

SelectOf(rows) ==
    LET ins == {Plain(c) : c \in Spendable(rows)} IN
    (ins = {} /\ Refuse) \/ (ins # {} /\ Select(ins, call.rate, call.high))

fetchAddressUtxos ==
    /\ call.pc = "utxos" /\ setting.net = "btc"
    /\ \E answered \in SUBSET Types :
         /\ utxoCache' = [t \in Types |-> Rows(t, answered)]
         /\ SelectOf(UNION {Rows(t, answered) : t \in Types})
    /\ UNCHANGED <<setting, infoCache, scanCache>>

\* Litecoin has one address.
LtcRows(answered) == Rows("p2wpkh", answered)

fetchLtcAddressUtxos ==
    /\ call.pc = "utxos" /\ setting.net = "ltc"
    /\ \E answered \in {{}, {"p2wpkh"}} :
         /\ utxoCache' = [utxoCache EXCEPT !["p2wpkh"] = LtcRows(answered)]
         /\ SelectOf(LtcRows(answered))
    /\ UNCHANGED <<setting, infoCache, scanCache>>

\* An address is looked up once: what the lookup said, a failure included, stays.
LookedUp(type, answered) ==
    [k \in Indexes |->
        IF infoCache[type][k] # Nothing THEN infoCache[type][k]
        ELSE IF k \notin answered THEN "failed"
        ELSE IF k \in Used(type) THEN "used" ELSE "empty"]

Active(looked) == {k \in Indexes : looked[k] = "used"}

NextIndex(active) == IF active = {} THEN 0 ELSE Max(active) + 1

\* The gap of 20 empty addresses that ends a scan is more than the bound of indexes.
nextChangeIndex ==
    /\ call.pc = "index"
    /\ LET type == Dominant(call.ins) IN
       \E answered \in {{}, Indexes} :
         LET looked == LookedUp(type, answered)
             active == IF scanCache[type] # Nothing THEN scanCache[type] ELSE Active(looked)
         IN /\ NextIndex(active) \in Indexes
            /\ scanCache' = [scanCache EXCEPT ![type] = active]
            /\ infoCache' = IF scanCache[type] # Nothing THEN infoCache ELSE [infoCache EXCEPT ![type] = looked]
            /\ BuildSend(call.ins, call.rate,
                         IF call.change = 0 THEN <<>>
                         ELSE <<Output("change", NextIndex(active), call.change, type)>>)
    /\ UNCHANGED <<setting, utxoCache>>

-----------------------------------------------------------------------------
(* The steps of a bump                                                       *)

\* The transaction as the network shows it: in the mempool, and signalling.  The
\* rate must be one, and an account paired or a persona chosen.
fetchBtcTx ==
    /\ call.pc = "fetch"
    /\ LET t == txs[call.req.of] IN
       \/ Refuse
       \/ call.req.rate < 10 /\ Refuse
       \/ ~OnChain(call.req.of) /\ Refuse
       \/ t.status = "confirmed" /\ Refuse
       \/ t.status = "mempool" /\ ~t.rbf /\ Refuse
       \/ /\ t.status = "mempool" /\ t.rbf /\ call.req.rate >= 10
          /\ call' = [call EXCEPT !.pc = "gauge", !.read = t]
          /\ UNCHANGED txs
    /\ UNCHANGED <<setting, caches>>

\* The new rate is more than one satoshi per vbyte above that of the original.
Raises(t, rate) == rate * Vsize(t) > 10 * (t.fee + Vsize(t))

\* Mutant: the last output is the change.
LastOutput(outs) == Len(outs)

\* The first output that pays a paired address; change addresses are not paired.
ChangeVout(outs) ==
    IF \A k \in DOMAIN outs : outs[k].owner # "receive" THEN 0
    ELSE Min({k \in DOMAIN outs : outs[k].owner = "receive"})

BumpOuts(outs, k, change) ==
    RemoveAt(outs, k) \o IF change < Dust THEN <<>> ELSE <<[outs[k] EXCEPT !.value = change]>>

\* What follows the estimates, which may be missing.
Bump(t, rate, high) ==
    LET k == ChangeVout(t.outs)
        change == t.outs[k].value - (CeilDiv10(rate * Vsize(t)) - t.fee)
        refused == \/ high # Nothing /\ rate > 10 * high
                   \/ ~Raises(t, rate)
                   \/ k = 0
                   \/ k # 0 /\ change < 0
                   \/ Len(t.outs) # 2
    IN \/ refused /\ Refuse
       \/ /\ ~refused
          /\ Make(Transaction("bump", t.ins, BumpOuts(t.outs, k, change), rate, TRUE, "stub", call.req.of,
                              t.named))

bumpFee ==
    /\ call.pc = "gauge"
    /\ \E high \in Rates \cup {Nothing} : Bump(call.read, call.req.rate, high)
    /\ UNCHANGED <<setting, caches>>

-----------------------------------------------------------------------------
(* The rest of the world                                                     *)

\* What must leave the mempool for a transaction: what spends the same coins, and what
\* spends the outputs of that.
Conflicts(i) ==
    LET Gone[j \in DOMAIN txs] ==
            \/ txs[j].ins \cap txs[i].ins # {}
            \/ \E c \in txs[j].ins : c.from \in 1..(j - 1) /\ Gone[c.from]
    IN {j \in DOMAIN txs : txs[j].status = "mempool" /\ Gone[j]}

\* What a node takes: coins there are, a satoshi per vbyte, and in place of others
\* only what pays for all of them and for itself.
Acceptable(i) ==
    /\ \A c \in txs[i].ins : c.from # 0 => OnChain(c.from)
    /\ \A j \in DOMAIN txs : txs[j].status = "confirmed" => txs[j].ins \cap txs[i].ins = {}
    /\ txs[i].fee >= Vsize(txs[i])
    /\ \A j \in Conflicts(i) : txs[j].rbf
    /\ Conflicts(i) # {} =>
          txs[i].fee >= MapThenSumSet(LAMBDA j : txs[j].fee, Conflicts(i)) + Vsize(txs[i])

\* A bump names a stub key for every coin, in place of the keys that the coins were
\* paid to, so the device gives no signature for it.
Signable(i) == txs[i].keys = "device"

\* Previewed, signed and sent.
SendTx(i) ==
    /\ ~setting.demo
    /\ txs[i].status = "prepared" /\ Signable(i) /\ Acceptable(i)
    /\ txs' = [j \in DOMAIN txs |->
                 IF j = i THEN [txs[j] EXCEPT !.status = "mempool"]
                 ELSE IF j \in Conflicts(i) THEN [txs[j] EXCEPT !.status = "replaced"]
                 ELSE txs[j]]
    /\ UNCHANGED <<setting, call, caches>>

Mine(i) ==
    /\ txs[i].status = "mempool" /\ \A c \in txs[i].ins : Confirmed(c)
    /\ txs' = [txs EXCEPT ![i].status = "confirmed"]
    /\ UNCHANGED <<setting, call, caches>>

\* Another wallet of the same keys pays someone, or two, and keeps the rest, at the
\* address it received at or at its next change address.
WalletOuts(c) ==
    LET pay == Output("them", 0, 1000, "p2wpkh")
        keep == Output("receive", 0, c.value - 1300, c.type)
        change == Output("change", NextIndex(Used(c.type)), c.value - 1300, c.type)
    IN {<<pay, keep>>, <<keep, pay>>, <<pay, change>>, <<pay, pay, [keep EXCEPT !.value = @ - 1000]>>}

WalletTx(c, outs) == [Transaction("wallet", {c}, outs, 0, TRUE, "device", 0, {}) EXCEPT !.status = "mempool"]

WalletPays ==
    /\ Len(txs) < MaxTxs
    /\ \E c \in {c \in Unspent : Confirmed(c) /\ c.value > 5000} : \E outs \in WalletOuts(c) :
         /\ \A k \in DOMAIN outs : outs[k].index \in Indexes
         /\ txs' = Append(txs, WalletTx(c, outs))
    /\ UNCHANGED <<setting, call, caches>>

UtxosExpire ==
    /\ utxoCache # [t \in Types |-> Nothing]
    /\ utxoCache' = [t \in Types |-> Nothing]
    /\ UNCHANGED <<setting, call, txs, infoCache, scanCache>>

ScanExpires ==
    /\ scanCache # [t \in Types |-> Nothing]
    /\ scanCache' = [t \in Types |-> Nothing]
    /\ UNCHANGED <<setting, call, txs, utxoCache, infoCache>>

BitcoinNext ==
    \/ Ask \/ fetchBtcAddresses \/ fetchFeeEstimates \/ fetchAddressUtxos \/ nextChangeIndex
    \/ fetchLtcAddresses \/ fetchLtcFeeEstimates \/ fetchLtcAddressUtxos
    \/ fetchBtcTx \/ bumpFee
    \/ \E i \in DOMAIN txs : SendTx(i)
    \/ \E i \in DOMAIN txs : Mine(i)
    \/ WalletPays \/ UtxosExpire \/ ScanExpires

BitcoinSpec == BitcoinInit /\ [][BitcoinNext]_bitcoinVars

-----------------------------------------------------------------------------
(* Properties                                                               *)

(* Every value is one the program can hold.                                  *)
BitcoinTypeOK ==
    /\ setting.net \in {"btc", "ltc"} /\ setting.demo \in BOOLEAN
    /\ call.pc \in {"idle", "keys", "fees", "utxos", "index", "fetch", "gauge"}
    /\ \A i \in DOMAIN txs : /\ txs[i].status \in {"prepared", "mempool", "confirmed", "replaced"}
                              /\ txs[i].fee \in Nat
                              /\ txs[i].of \in 0..(i - 1)
    /\ \A t \in Types : /\ infoCache[t] \in [Indexes -> {Nothing, "used", "empty", "failed"}]
                         /\ scanCache[t] \in {Nothing} \cup SUBSET Indexes

Made(tool) == {txs[i] : i \in {i \in DOMAIN txs : txs[i].tool = tool}}

(* A send pays the rate it was asked to pay, for the size it has, except for     *)
(* the 12 vbytes by which a taproot change output exceeds the estimate.          *)
FeePaysTheRate ==
    \A t \in Made("send") :
       LET short == IF Len(t.outs) = 2 /\ t.outs[2].type = "p2tr" THEN 12 ELSE 0
       IN 10 * t.fee >= t.rate * (Vsize(t) - short)

(* A send spends coins of transactions that cannot be undone, however old the    *)
(* answer it chose them from, but for the coins that the caller named, which are *)
(* not looked at.                                                                *)
SpendsConfirmed == \A t \in Made("send") : \A c \in t.ins \ t.named : Confirmed(c)

(* A bump would replace its original, at the cost of the user: it spends the     *)
(* same coins, pays the fee of the original and a satoshi for each vbyte of its  *)
(* own (BIP-125), and pays others what the original pays them.                   *)
BumpReplaces ==
    LET Paid(outs, o) == Cardinality({k \in DOMAIN outs : outs[k] = o}) IN
    \A t \in Made("bump") :
       LET was == txs[t.of] IN
       /\ t.ins = was.ins
       /\ t.fee >= was.fee + Vsize(t)
       /\ \A o \in ToSet(t.outs) \cup ToSet(was.outs) :
             o.owner = "them" => Paid(t.outs, o) = Paid(was.outs, o)
=============================================================================
