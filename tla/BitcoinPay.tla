----------------------------- MODULE BitcoinPay ------------------------------
(***************************************************************************)
(* How the transactions that spend the user's own coins are previewed,      *)
(* signed and broadcast: those of prepare_btc_send, prepare_btc_rbf_bump,   *)
(* prepare_litecoin_native_send and prepare_btc_lifi_swap.  The uses "pay"  *)
(* and "demo" of Cosigning, whose handles and cancellation they share.      *)
(*                                                                         *)
(* A payment is the coins it spends: two of one coin exclude each other.    *)
(* How the coins are chosen is in BitcoinSend; here any coins may be, since *)
(* the caches they come from may be old.  A call of send_transaction takes  *)
(* three steps, apart at its awaits: asking the device, broadcasting, and   *)
(* answering.                                                               *)
(***************************************************************************)
EXTENDS Cosigning

CONSTANTS
    Wallets,    \* Ledgers that may be plugged in, each with coins
    Coins,      \* of their addresses
    Pairings,   \* which of them the user may have paired, for each network
    Calls       \* of send_transaction that may be under way

Payment == [kind : {"btc", "bump", "ltc", "lifi"}, coins : SUBSET Coins, rbf : BOOLEAN]

ASSUME PayAssumption ==
    /\ Wallets \subseteq Signers
    /\ Pairings \subseteq [{"btc", "ltc"} -> Wallets]
    /\ \A c \in Coins : c.by \in Wallets /\ c.net \in {"btc", "ltc"}
    /\ Payment \subseteq Shapes

VARIABLES
    paired,     \* the Ledger whose account is paired, for each network
    calls,      \* what each call of send_transaction waits for
    holder,     \* coin -> the handle that spends it, "them" for somebody else, or None
    taken,      \* handles whose transaction the network took
    told        \* how many times each handle was answered to be broadcast

payVars == <<paired, calls, holder, taken, told>>
payWorld == <<paired, holder, taken>>

Idle == [pc |-> "idle", handle |-> None, result |-> None]

Paying == use \in {"pay", "demo"}

PayInit ==
    /\ Init
    /\ paired \in IF Paying THEN Pairings ELSE {[n \in {"btc", "ltc"} |-> None]}
    /\ calls = [c \in Calls |-> Idle]
    /\ holder = [c \in Coins |-> None]
    /\ taken = {}
    /\ told = [h \in Handles |-> 0]

NetOf(kind) == IF kind = "ltc" THEN "ltc" ELSE "btc"

-----------------------------------------------------------------------------
(* Preparing                                                                *)

\* Nothing of what was read before is looked at again.
Mint(payment) ==
    /\ Paying
    /\ \E h \in Mintable : CreateHandle(h, payment)
    /\ answer' = None
    /\ UNCHANGED <<use, walletVars, exchange, worldVars, now, payVars>>

\* Coins of the addresses that the Ledger shows, which need not be those of the paired
\* account; in demo mode those of the persona.
CoinsOf(net) ==
    {ins \in SUBSET {c \in Coins : c.net = net} :
        ins # {} /\ \E k \in Wallets : \A c \in ins : c.by = k}

MayPrepare(net) == use = "demo" \/ paired[net] # None

PrepareBtcSend ==
    /\ MayPrepare("btc")
    /\ \E ins \in CoinsOf("btc"), rbf \in BOOLEAN : Mint([kind |-> "btc", coins |-> ins, rbf |-> rbf])

PrepareLitecoinNativeSend ==
    /\ MayPrepare("ltc")
    /\ \E ins \in CoinsOf("ltc") : Mint([kind |-> "ltc", coins |-> ins, rbf |-> FALSE])

\* The coins of a transaction that waits in the mempool and signals.
PrepareBtcRbfBump ==
    /\ MayPrepare("btc")
    /\ \E h \in taken :
         /\ issued[h].kind = "btc" /\ issued[h].rbf
         /\ \A c \in issued[h].coins : holder[c] = h
         /\ Mint([kind |-> "bump", coins |-> issued[h].coins, rbf |-> TRUE])

\* A PSBT that the exchange builds, out of the coins of the paired address; it is taken
\* to signal that it may be replaced.
LifiPsbts == {ins \in CoinsOf("btc") : \A c \in ins : c.by = paired["btc"]}

\* Refused in demo mode, and when the quote names another recipient than was asked for.
PrepareBtcLifiSwap ==
    /\ use = "pay" /\ paired["btc"] # None
    /\ \E ins \in LifiPsbts : Mint([kind |-> "lifi", coins |-> ins, rbf |-> TRUE])

-----------------------------------------------------------------------------
(* Previewing                                                               *)

\* What was prepared is hashed again and shown, under a new token.
PreviewOf(kinds) ==
    /\ Paying
    /\ \E h \in Handles, t \in Tokens :
         /\ PreviewOutcome(h) = "ok"
         /\ issued[h].kind \in kinds
         /\ TransitionToPreviewed(h, [token |-> t, nonce |-> 0])
    /\ answer' = None
    /\ UNCHANGED <<use, walletVars, exchange, worldVars, issued, now, payVars>>

PreviewBtc == PreviewOf({"btc", "bump"})

PreviewLtc == PreviewOf({"ltc"})

PreviewLifi == PreviewOf({"lifi"})

-----------------------------------------------------------------------------
(* Sending: the device                                                      *)

\* A device is opened by one call at a time; another is told that there is none.
DeviceFree == \A c \in Calls : calls[c].pc # "device"

\* With an account paired, whichever it is: only its path matters.
Starts(c, kinds) ==
    /\ use = "pay"
    /\ calls[c] = Idle
    /\ DeviceFree
    /\ \E h \in Handles :
         /\ SentOutcome(h) = "ok"
         /\ issued[h].kind \in kinds
         /\ paired[NetOf(issued[h].kind)] # None
         /\ calls' = [calls EXCEPT ![c] = [Idle EXCEPT !.pc = "device", !.handle = h]]
    /\ answer' = None
    /\ UNCHANGED <<use, walletVars, exchange, worldVars, storeVars, payWorld, told>>

SendBtc(c) == Starts(c, {"btc", "bump"})

SendLtc(c) == Starts(c, {"ltc"})

SendLifi(c) == Starts(c, {"lifi"})

\* In demo mode nothing is asked of anyone.
Simulated ==
    /\ use = "demo"
    /\ \E h \in Handles : SentOutcome(h) = "ok" /\ answer' = [op |-> "simulated"]
    /\ UNCHANGED <<use, walletVars, exchange, worldVars, storeVars, payVars>>

\* The Ledger signs for the coins that its own keys hold; a bump names no real key.
HasKeys(k, payment) == payment.kind # "bump" /\ \A c \in payment.coins : c.by = k

\* Signed, every input; or rejected, unplugged, another app, or inputs without signature.
Signed(c, kinds) ==
    /\ calls[c].pc = "device"
    /\ issued[calls[c].handle].kind \in kinds
    /\ \/ \E k \in Wallets :
            /\ HasKeys(k, issued[calls[c].handle])
            /\ calls' = [calls EXCEPT ![c].pc = "post"]
       \/ calls' = [calls EXCEPT ![c] = Idle]
    /\ answer' = None
    /\ UNCHANGED <<use, walletVars, exchange, worldVars, storeVars, payWorld, told>>

\* Segwit inputs and taproot inputs in a pass each, put together and finalized.
SignBtcPsbt(c) == Signed(c, {"btc", "bump", "lifi"})

SignLtcPsbt(c) == Signed(c, {"ltc"})

-----------------------------------------------------------------------------
(* Sending: the network                                                     *)

Rivals(h) == {holder[c] : c \in issued[h].coins} \ {None}

\* A node takes a transaction once, of coins that are there or that are spent by
\* transactions that may be replaced.
Takes(h) ==
    /\ h \notin taken
    /\ \A r \in Rivals(h) : r # "them" /\ issued[r].rbf

\* What a replaced transaction spent besides is there again.
Spent(h) ==
    [c \in Coins |-> IF c \in issued[h].coins THEN h
                     ELSE IF holder[c] \in Rivals(h) THEN None ELSE holder[c]]

\* The transaction id, a rejection, or an error: of a node that did not take it, or of
\* an answer that was lost.
Posted(c, kinds) ==
    /\ calls[c].pc = "post"
    /\ issued[calls[c].handle].kind \in kinds
    /\ LET h == calls[c].handle IN
       \/ /\ Takes(h)
          /\ taken' = taken \cup {h}
          /\ holder' = Spent(h)
          /\ \E r \in {"ok", "error"} : calls' = [calls EXCEPT ![c].pc = "answer", ![c].result = r]
       \/ /\ \E r \in {"rejected", "error"} : calls' = [calls EXCEPT ![c].pc = "answer", ![c].result = r]
          /\ UNCHANGED <<taken, holder>>
    /\ answer' = None
    /\ UNCHANGED <<use, walletVars, exchange, worldVars, storeVars, paired, told>>

BroadcastTx(c) == Posted(c, {"btc", "bump", "lifi"})

LtcBroadcastTx(c) == Posted(c, {"ltc"})

\* Mutant: a transaction that the node says it has already counts as broadcast.
RejectedIsOk(c) == calls[c].result # "error"

BroadcastOk(c) == calls[c].result = "ok"

\* A broadcast that was answered marks the handle and is told, unless the handle was
\* cancelled, expired or sent by another call in the meantime: that is an error.
Answers(c, kinds) ==
    /\ calls[c].pc = "answer"
    /\ issued[calls[c].handle].kind \in kinds
    /\ LET h == calls[c].handle IN
       IF BroadcastOk(c)
       THEN /\ TransitionToSent(h)
            /\ told' = IF SentOutcome(h) = "ok" THEN [told EXCEPT ![h] = @ + 1] ELSE told
       ELSE UNCHANGED <<store, told>>
    /\ calls' = [calls EXCEPT ![c] = Idle]
    /\ answer' = None
    /\ UNCHANGED <<use, walletVars, exchange, worldVars, issued, now, payWorld>>

AnswerBtc(c) == Answers(c, {"btc", "bump"})

AnswerLtc(c) == Answers(c, {"ltc"})

AnswerLifi(c) == Answers(c, {"lifi"})

-----------------------------------------------------------------------------
(* The rest of the world                                                    *)

\* Another wallet of the same keys spends a coin.
Spend ==
    /\ use = "pay"
    /\ \E c \in Coins : holder[c] = None /\ holder' = [holder EXCEPT ![c] = "them"]
    /\ answer' = None
    /\ UNCHANGED <<use, walletVars, exchange, worldVars, storeVars, paired, calls, taken, told>>

Unpair ==
    /\ use = "pay"
    /\ \E n \in {"btc", "ltc"} : paired[n] # None /\ paired' = [paired EXCEPT ![n] = None]
    /\ answer' = None
    /\ UNCHANGED <<use, walletVars, exchange, worldVars, storeVars, calls, holder, taken, told>>

PayTick ==
    /\ Paying /\ now < MaxTime[use]
    /\ now' = now + 1
    /\ answer' = None
    /\ UNCHANGED <<use, walletVars, exchange, worldVars, store, issued, payVars>>

PayRestart ==
    /\ Paying
    /\ \E h \in Handles : Held(h)
    /\ StoreLost
    /\ calls' = [c \in Calls |-> Idle]
    /\ answer' = None
    /\ UNCHANGED <<use, walletVars, exchange, worldVars, issued, now, payWorld, told>>

PayNext ==
    \/ Next /\ UNCHANGED payVars
    \/ PrepareBtcSend \/ PrepareLitecoinNativeSend \/ PrepareBtcRbfBump \/ PrepareBtcLifiSwap
    \/ PreviewBtc \/ PreviewLtc \/ PreviewLifi
    \/ \E c \in Calls :
         \/ SendBtc(c) \/ SendLtc(c) \/ SendLifi(c)
         \/ SignBtcPsbt(c) \/ SignLtcPsbt(c)
         \/ BroadcastTx(c) \/ LtcBroadcastTx(c)
         \/ AnswerBtc(c) \/ AnswerLtc(c) \/ AnswerLifi(c)
    \/ Simulated \/ Spend \/ Unpair \/ PayTick \/ PayRestart

PaySpec == PayInit /\ [][PayNext]_<<vars, payVars>>

-----------------------------------------------------------------------------
(* Properties                                                               *)

\* What send_transaction says of a payment is true: a handle that is sent, or of which a
\* caller was told so, has its transaction with the network, and two calls of one handle
\* are never both told, whatever was rejected, lost, cancelled or retried between the
\* device and the answer.  In demo mode nothing gets there.
BroadcastIsTrue ==
    \A h \in Handles :
        /\ told[h] <= 1
        /\ (told[h] = 1 \/ (Paying /\ Held(h) /\ store[h].status = "sent")) => h \in taken
        /\ use = "demo" => h \notin taken
=============================================================================
