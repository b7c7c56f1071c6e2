----------------------------- MODULE Cosigning ------------------------------
(***************************************************************************)
(* Multisig wallets of Bitcoin, and messages signed by one key: the tools   *)
(* register_btc_multisig_wallet, sign_btc_multisig_psbt, combine_btc_psbts, *)
(* finalize_btc_psbt, get_btc_multisig_*, sign_message_btc and _ltc, with   *)
(* btc-multisig-store.ts and the calls of ledger-btc-transport.ts they make.*)
(*                                                                         *)
(* A PSBT goes back and forth between co-signers; the user's own signatures *)
(* come from a handle that is prepared, previewed and sent.  The Ledger     *)
(* that happens to be plugged in, the co-signers and the network are        *)
(* external.  A behaviour follows one use: signing alone or with others,    *)
(* watching, messages, or the payments of BitcoinPay.                       *)
(***************************************************************************)
EXTENDS HandleStore, FiniteSets, FiniteSetsExt

CONSTANTS
    Uses,       \* of "alone", "cosign", "watch", "message", "pay" and "demo", those of the run
    MaxHandles, \* bound of each use: how many handles it mints
    Signers,    \* keys
    Ledgers,    \* keys of the Ledgers that may be plugged in
    Policies,   \* descriptors: [m, keys]
    Names,      \* of wallets
    Txs,        \* unsigned transactions
    PolicyOf,   \* transaction -> the policy that its inputs are paid to
    Inputs,     \* of every transaction
    Slots,      \* PSBTs that the agent keeps
    Gap,        \* BIP44_GAP_LIMIT, 20 in the code
    Batch,      \* SCAN_CONCURRENCY, 5 in the code
    MaxIndex,   \* bound of the addresses that are paid to
    MaxSaves,   \* bounds of a behaviour of each use
    MaxCosigns,
    MaxTime

ASSUME CosigningAssumption ==
    /\ Uses \subseteq {"alone", "cosign", "watch", "message", "pay", "demo"}
    /\ MaxHandles \in [Uses -> Nat]
    /\ Ledgers \subseteq Signers
    /\ \A p \in Policies : p.keys \subseteq Signers /\ p.m \in 1..Cardinality(p.keys)
    /\ Txs # {} /\ PolicyOf \in [Txs -> Policies]
    /\ Gap \in Nat \ {0} /\ Batch \in Nat \ {0} /\ MaxIndex \in Nat
    /\ MaxSaves \in [Uses -> Nat] /\ MaxCosigns \in [Uses -> Nat] /\ MaxTime \in [Uses -> Nat]

VARIABLES
    use,
    memory,     \* inMemoryStore, or None before the first load
    disk,       \* btc-multisig.json
    exchange,   \* the exchange with the Ledger under way, or None
    held,       \* the PSBT in each slot of the agent
    answer,     \* what finalize, a scan or a message tool just answered
    used,       \* addresses of the Watched descriptor that were paid to, by index
    infos,      \* addressInfoCache: what a request once said of an address
    scan,       \* the scan under way, or None
    saves,      \* so far
    cosigns     \* signatures of the co-signers so far

scanVars == <<used, infos, scan>>
worldVars == <<held, scanVars, cosigns>>
walletVars == <<memory, disk, saves>>
vars == <<use, walletVars, exchange, answer, worldVars, storeVars>>

\* A signature of a key under one input; a co-signer may sign anew and differently.
Signature == [by : Signers, n : {1, 2}]
Psbt == [tx : Txs, sigs : [Inputs -> SUBSET Signature]]
Unsigned(t) == [tx |-> t, sigs |-> [i \in Inputs |-> {}]]
SignedBy(psbt, i, k) == \E x \in psbt.sigs[i] : x.by = k

\* What sign_btc_multisig_psbt prepares.
PsbtShape == [psbt : Psbt, name : Names, policy : Policies]

ASSUME ShapesAssumption == PsbtShape \subseteq Shapes

\* What registerWallet of a device gives for a name and a policy.
Hmac == [by : Ledgers, name : Names, policy : Policies]
Wallet == [policy : Policies, hmac : Hmac \cup {None}]

\* A record that validateRecord drops.
Broken == [policy |-> None, hmac |-> None]

Empty == [n \in Names |-> None]

\* The descriptor whose addresses are followed; others have addresses of their own.
Watched == CHOOSE p \in Policies : TRUE

Unasked == [i \in 0..MaxIndex |-> "unasked"]

Signing == use \in {"alone", "cosign"}

Mintable ==
    IF Cardinality({h \in Handles : issued[h] # None}) < MaxHandles[use] THEN Handles ELSE {}

Init ==
    /\ StoreInit
    /\ use \in Uses
    /\ memory = None
    /\ disk \in {Empty} \cup {[Empty EXCEPT ![n] = Broken] : n \in IF use = "watch" THEN Names ELSE {}}
    /\ exchange = None
    /\ held \in [Slots -> {Unsigned(t) : t \in IF Signing THEN Txs ELSE {CHOOSE x \in Txs : TRUE}}]
    /\ answer = None
    /\ used = {} /\ infos = Unasked /\ scan = None
    /\ saves = 0 /\ cosigns = 0

-----------------------------------------------------------------------------
(* btc-multisig-store.ts                                                    *)

validated(records) == [n \in Names |-> IF records[n] = Broken THEN None ELSE records[n]]

\* The file is read once; one that cannot be read or parsed counts as empty.
Loads == IF memory # None THEN {memory} ELSE {validated(disk), Empty}

\* Memory first, then the whole file; when the write fails the call throws and the
\* record stays in memory.
saveMultisigWallet(name, wallet) ==
    /\ saves < MaxSaves[use] /\ saves' = saves + 1
    /\ \E m \in Loads : memory' = [m EXCEPT ![name] = wallet]
    /\ disk' \in {memory', disk}

loadMultisigWallet(name, wallet) ==
    /\ \E m \in Loads : memory' = m /\ wallet = m[name]
    /\ UNCHANGED <<disk, saves>>

-----------------------------------------------------------------------------
(* register_btc_multisig_wallet                                             *)

\* The name fits the 16 bytes of the device, the descriptor parses and the threshold
\* is that of the descriptor: the wallets of Names and Policies.
Without(policy) == [policy |-> policy, hmac |-> None]

\* Mutant: a wallet that is registered again without a device keeps its HMAC.
KeepsHmac(name, policy) ==
    [policy |-> policy,
     hmac |-> IF memory # None /\ memory[name] # None THEN memory[name].hmac ELSE None]

\* What is stored when the device does not take part.
Unregistered(name, policy) == Without(policy)

\* force leaves the device out.  One that is not there, or busy, does as much.
RegisterWithout ==
    /\ use \in {"alone", "cosign", "watch"}
    /\ \E n \in Names, p \in Policies : saveMultisigWallet(n, Unregistered(n, p))
    /\ answer' = None
    /\ UNCHANGED <<use, exchange, worldVars, storeVars>>

Register ==
    /\ Signing
    /\ exchange = None
    /\ \E n \in Names, p \in Policies :
         exchange' = [op |-> "register", name |-> n, policy |-> p]
    /\ answer' = None
    /\ UNCHANGED <<use, walletVars, worldVars, storeVars>>

\* The device registers a policy that has a key of its own.
RegisterAnswered ==
    /\ exchange # None /\ exchange.op = "register"
    /\ exchange' = None
    /\ LET n == exchange.name
           p == exchange.policy
       IN \/ \E k \in Ledgers \cap p.keys :
                saveMultisigWallet(n, [policy |-> p, hmac |-> [by |-> k, name |-> n, policy |-> p]])
          \/ saveMultisigWallet(n, Unregistered(n, p))     \* rejected, unplugged
          \/ UNCHANGED walletVars                          \* the app is too old
    /\ answer' = None
    /\ UNCHANGED <<use, worldVars, storeVars>>

-----------------------------------------------------------------------------
(* sign_btc_multisig_psbt, preview_send, send_transaction                   *)

\* Any PSBT with any wallet that was registered on a device: that the inputs are paid
\* to the wallet is left to the device.
SignPsbt ==
    /\ Signing
    /\ \E s \in Slots, n \in Names, w \in Wallet, h \in Mintable :
         /\ w.hmac # None
         /\ loadMultisigWallet(n, w)
         /\ CreateHandle(h, [psbt |-> held[s], name |-> n, policy |-> w.policy])
    /\ answer' = None
    /\ UNCHANGED <<use, exchange, worldVars, now>>

\* The receipt counts, for every input, the signatures it has and those it needs.
Preview ==
    /\ Signing
    /\ \E h \in Handles, t \in Tokens :
         /\ PreviewOutcome(h) = "ok"
         /\ TransitionToPreviewed(h, [token |-> t, nonce |-> 0])
    /\ answer' = None
    /\ UNCHANGED <<use, walletVars, exchange, worldVars, issued, now>>

Cancel ==
    /\ \E h \in Handles :
         /\ Held(h)
         /\ store[h].status = "previewed"
         /\ TransitionToCancelled(h)
    /\ answer' = None
    /\ UNCHANGED <<use, walletVars, exchange, worldVars, issued, now>>

\* The wallet of that name as it is now, whatever it was when the PSBT was prepared.
Send ==
    /\ Signing /\ exchange = None
    /\ \E h \in Handles, w \in Wallet :
         /\ SentOutcome(h) = "ok"
         /\ w.hmac # None
         /\ loadMultisigWallet(issued[h].name, w)
         /\ exchange' = [op |-> "sign", handle |-> h, name |-> issued[h].name,
                         policy |-> w.policy, hmac |-> w.hmac]
    /\ answer' = None
    /\ UNCHANGED <<use, worldVars, storeVars>>

\* A device signs for a policy that it has registered itself, inputs that are paid to it.
Signs(k) ==
    /\ exchange.hmac = [by |-> k, name |-> exchange.name, policy |-> exchange.policy]
    /\ PolicyOf[issued[exchange.handle].psbt.tx] = exchange.policy

\* signBtcMultisigPsbt appends the signatures; a key that has signed an input already
\* is there twice, which the serializer of a PSBT refuses.
Appended(psbt, k) == [psbt EXCEPT !.sigs = [i \in Inputs |-> @[i] \cup {[by |-> k, n |-> 1]}]]
Serializes(psbt, k) == \A i \in Inputs : ~SignedBy(psbt, i, k)

\* Mutant: what the transition says after the device has signed is not looked at.
AnswersAnyway(h) == TRUE

MayAnswer(h) == SentOutcome(h) = "ok"

\* Signed and answered; or an error: of the device, of the serializer, of a handle that
\* was cancelled or expired in the meantime.  The agent keeps the answer, or it is lost.
SignAnswered ==
    /\ exchange # None /\ exchange.op = "sign"
    /\ exchange' = None
    /\ LET h == exchange.handle IN
       \/ /\ \E k \in Ledgers :
               /\ Signs(k) /\ Serializes(issued[h].psbt, k)
               /\ \/ UNCHANGED held
                  \/ MayAnswer(h) /\ \E s \in Slots :
                        held' = [held EXCEPT ![s] = Appended(issued[h].psbt, k)]
          /\ TransitionToSent(h)
       \/ UNCHANGED <<held, store>>
    /\ answer' = None
    /\ UNCHANGED <<use, walletVars, scanVars, cosigns, issued, now>>

-----------------------------------------------------------------------------
(* combine_btc_psbts, finalize_btc_psbt                                     *)

\* Mutant: a PSBT that conflicts under one input only is let through.
ConflictEverywhere(first, psbts) ==
    \E p, q \in psbts : \A i \in Inputs : \E x \in p.sigs[i], y \in q.sigs[i] :
        x.by = y.by /\ x.n # y.n

\* Two of them carry different signatures of one key under inputs of one number,
\* whatever transactions these are of.
Conflict(first, psbts) ==
    \E p, q \in psbts, i \in Inputs : \E x \in p.sigs[i], y \in q.sigs[i] :
        x.by = y.by /\ x.n # y.n

\* Psbt.combine, external: for a key that is there already the first one wins.
Merged(first, psbts) ==
    [first EXCEPT !.sigs =
        [i \in Inputs |->
            LET all == UNION {p.sigs[i] : p \in psbts} IN
            {x \in all : \A y \in all : y.by = x.by =>
                            x \in first.sigs[i] \/ (y \notin first.sigs[i] /\ x.n <= y.n)}]]

\* The agent keeps what it gets in place of the first.
combineBtcPsbts(first, psbts) ==
    IF Conflict(first, psbts) \/ (\E p \in psbts : p.tx # first.tx) THEN first
    ELSE Merged(first, psbts)

Combine ==
    /\ Signing
    /\ \E s \in Slots, others \in SUBSET Slots :
         /\ others \ {s} # {}
         /\ held' = [held EXCEPT ![s] = combineBtcPsbts(@, {held[o] : o \in others \cup {s}})]
    /\ answer' = None
    /\ UNCHANGED <<use, walletVars, exchange, scanVars, cosigns, storeVars>>

\* finalizeAllInputs, external: each input of m-of-n takes m signatures and no more.
Finalizes(psbt) == \A i \in Inputs : Cardinality(psbt.sigs[i]) = PolicyOf[psbt.tx].m

Under(psbt, threshold) == \E i \in Inputs : Cardinality(psbt.sigs[i]) < threshold

\* The threshold is the caller's, not that of a wallet.
finalizeBtcPsbt(psbt, threshold) ==
    IF Under(psbt, threshold) THEN "under"
    ELSE IF Finalizes(psbt) THEN "final" ELSE "error"

Finalize ==
    /\ Signing
    /\ \E s \in Slots, threshold \in {p.m : p \in Policies} :
         answer' = [op |-> finalizeBtcPsbt(held[s], threshold)]
    /\ UNCHANGED <<use, walletVars, exchange, worldVars, storeVars>>

-----------------------------------------------------------------------------
(* get_btc_multisig_balance, get_btc_multisig_utxos                         *)

BatchSize(empties) == IF Batch < Gap - empties THEN Batch ELSE Gap - empties

\* Mutant: an address in use anywhere in the batch starts the count anew.
TrailingNone(before, batch, hits) == IF hits = {} THEN before + Cardinality(batch) ELSE 0

\* Empty addresses in a row at the end of a batch.
Trailing(before, batch, hits) ==
    IF hits = {} THEN before + Cardinality(batch) ELSE Max(batch) - Max(hits)

BatchOf(s) == s.next..(s.next + BatchSize(s.empties) - 1)

\* After a batch of which hits were told to be in use.
ScanAfter(s, hits) ==
    LET batch == BatchOf(s) IN
    [next |-> Max(batch) + 1, empties |-> Trailing(s.empties, batch, hits),
     active |-> s.active \cup hits, unused |-> s.unused \cup (batch \ hits)]

\* Both tools scan alike, from the first receive address on; one scan at a time.
ScanStart ==
    /\ use = "watch" /\ scan = None
    /\ \E n \in Names, w \in Wallet : w.policy = Watched /\ loadMultisigWallet(n, w)
    /\ scan' = [next |-> 0, empties |-> 0, active |-> {}, unused |-> {}]
    /\ answer' = None
    /\ UNCHANGED <<use, exchange, held, used, infos, cosigns, storeVars>>

\* fetchAddressInfo of each address of a batch.  What was once said of an address is kept
\* for good, that it has no transactions too; a request that fails, or that was answered
\* before the last payment, counts and is kept as that.
Told(batch, missed) ==
    [i \in 0..MaxIndex |->
        IF i \in batch /\ infos[i] = "unasked"
        THEN IF i \in used \ missed THEN "used" ELSE "unused"
        ELSE infos[i]]

\* The next batch, and with it the answer once Gap addresses in a row were told unused.
ScanBatch ==
    /\ scan # None
    /\ \E missed \in SUBSET (BatchOf(scan) \cap used) : infos' = Told(BatchOf(scan), missed)
    /\ LET after == ScanAfter(scan, {i \in BatchOf(scan) \cap 0..MaxIndex : infos'[i] = "used"})
           ends == after.empties >= Gap
       IN /\ scan' = IF ends THEN None ELSE after
          /\ answer' = IF ends THEN [op |-> "scan", active |-> after.active, unused |-> after.unused]
                       ELSE None
    /\ UNCHANGED <<use, walletVars, exchange, held, used, cosigns, storeVars>>

\* The cache holds 256 addresses, of every wallet: another one takes the place of the oldest.
Evict ==
    /\ use = "watch"
    /\ \E i \in 0..MaxIndex : infos[i] # "unasked" /\ infos' = [infos EXCEPT ![i] = "unasked"]
    /\ answer' = None
    /\ UNCHANGED <<use, walletVars, exchange, held, used, scan, cosigns, storeVars>>

-----------------------------------------------------------------------------
(* sign_message_btc, sign_message_ltc                                       *)

\* The paired account that has the address, by its path; the device signs with its key
\* of that path, whoever's it is, and with the magic of the app that is open.
SignMessage ==
    /\ use = "message"
    /\ \E wallet \in Ledgers, net \in {"btc", "ltc"}, k \in Ledgers, app \in {"btc", "ltc"} :
         answer' = [op |-> "message", wallet |-> wallet, net |-> net, by |-> k, app |-> app]
    /\ UNCHANGED <<use, walletVars, exchange, worldVars, storeVars>>

-----------------------------------------------------------------------------
(* The rest of the world                                                    *)

\* A co-signer signs some of the inputs, perhaps again and differently elsewhere.
Cosign ==
    /\ Signing /\ cosigns < MaxCosigns[use]
    /\ cosigns' = cosigns + 1
    /\ \E s \in Slots, k \in Signers \ Ledgers, n \in {1, 2}, signed \in SUBSET Inputs :
         /\ signed # {}
         /\ k \in PolicyOf[held[s].tx].keys
         /\ \A i \in signed : ~SignedBy(held[s], i, k)
         /\ held' = [held EXCEPT ![s].sigs =
                       [i \in Inputs |-> IF i \in signed THEN @[i] \cup {[by |-> k, n |-> n]} ELSE @[i]]]
    /\ answer' = None
    /\ UNCHANGED <<use, walletVars, exchange, scanVars, storeVars>>

Receive ==
    /\ use = "watch"
    /\ \E i \in (0..MaxIndex) \ used : used' = used \cup {i}
    /\ answer' = None
    /\ UNCHANGED <<use, walletVars, exchange, held, infos, scan, cosigns, storeVars>>

Tick ==
    /\ Signing /\ now < MaxTime[use]
    /\ now' = now + 1
    /\ answer' = None
    /\ UNCHANGED <<use, walletVars, exchange, worldVars, store, issued>>

\* What is in memory is lost, with the exchange and the handles.
Restart ==
    /\ memory # None
    /\ memory' = None
    /\ exchange' = None
    /\ StoreLost
    /\ answer' = None
    /\ infos' = Unasked /\ scan' = None
    /\ UNCHANGED <<use, disk, saves, held, used, cosigns, issued, now>>

Next ==
    \/ RegisterWithout \/ Register \/ RegisterAnswered
    \/ SignPsbt \/ Preview \/ Cancel \/ Send \/ SignAnswered
    \/ Combine \/ Finalize \/ ScanStart \/ ScanBatch \/ Evict \/ SignMessage
    \/ Cosign \/ Receive \/ Tick \/ Restart

Spec == Init /\ [][Next]_vars

-----------------------------------------------------------------------------
(* Properties                                                               *)

\* Types of the state.
TypeOK ==
    /\ memory \in {None} \cup [Names -> Wallet \cup {None}]
    /\ disk \in [Names -> Wallet \cup {None, Broken}]
    /\ held \in [Slots -> Psbt]
    /\ used \subseteq 0..MaxIndex
    /\ infos \in [0..MaxIndex -> {"unasked", "used", "unused"}]
    /\ \A h \in Handles : store[h] \in HandleRecord \cup {None}

\* The HMAC that is stored beside a descriptor is the one a device gave for it and for
\* the name: a wallet registered anew, without a device or with one that refuses, after
\* a restart or a write that failed, never lends its HMAC to another descriptor.
PolicyMatches ==
    \A n \in Names, stored \in {disk} \cup ({memory} \ {None}) :
        stored[n] # None /\ stored[n].hmac # None
            => stored[n].hmac.name = n /\ stored[n].hmac.policy = stored[n].policy

\* The user's signature appears only in the answer of the send that takes its handle from
\* previewed to sent, on the PSBT that was previewed: not for a handle that was cancelled,
\* expired or lost while the device was asked, and not a second time.
SignatureIsSent ==
    [][\A s \in Slots, k \in Ledgers, i \in Inputs :
          SignedBy(held'[s], i, k) /\ (\A o \in Slots : ~SignedBy(held[o], i, k))
             => \E h \in Handles :
                  /\ Held(h) /\ store[h].status = "previewed"
                  /\ store'[h].status = "sent"
                  /\ \E l \in Ledgers : held'[s] = Appended(issued[h].psbt, l)]_vars

\* Combining loses no signature (btc-psbt.ts: "silently overwrite a co-signer's
\* signature"): what takes the place of a PSBT has all it had, and if it is not a new
\* signature it has all of another one too.
CombineKeepsAll ==
    [][\A s \in Slots :
          held'[s] # held[s] /\ cosigns' = cosigns /\ exchange' = exchange
             => /\ \A i \in Inputs : held[s].sigs[i] \subseteq held'[s].sigs[i]
                /\ \E o \in Slots \ {s} : \A i \in Inputs : held[o].sigs[i] \subseteq held'[s].sigs[i]]_vars

\* An address in use with no Gap unused addresses in a row before it.
Reached(i) == \A j \in 0..i : j + Gap <= i => (j..(j + Gap - 1)) \cap used # {}

\* A balance goes wrong by what it was told only: unless an address in use was told to be
\* unused, by a request that failed or one of long ago, it counts the addresses in use before
\* the first gap and no others, wherever the batches begin and end and whatever is paid,
\* kept or evicted between them.
ScanFindsUsed ==
    answer # None /\ answer.op = "scan" /\ answer.unused \cap used = {}
        => answer.active = {i \in used : Reached(i)}
=============================================================================
