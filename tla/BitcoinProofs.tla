-------------------------- MODULE BitcoinProofs --------------------------
(***************************************************************************)
(* Proofs about multisig wallets and payments in bitcoin, for any number of *)
(* wallets, co-signers, PSBTs, handles and calls: an HMAC stays with its    *)
(* descriptor, a signature of the user comes out of one send, combining     *)
(* loses nothing, what is said of a payment is true, and a scan finds the   *)
(* addresses in use before the first gap.                                   *)
(*                                                                         *)
(* The uses do not meet: in one that signs PSBTs no call of send_transaction *)
(* pays, and in one that pays the Ledger holds no exchange.  With that, the  *)
(* two ways a handle becomes sent are told apart.                           *)
(*                                                                         *)
(* Then the tools that build a transaction, for any coins, sends, rates and *)
(* bounds: a send pays its rate and spends settled coins, a bump replaces    *)
(* its original.                                                            *)
(***************************************************************************)
EXTENDS BitcoinPay, BitcoinSend, NumberLemmas, SequenceTheorems, TLAPS

CallRec == [pc : {"idle", "device", "post", "answer"}, handle : Handles \cup {None},
            result : {None, "ok", "error", "rejected"}]

PayTypes ==
    /\ use \in Uses
    /\ store \in [Handles -> HandleRecord \cup {None}]
    /\ issued = [h \in Handles |-> issued[h]]
    /\ now \in Nat
    /\ calls \in [Calls -> CallRec]
    /\ told \in [Handles -> Nat]
    /\ held \in [Slots -> Psbt]
    /\ taken \subseteq Handles

\* Wallets whose HMACs, where they have one, are for their names and their descriptors.
Matches(wallets) ==
    /\ DOMAIN wallets = Names
    /\ \A n \in Names : wallets[n] # None /\ wallets[n].hmac # None =>
           wallets[n].hmac.name = n /\ wallets[n].hmac.policy = wallets[n].policy

WalletsOK == Matches(disk) /\ (memory # None => Matches(memory))

\* The Ledger is asked by one that signs PSBTs, for a handle that was issued.
ExchangeOK ==
    exchange # None =>
       /\ Signing
       /\ exchange.op = "sign" => exchange.handle \in Handles /\ issued[exchange.handle] # None

IssuedOK(h) ==
    issued[h] # None =>
       /\ Signing => issued[h] \in PsbtShape
       /\ Paying => issued[h] \in Payment

\* A call that heard of a success has its transaction with the network.
CallOK(c) ==
    calls[c].pc # "idle" =>
       /\ use = "pay"
       /\ calls[c].handle \in Handles /\ issued[calls[c].handle] # None
       /\ calls[c].pc = "answer" /\ calls[c].result = "ok" => calls[c].handle \in taken

\* A handle that was told is sent for as long as it is held: it is not told again.
HandleOK(h) ==
    /\ Held(h) => issued[h] # None
    /\ Paying /\ Held(h) /\ store[h].status = "sent" => h \in taken
    /\ told[h] # 0 =>
          /\ told[h] = 1 /\ h \in taken /\ issued[h] # None
          /\ Held(h) => store[h].status = "sent"
    /\ h \in taken => use = "pay" /\ issued[h] # None

IInv ==
    /\ PayTypes
    /\ WalletsOK
    /\ ExchangeOK
    /\ \A c \in Calls : CallOK(c)
    /\ \A h \in Handles : IssuedOK(h) /\ HandleOK(h)

-----------------------------------------------------------------------------
(* Steps of the store                                                       *)

\* The records that are left are those there were; one that was sent stays sent, and none
\* but those named become it.
StoreStep(sent) ==
    /\ store' \in [Handles -> HandleRecord \cup {None}]
    /\ \A h \in Handles : store'[h] # None =>
          /\ store[h] # None
          /\ store[h].status = "sent" => store'[h].status = "sent"
          /\ store'[h].status = "sent" => store[h].status = "sent" \/ h \in sent

LEMMA NoStoreStep ==
  ASSUME PayTypes, UNCHANGED store
  PROVE  StoreStep({})
BY DEF StoreStep, PayTypes

LEMMA LostStoreStep ==
  ASSUME StoreLost
  PROVE  StoreStep({})
BY DEF StoreStep, StoreLost

LEMMA PreviewedStores ==
  ASSUME PayTypes, NEW h \in Handles, NEW pin \in PreviewPinned,
         PreviewOutcome(h) = "ok", TransitionToPreviewed(h, pin)
  PROVE  StoreStep({})
<1>1. Held(h) /\ store[h] \in HandleRecord /\ store[h].status # "sent"
  BY DEF PreviewOutcome, Lookup, Held, Terminal, PayTypes
<1>2. store' = [store EXCEPT ![h].status = "previewed", ![h].pinned = pin]
  BY DEF TransitionToPreviewed
<1>3. store'[h] = [store[h] EXCEPT !.status = "previewed", !.pinned = pin]
      /\ \A g \in Handles \ {h} : store'[g] = store[g]
  BY <1>2 DEF PayTypes
<1>4. store'[h] \in HandleRecord /\ store'[h].status # "sent"
  BY <1>1, <1>3 DEF HandleRecord
<1> QED BY <1>1, <1>2, <1>3, <1>4 DEF StoreStep, PayTypes, Held

LEMMA CancelledStores ==
  ASSUME PayTypes, NEW h \in Handles, TransitionToCancelled(h)
  PROVE  StoreStep({})
<1>1. CASE CancelOutcome(h) = "ok"
  <2>1. Held(h) /\ store[h] \in HandleRecord /\ store[h].status # "sent"
    BY <1>1 DEF CancelOutcome, Lookup, Held, Terminal, PayTypes
  <2>2. store' = [store EXCEPT ![h].status = "cancelled"]
    BY <1>1 DEF TransitionToCancelled
  <2>3. store'[h] = [store[h] EXCEPT !.status = "cancelled"]
        /\ \A g \in Handles \ {h} : store'[g] = store[g]
    BY <2>2 DEF PayTypes
  <2>4. store'[h] \in HandleRecord /\ store'[h].status # "sent"
    BY <2>1, <2>3 DEF HandleRecord
  <2> QED BY <2>1, <2>2, <2>3, <2>4 DEF StoreStep, PayTypes, Held
<1>2. CASE CancelOutcome(h) # "ok"
  BY <1>2 DEF TransitionToCancelled, Looked, StoreStep, PayTypes
<1> QED BY <1>1, <1>2

LEMMA SentStores ==
  ASSUME PayTypes, NEW h \in Handles, TransitionToSent(h)
  PROVE  /\ StoreStep({h})
         /\ SentOutcome(h) = "ok" =>
               Held(h) /\ store[h].status = "previewed" /\ store'[h].status = "sent"
<1>1. CASE SentOutcome(h) = "ok"
  <2>1. Held(h) /\ store[h] \in HandleRecord /\ store[h].status = "previewed"
    BY <1>1 DEF SentOutcome, Lookup, Held, PayTypes
  <2>2. store' = [store EXCEPT ![h].status = "sent"]
    BY <1>1 DEF TransitionToSent
  <2>3. store'[h] = [store[h] EXCEPT !.status = "sent"]
        /\ \A g \in Handles \ {h} : store'[g] = store[g]
    BY <2>2 DEF PayTypes
  <2>4. store'[h] \in HandleRecord /\ store'[h].status = "sent"
    BY <2>1, <2>3 DEF HandleRecord
  <2> QED BY <2>1, <2>2, <2>3, <2>4 DEF StoreStep, PayTypes, Held
<1>2. CASE SentOutcome(h) # "ok"
  BY <1>2 DEF TransitionToSent, Looked, StoreStep, PayTypes
<1> QED BY <1>1, <1>2

\* A step that prepares nothing and tells nothing.
LEMMA RecordStep ==
  ASSUME IInv, NEW sent, StoreStep(sent),
         \A h \in Handles \cap sent : Paying => h \in taken,
         UNCHANGED <<use, issued, told>>, taken \subseteq taken', taken' \subseteq Handles,
         \A h \in taken' : h \in taken \/ (use = "pay" /\ issued[h] # None),
         now' \in Nat, held' \in [Slots -> Psbt], calls' \in [Calls -> CallRec],
         \A c \in Calls : CallOK(c)', WalletsOK', ExchangeOK'
  PROVE  IInv'
<1>1. PayTypes'
  BY DEF IInv, PayTypes, StoreStep
<1>2. ASSUME NEW h \in Handles PROVE IssuedOK(h)'
  BY DEF IInv, IssuedOK, Signing, Paying
<1>3. ASSUME NEW h \in Handles PROVE HandleOK(h)'
  <2>1. HandleOK(h)
    BY DEF IInv
  <2>2. store'[h] # None =>
          /\ store[h] # None
          /\ store[h].status = "sent" => store'[h].status = "sent"
          /\ store'[h].status = "sent" => store[h].status = "sent" \/ h \in sent
    BY DEF StoreStep
  <2> QED BY <2>1, <2>2 DEF HandleOK, Held, Paying
<1> QED BY <1>1, <1>2, <1>3 DEF IInv

\* A step of the multisig tools that leaves the handles alone.
LEMMA QuietStep ==
  ASSUME IInv, UNCHANGED <<use, store, issued, payVars>>, now' \in Nat,
         held' \in [Slots -> Psbt], WalletsOK', ExchangeOK'
  PROVE  IInv'
<1>1. StoreStep({})
  BY NoStoreStep DEF IInv
<1>2. \A c \in Calls : CallOK(c)'
  BY DEF IInv, CallOK, payVars
<1>3. calls' \in [Calls -> CallRec]
  BY DEF IInv, PayTypes, payVars
<1>4. UNCHANGED <<told, taken>> /\ taken \subseteq Handles
  BY DEF payVars, IInv, PayTypes
<1> QED BY <1>1, <1>2, <1>3, <1>4, RecordStep

LEMMA MintStep ==
  ASSUME IInv, NEW h \in Handles, NEW x, CreateHandle(h, x), x # None,
         Signing => x \in PsbtShape, Paying => x \in Payment,
         UNCHANGED <<use, exchange, held, now, payVars>>, WalletsOK'
  PROVE  IInv'
<1>1. /\ issued[h] = None /\ issued'[h] = x
      /\ store'[h] = [status |-> "prepared", createdAt |-> now, pinned |-> None]
      /\ \A g \in Handles \ {h} : issued'[g] = issued[g] /\ store'[g] = store[g]
  BY DEF CreateHandle, IInv, PayTypes
<1>2. store'[h] \in HandleRecord /\ store'[h].status = "prepared"
  BY <1>1 DEF HandleRecord, IInv, PayTypes
<1>3. PayTypes'
  BY <1>2 DEF CreateHandle, IInv, PayTypes, payVars
<1>4. ExchangeOK'
  BY <1>1 DEF IInv, ExchangeOK, Signing
<1>5. ASSUME NEW c \in Calls PROVE CallOK(c)'
  <2>1. CallOK(c)
    BY DEF IInv
  <2> QED BY <2>1, <1>1 DEF CallOK, payVars
<1>6. ASSUME NEW g \in Handles PROVE IssuedOK(g)'
  BY <1>1 DEF IInv, IssuedOK, Signing, Paying
<1>7. ASSUME NEW g \in Handles PROVE HandleOK(g)'
  <2>1. HandleOK(g) /\ UNCHANGED <<use, told, taken>>
    BY DEF IInv, payVars
  <2>2. CASE g = h
    BY <2>1, <2>2, <1>1, <1>2 DEF HandleOK, Held
  <2>3. CASE g # h
    BY <2>1, <2>3, <1>1 DEF HandleOK, Held, Paying
  <2> QED BY <2>2, <2>3
<1> QED BY <1>3, <1>4, <1>5, <1>6, <1>7 DEF IInv

-----------------------------------------------------------------------------
(* The file of wallets                                                      *)

LEMMA LoadsMatch ==
  ASSUME WalletsOK, NEW m \in Loads
  PROVE  Matches(m)
<1>1. Matches(Empty)
  BY DEF Matches, Empty
<1>2. Matches(validated(disk))
  BY DEF Matches, validated, WalletsOK
<1> QED BY <1>1, <1>2 DEF Loads, WalletsOK

\* What is saved under a name has no HMAC, or one for it.
LEMMA SaveMatches ==
  ASSUME WalletsOK, NEW name, NEW wallet, saveMultisigWallet(name, wallet),
         wallet.hmac # None => wallet.hmac.name = name /\ wallet.hmac.policy = wallet.policy
  PROVE  WalletsOK'
<1>1. PICK m \in Loads : memory' = [m EXCEPT ![name] = wallet]
  BY DEF saveMultisigWallet
<1>2. Matches(m)
  BY LoadsMatch
<1>3. Matches(memory')
  BY <1>1, <1>2 DEF Matches
<1>4. disk' = memory' \/ disk' = disk
  BY DEF saveMultisigWallet
<1> QED BY <1>3, <1>4 DEF WalletsOK, Matches

LEMMA LoadMatches ==
  ASSUME WalletsOK, NEW name, NEW wallet, loadMultisigWallet(name, wallet)
  PROVE  WalletsOK'
BY LoadsMatch DEF loadMultisigWallet, WalletsOK, Matches

LEMMA WalletsStay ==
  ASSUME WalletsOK, UNCHANGED walletVars
  PROVE  WalletsOK'
BY DEF WalletsOK, walletVars, Matches

-----------------------------------------------------------------------------
(* The multisig tools                                                       *)

LEMMA RegisterStep ==
  ASSUME IInv, UNCHANGED payVars, RegisterWithout \/ Register \/ RegisterAnswered
  PROVE  IInv'
<1>1. now \in Nat /\ held \in [Slots -> Psbt] /\ WalletsOK /\ ExchangeOK
  BY DEF IInv, PayTypes
<1>2. UNCHANGED <<use, store, issued, now, held>>
  BY DEF RegisterWithout, Register, RegisterAnswered, storeVars, worldVars
<1>3. ExchangeOK'
  <2>1. CASE RegisterWithout
    BY <2>1, <1>1, <1>2 DEF RegisterWithout, ExchangeOK, Signing
  <2>2. CASE Register
    BY <2>2, <1>2 DEF Register, ExchangeOK, Signing
  <2>3. CASE RegisterAnswered
    BY <2>3 DEF RegisterAnswered, ExchangeOK
  <2> QED BY <2>1, <2>2, <2>3
<1>4. ASSUME NEW name, NEW policy, saveMultisigWallet(name, Unregistered(name, policy))
      PROVE  WalletsOK'
  BY <1>1, <1>4, SaveMatches DEF Unregistered, Without
<1>5. WalletsOK'
  <2>1. CASE RegisterWithout
    BY <2>1, <1>4 DEF RegisterWithout
  <2>2. CASE Register
    BY <2>2, <1>1, WalletsStay DEF Register
  <2>3. CASE RegisterAnswered
    <3>1. ASSUME NEW k, NEW name, NEW policy,
                 saveMultisigWallet(name, [policy |-> policy,
                                           hmac |-> [by |-> k, name |-> name, policy |-> policy]])
          PROVE  WalletsOK'
      BY <1>1, <3>1, SaveMatches
    <3> QED BY <2>3, <3>1, <1>1, <1>4, WalletsStay DEF RegisterAnswered
  <2> QED BY <2>1, <2>2, <2>3
<1> QED BY <1>1, <1>2, <1>3, <1>5, QuietStep

LEMMA SignPsbtStep ==
  ASSUME IInv, UNCHANGED payVars, SignPsbt
  PROVE  IInv'
<1>1. PICK s \in Slots, n \in Names, w \in Wallet, h \in Mintable :
         /\ loadMultisigWallet(n, w)
         /\ CreateHandle(h, [psbt |-> held[s], name |-> n, policy |-> w.policy])
  BY DEF SignPsbt
<1> DEFINE x == [psbt |-> held[s], name |-> n, policy |-> w.policy]
<1>2. x \in PsbtShape
  BY DEF IInv, PayTypes, PsbtShape, Wallet
<1>3. x # None
  BY <1>2, ShapesAssumption, NoneAssumption
<1>4. h \in Handles
  BY DEF Mintable
<1>5. Signing /\ ~Paying /\ UNCHANGED <<use, exchange, held, now>>
  BY DEF SignPsbt, worldVars, Signing, Paying
<1>6. WalletsOK'
  BY <1>1, LoadMatches DEF IInv
<1>7. CreateHandle(h, x)
  BY <1>1
<1> HIDE DEF x
<1> QED BY <1>2, <1>3, <1>4, <1>5, <1>6, <1>7, MintStep

LEMMA SendPsbtStep ==
  ASSUME IInv, UNCHANGED payVars, Send
  PROVE  IInv'
<1>1. PICK h \in Handles, w \in Wallet :
         /\ SentOutcome(h) = "ok"
         /\ loadMultisigWallet(issued[h].name, w)
         /\ exchange' = [op |-> "sign", handle |-> h, name |-> issued[h].name,
                         policy |-> w.policy, hmac |-> w.hmac]
  BY DEF Send
<1>2. WalletsOK'
  BY <1>1, LoadMatches DEF IInv
<1>3. issued[h] # None
  BY <1>1 DEF SentOutcome, Lookup, IInv, HandleOK
<1>4. Signing /\ UNCHANGED <<use, store, issued, now, held>>
  BY DEF Send, worldVars, storeVars
<1>5. ExchangeOK'
  BY <1>1, <1>3, <1>4 DEF ExchangeOK, Signing
<1>6. now' \in Nat /\ held' \in [Slots -> Psbt]
  BY <1>4 DEF IInv, PayTypes
<1> QED BY <1>2, <1>4, <1>5, <1>6, QuietStep

\* A step that changes records and ends nothing else.
LEMMA StoreOnly ==
  ASSUME IInv, StoreStep({}), UNCHANGED <<use, issued, now, held, exchange, payVars>>,
         WalletsOK'
  PROVE  IInv'
<1>1. \A c \in Calls : CallOK(c)'
  BY DEF IInv, CallOK, payVars
<1>2. ExchangeOK'
  BY DEF IInv, ExchangeOK, Signing
<1>3. now' \in Nat /\ held' \in [Slots -> Psbt] /\ calls' \in [Calls -> CallRec]
  BY DEF IInv, PayTypes, payVars
<1>4. UNCHANGED <<told, taken>> /\ taken \subseteq Handles
  BY DEF payVars, IInv, PayTypes
<1> QED BY <1>1, <1>2, <1>3, <1>4, RecordStep

LEMMA PreviewStep ==
  ASSUME IInv, UNCHANGED payVars, Preview
  PROVE  IInv'
<1>1. PICK h \in Handles, t \in Tokens :
         PreviewOutcome(h) = "ok" /\ TransitionToPreviewed(h, [token |-> t, nonce |-> 0])
  BY DEF Preview
<1>2. [token |-> t, nonce |-> 0] \in PreviewPinned
  BY DEF PreviewPinned
<1>3. StoreStep({})
  BY <1>1, <1>2, PreviewedStores DEF IInv
<1>4. WalletsOK'
  BY WalletsStay DEF IInv, Preview
<1> QED BY <1>3, <1>4, StoreOnly DEF Preview, worldVars

LEMMA CancelStep ==
  ASSUME IInv, UNCHANGED payVars, Cancel
  PROVE  IInv'
<1>1. PICK h \in Handles : TransitionToCancelled(h)
  BY DEF Cancel
<1>2. StoreStep({})
  BY <1>1, CancelledStores DEF IInv
<1>3. WalletsOK'
  BY WalletsStay DEF IInv, Cancel
<1> QED BY <1>2, <1>3, StoreOnly DEF Cancel, worldVars

LEMMA SignAnsweredStep ==
  ASSUME IInv, UNCHANGED payVars, SignAnswered
  PROVE  IInv'
<1> DEFINE h == exchange.handle
<1>1. h \in Handles /\ issued[h] # None /\ Signing /\ ~Paying
  BY DEF SignAnswered, IInv, ExchangeOK, Signing, Paying
<1>2. issued[h].psbt \in Psbt
  BY <1>1 DEF IInv, IssuedOK, PsbtShape
<1>3. \E sent : StoreStep(sent)
  <2>1. CASE TransitionToSent(h)
    BY <2>1, <1>1, SentStores DEF IInv
  <2>2. CASE UNCHANGED store
    BY <2>2, NoStoreStep DEF IInv
  <2> QED BY <2>1, <2>2 DEF SignAnswered
<1>4. ASSUME NEW k \in Ledgers PROVE Appended(issued[h].psbt, k) \in Psbt
  <2>1. [by |-> k, n |-> 1] \in Signature
    BY CosigningAssumption DEF Signature
  <2> QED BY <2>1, <1>2 DEF Appended, Psbt
<1>5. held' \in [Slots -> Psbt]
  <2>1. held \in [Slots -> Psbt]
    BY DEF IInv, PayTypes
  <2>2. \/ UNCHANGED held
        \/ \E k \in Ledgers, s \in Slots : held' = [held EXCEPT ![s] = Appended(issued[h].psbt, k)]
    BY DEF SignAnswered
  <2> HIDE DEF h
  <2> QED BY <2>1, <2>2, <1>4
<1>6. \A c \in Calls : CallOK(c)'
  BY DEF IInv, CallOK, SignAnswered, payVars
<1>7. /\ UNCHANGED <<use, issued, told, taken, now>> /\ now' \in Nat /\ taken \subseteq Handles
      /\ calls' \in [Calls -> CallRec] /\ WalletsOK' /\ ExchangeOK'
  BY WalletsStay DEF SignAnswered, payVars, IInv, PayTypes, ExchangeOK
<1> QED BY <1>1, <1>3, <1>5, <1>6, <1>7, RecordStep

LEMMA CombineStep ==
  ASSUME IInv, UNCHANGED payVars, Combine
  PROVE  IInv'
<1>1. held \in [Slots -> Psbt] /\ now \in Nat
  BY DEF IInv, PayTypes
<1>2. ASSUME NEW psbts \in SUBSET Psbt, NEW first \in psbts
      PROVE  combineBtcPsbts(first, psbts) \in Psbt
  <2>1. Merged(first, psbts) \in Psbt
    BY <1>2 DEF Merged, Psbt
  <2> QED BY <2>1 DEF combineBtcPsbts
<1>3. PICK s \in Slots, others \in SUBSET Slots :
        held' = [held EXCEPT ![s] = combineBtcPsbts(@, {held[o] : o \in others \cup {s}})]
  BY DEF Combine
<1> DEFINE psbts == {held[o] : o \in others \cup {s}}
<1>4. psbts \in SUBSET Psbt /\ held[s] \in psbts
  BY <1>1
<1>5. held' \in [Slots -> Psbt]
  <2>1. held' = [held EXCEPT ![s] = combineBtcPsbts(held[s], psbts)]
    BY <1>1, <1>3
  <2> HIDE DEF psbts
  <2> QED BY <2>1, <1>1, <1>2, <1>4
<1>6. UNCHANGED <<use, store, issued, now, exchange, walletVars>>
  BY DEF Combine, storeVars
<1>7. WalletsOK' /\ ExchangeOK'
  BY <1>6, WalletsStay DEF IInv, ExchangeOK, Signing
<1> QED BY <1>1, <1>5, <1>6, <1>7, QuietStep

LEMMA CosignStep ==
  ASSUME IInv, UNCHANGED payVars, Cosign
  PROVE  IInv'
<1>1. held \in [Slots -> Psbt] /\ now \in Nat
  BY DEF IInv, PayTypes
<1>2. PICK s \in Slots, k \in Signers \ Ledgers, n \in {1, 2}, signed \in SUBSET Inputs :
         /\ signed # {}
         /\ k \in PolicyOf[held[s].tx].keys
         /\ \A i \in signed : ~SignedBy(held[s], i, k)
         /\ held' = [held EXCEPT ![s].sigs =
                       [i \in Inputs |-> IF i \in signed THEN @[i] \cup {[by |-> k, n |-> n]} ELSE @[i]]]
  BY Zenon DEF Cosign
<1>3. [by |-> k, n |-> n] \in Signature
  BY DEF Signature
<1>4. held' \in [Slots -> Psbt]
  BY <1>1, <1>2, <1>3 DEF Psbt
<1>5. UNCHANGED <<use, store, issued, now, exchange, walletVars>>
  BY DEF Cosign, storeVars
<1>6. WalletsOK' /\ ExchangeOK'
  BY <1>5, WalletsStay DEF IInv, ExchangeOK, Signing
<1> QED BY <1>1, <1>4, <1>5, <1>6, QuietStep

LEMMA WatchStep ==
  ASSUME IInv, UNCHANGED payVars, Finalize \/ ScanStart \/ ScanBatch \/ Evict \/ SignMessage \/ Receive \/ Tick
  PROVE  IInv'
<1>1. UNCHANGED <<use, store, issued, exchange, held>> /\ now' \in Nat
  BY DEF IInv, PayTypes, Finalize, ScanStart, ScanBatch, Evict, SignMessage, Receive, Tick, storeVars,
         worldVars
<1>2. held' \in [Slots -> Psbt] /\ ExchangeOK'
  BY <1>1 DEF IInv, PayTypes, ExchangeOK, Signing
<1>3. WalletsOK'
  <2>1. CASE ScanStart
    BY <2>1, LoadMatches DEF ScanStart, IInv
  <2>2. CASE UNCHANGED walletVars
    BY <2>2, WalletsStay DEF IInv
  <2> QED BY <2>1, <2>2 DEF Finalize, ScanBatch, Evict, SignMessage, Receive, Tick
<1> QED BY <1>1, <1>2, <1>3, QuietStep

LEMMA RestartStep ==
  ASSUME IInv, UNCHANGED payVars, Restart
  PROVE  IInv'
<1>1. /\ StoreStep({}) /\ UNCHANGED <<use, issued, now, held, told, taken>>
      /\ memory' = None /\ disk' = disk /\ exchange' = None
  BY LostStoreStep DEF Restart, worldVars, payVars
<1>2. WalletsOK' /\ ExchangeOK'
  BY <1>1 DEF WalletsOK, ExchangeOK, Matches, IInv
<1>3. \A c \in Calls : CallOK(c)'
  BY <1>1 DEF IInv, CallOK, payVars
<1>4. /\ now' \in Nat /\ held' \in [Slots -> Psbt] /\ calls' \in [Calls -> CallRec]
      /\ taken \subseteq Handles
  BY <1>1 DEF IInv, PayTypes, payVars
<1> QED BY <1>1, <1>2, <1>3, <1>4, RecordStep

LEMMA NextStep ==
  ASSUME IInv, UNCHANGED payVars, Next
  PROVE  IInv'
BY RegisterStep, SignPsbtStep, SendPsbtStep, PreviewStep, CancelStep, SignAnsweredStep, CombineStep,
   CosignStep, WatchStep, RestartStep DEF Next

-----------------------------------------------------------------------------
(* Payments                                                                 *)

\* The tools that prepare a payment.
LEMMA MintPayment ==
  ASSUME IInv, NEW x \in Payment, Mint(x)
  PROVE  IInv'
<1>1. PICK h \in Mintable : CreateHandle(h, x)
  BY DEF Mint
<1>2. h \in Handles
  BY DEF Mintable
<1>3. x # None
  BY PayAssumption, NoneAssumption
<1>4. Paying /\ ~Signing
  BY DEF Mint, Paying, Signing
<1>5. UNCHANGED <<use, exchange, held, now, payVars, walletVars>>
  BY DEF Mint, worldVars
<1>6. WalletsOK'
  BY <1>5, WalletsStay DEF IInv
<1> QED BY <1>1, <1>2, <1>3, <1>4, <1>5, <1>6, MintStep

LEMMA PrepareStep ==
  ASSUME IInv, \/ PrepareBtcSend \/ PrepareLitecoinNativeSend
               \/ PrepareBtcRbfBump \/ PrepareBtcLifiSwap
  PROVE  IInv'
<1>1. \A net : CoinsOf(net) \subseteq SUBSET Coins
  BY DEF CoinsOf
<1>2. CASE PrepareBtcSend
  <2>1. PICK ins \in CoinsOf("btc"), rbf \in BOOLEAN :
           Mint([kind |-> "btc", coins |-> ins, rbf |-> rbf])
    BY <1>2 DEF PrepareBtcSend
  <2>2. [kind |-> "btc", coins |-> ins, rbf |-> rbf] \in Payment
    BY <1>1 DEF Payment
  <2> QED BY <2>1, <2>2, MintPayment
<1>3. CASE PrepareLitecoinNativeSend
  <2>1. PICK ins \in CoinsOf("ltc") : Mint([kind |-> "ltc", coins |-> ins, rbf |-> FALSE])
    BY <1>3 DEF PrepareLitecoinNativeSend
  <2>2. [kind |-> "ltc", coins |-> ins, rbf |-> FALSE] \in Payment
    BY <1>1 DEF Payment
  <2> QED BY <2>1, <2>2, MintPayment
<1>4. CASE PrepareBtcRbfBump
  <2>1. PICK h \in taken : Mint([kind |-> "bump", coins |-> issued[h].coins, rbf |-> TRUE])
    BY <1>4 DEF PrepareBtcRbfBump
  <2>2. [kind |-> "bump", coins |-> issued[h].coins, rbf |-> TRUE] \in Payment
    BY DEF Payment, IInv, PayTypes, IssuedOK, HandleOK, Paying
  <2> QED BY <2>1, <2>2, MintPayment
<1>5. CASE PrepareBtcLifiSwap
  <2>1. PICK ins \in LifiPsbts : Mint([kind |-> "lifi", coins |-> ins, rbf |-> TRUE])
    BY <1>5 DEF PrepareBtcLifiSwap
  <2>2. [kind |-> "lifi", coins |-> ins, rbf |-> TRUE] \in Payment
    BY <1>1 DEF Payment, LifiPsbts
  <2> QED BY <2>1, <2>2, MintPayment
<1> QED BY <1>2, <1>3, <1>4, <1>5

LEMMA PreviewPaymentStep ==
  ASSUME IInv, NEW kinds, PreviewOf(kinds)
  PROVE  IInv'
<1>1. PICK h \in Handles, t \in Tokens :
         PreviewOutcome(h) = "ok" /\ TransitionToPreviewed(h, [token |-> t, nonce |-> 0])
  BY DEF PreviewOf
<1>2. [token |-> t, nonce |-> 0] \in PreviewPinned
  BY DEF PreviewPinned
<1>3. StoreStep({})
  BY <1>1, <1>2, PreviewedStores DEF IInv
<1>4. WalletsOK'
  BY WalletsStay DEF IInv, PreviewOf
<1> QED BY <1>3, <1>4, StoreOnly DEF PreviewOf, worldVars

\* A step of a call of send_transaction, or of the network, that leaves the records alone.
LEMMA CallStep ==
  ASSUME IInv, UNCHANGED <<use, walletVars, exchange, worldVars, storeVars, told>>,
         taken \subseteq taken', taken' \subseteq Handles,
         \A h \in taken' : h \in taken \/ (use = "pay" /\ issued[h] # None),
         calls' \in [Calls -> CallRec], \A c \in Calls : CallOK(c)'
  PROVE  IInv'
<1>1. StoreStep({})
  BY NoStoreStep DEF IInv, storeVars
<1>2. WalletsOK' /\ ExchangeOK'
  BY WalletsStay DEF IInv, ExchangeOK, Signing, storeVars
<1>3. now' \in Nat /\ held' \in [Slots -> Psbt] /\ UNCHANGED issued
  BY DEF IInv, PayTypes, storeVars, worldVars
<1> QED BY <1>1, <1>2, <1>3, RecordStep

LEMMA StartsStep ==
  ASSUME IInv, NEW c \in Calls, NEW kinds, Starts(c, kinds)
  PROVE  IInv'
<1>1. PICK h \in Handles :
         /\ SentOutcome(h) = "ok"
         /\ calls' = [calls EXCEPT ![c] = [Idle EXCEPT !.pc = "device", !.handle = h]]
  BY DEF Starts
<1>2. issued[h] # None
  BY <1>1 DEF SentOutcome, Lookup, IInv, HandleOK
<1>3. calls' \in [Calls -> CallRec]
  BY <1>1 DEF IInv, PayTypes, CallRec, Idle
<1>4. use = "pay" /\ UNCHANGED <<use, walletVars, exchange, worldVars, storeVars, issued, taken, told>>
  BY DEF Starts, payWorld, storeVars
<1>5. ASSUME NEW d \in Calls PROVE CallOK(d)'
  <2>1. CASE d = c
    <3>1. calls'[d].pc = "device" /\ calls'[d].handle = h
      BY <2>1, <1>1 DEF IInv, PayTypes, Idle
    <3> QED BY <3>1, <1>2, <1>4 DEF CallOK
  <2>2. CASE d # c
    <3>1. CallOK(d) /\ calls'[d] = calls[d]
      BY <2>2, <1>1 DEF IInv, PayTypes
    <3> QED BY <3>1, <1>4 DEF CallOK
  <2> QED BY <2>1, <2>2
<1>6. taken \subseteq Handles
  BY DEF IInv, PayTypes
<1> QED BY <1>3, <1>4, <1>5, <1>6, CallStep

LEMMA SignedStep ==
  ASSUME IInv, NEW c \in Calls, NEW kinds, Signed(c, kinds)
  PROVE  IInv'
<1>1. \/ calls' = [calls EXCEPT ![c].pc = "post"]
      \/ calls' = [calls EXCEPT ![c] = Idle]
  BY DEF Signed
<1>2. calls[c] \in CallRec /\ calls[c].pc # "idle" /\ CallOK(c)
  BY DEF Signed, IInv, PayTypes
<1>3. calls' \in [Calls -> CallRec]
  BY <1>1, <1>2 DEF IInv, PayTypes, CallRec, Idle
<1>4. UNCHANGED <<use, walletVars, exchange, worldVars, storeVars, issued, taken, told>>
  BY DEF Signed, payWorld, storeVars
<1>5. ASSUME NEW d \in Calls PROVE CallOK(d)'
  <2>1. CASE d = c
    <3>1. calls'[d].pc = "idle" \/ (calls'[d].pc = "post" /\ calls'[d].handle = calls[c].handle)
      BY <2>1, <1>1, <1>2 DEF IInv, PayTypes, Idle, CallRec
    <3> QED BY <3>1, <1>2, <1>4 DEF CallOK
  <2>2. CASE d # c
    <3>1. CallOK(d) /\ calls'[d] = calls[d]
      BY <2>2, <1>1 DEF IInv, PayTypes
    <3> QED BY <3>1, <1>4 DEF CallOK
  <2> QED BY <2>1, <2>2
<1>6. taken \subseteq Handles
  BY DEF IInv, PayTypes
<1> QED BY <1>3, <1>4, <1>5, <1>6, CallStep

\* A success is heard only of a transaction that was just taken.
LEMMA PostedStep ==
  ASSUME IInv, NEW c \in Calls, NEW kinds, Posted(c, kinds)
  PROVE  IInv'
<1> DEFINE h == calls[c].handle
<1>1. PICK r \in {"ok", "error", "rejected"} :
         /\ calls' = [calls EXCEPT ![c].pc = "answer", ![c].result = r]
         /\ \/ taken' = taken \cup {h}
            \/ taken' = taken /\ r # "ok"
  BY DEF Posted
<1>2. calls[c] \in CallRec /\ use = "pay" /\ h \in Handles /\ issued[h] # None
  BY DEF Posted, IInv, PayTypes, CallOK
<1>3. /\ calls' \in [Calls -> CallRec]
      /\ calls'[c].pc = "answer" /\ calls'[c].handle = h /\ calls'[c].result = r
      /\ \A d \in Calls \ {c} : calls'[d] = calls[d]
  BY <1>1, <1>2 DEF IInv, PayTypes, CallRec
<1>4. UNCHANGED <<use, walletVars, exchange, worldVars, storeVars, issued, told>>
  BY DEF Posted, storeVars
<1>5. taken \subseteq taken' /\ (r = "ok" => h \in taken')
  BY <1>1
<1>6. taken' \subseteq Handles /\ \A g \in taken' : g \in taken \/ (use = "pay" /\ issued[g] # None)
  BY <1>1, <1>2 DEF IInv, PayTypes
<1>7. ASSUME NEW d \in Calls PROVE CallOK(d)'
  <2>1. CASE d = c
    BY <2>1, <1>2, <1>3, <1>4, <1>5 DEF CallOK
  <2>2. CASE d # c
    <3>1. CallOK(d) /\ calls'[d] = calls[d]
      BY <2>2, <1>3 DEF IInv
    <3> QED BY <3>1, <1>4, <1>5 DEF CallOK
  <2> QED BY <2>1, <2>2
<1> HIDE DEF h
<1> QED BY <1>3, <1>4, <1>5, <1>6, <1>7, CallStep

\* A handle is told once: it was previewed before, so it had not been told, and it is sent
\* from now on.
LEMMA AnswersStep ==
  ASSUME IInv, NEW c \in Calls, NEW kinds, Answers(c, kinds)
  PROVE  IInv'
<1> DEFINE h == calls[c].handle
<1>1. /\ calls[c].pc = "answer" /\ use = "pay" /\ h \in Handles /\ issued[h] # None
      /\ calls[c].result = "ok" => h \in taken
  BY DEF Answers, IInv, CallOK
<1>2. /\ calls' = [calls EXCEPT ![c] = Idle]
      /\ UNCHANGED <<use, walletVars, exchange, held, issued, now, taken>>
  BY DEF Answers, worldVars, payWorld
<1>3. calls' \in [Calls -> CallRec]
  BY <1>2 DEF IInv, PayTypes, CallRec, Idle
<1>4. ASSUME NEW d \in Calls PROVE CallOK(d)'
  <2>1. CASE d = c
    BY <2>1, <1>2 DEF CallOK, IInv, PayTypes, Idle
  <2>2. CASE d # c
    <3>1. CallOK(d) /\ calls'[d] = calls[d]
      BY <2>2, <1>2 DEF IInv, PayTypes
    <3> QED BY <3>1, <1>2 DEF CallOK
  <2> QED BY <2>1, <2>2
<1>5. WalletsOK' /\ ExchangeOK'
  BY <1>2, WalletsStay DEF IInv, ExchangeOK, Signing
<1>6. now' \in Nat /\ held' \in [Slots -> Psbt] /\ taken \subseteq Handles /\ told \in [Handles -> Nat]
  BY <1>2 DEF IInv, PayTypes
<1>7. ASSUME NEW sent, StoreStep(sent), \A g \in Handles \cap sent : g \in taken, UNCHANGED told
      PROVE  IInv'
  BY <1>2, <1>3, <1>4, <1>5, <1>6, <1>7, RecordStep
<1>8. CASE ~BroadcastOk(c)
  <2>1. UNCHANGED <<store, told>>
    BY <1>8 DEF Answers
  <2>2. StoreStep({})
    BY <2>1, NoStoreStep DEF IInv
  <2> QED BY <2>1, <2>2, <1>7
<1>9. CASE BroadcastOk(c) /\ SentOutcome(h) # "ok"
  <2>1. TransitionToSent(h) /\ UNCHANGED told
    BY <1>9 DEF Answers
  <2>2. StoreStep({h}) /\ h \in taken
    BY <2>1, <1>1, <1>9, SentStores DEF IInv, BroadcastOk
  <2> HIDE DEF h
  <2> QED BY <2>1, <2>2, <1>7
<1>10. CASE BroadcastOk(c) /\ SentOutcome(h) = "ok"
  <2>1. TransitionToSent(h) /\ told' = [told EXCEPT ![h] = @ + 1] /\ h \in taken
    BY <1>1, <1>10 DEF Answers, BroadcastOk
  <2>2. StoreStep({h}) /\ Held(h) /\ store[h].status = "previewed" /\ store'[h].status = "sent"
    BY <2>1, <1>1, <1>10, SentStores DEF IInv
  <2> HIDE DEF h
  <2>3. told[h] = 0
    BY <2>2, <1>1 DEF IInv, HandleOK
  <2>4. told' \in [Handles -> Nat] /\ told'[h] = 1 /\ \A g \in Handles \ {h} : told'[g] = told[g]
    BY <2>1, <2>3, <1>1, <1>6
  <2>5. PayTypes'
    BY <2>2, <2>4, <1>2, <1>3 DEF IInv, PayTypes, StoreStep
  <2>6. ASSUME NEW g \in Handles PROVE IssuedOK(g)'
    BY <1>2 DEF IInv, IssuedOK, Signing, Paying
  <2>7. ASSUME NEW g \in Handles PROVE HandleOK(g)'
    <3>1. HandleOK(g)
      BY DEF IInv
    <3>2. store'[g] # None =>
            /\ store[g] # None
            /\ store[g].status = "sent" => store'[g].status = "sent"
            /\ store'[g].status = "sent" => store[g].status = "sent" \/ g = h
      BY <2>2 DEF StoreStep
    <3>3. CASE g = h
      BY <3>1, <3>2, <3>3, <2>1, <2>2, <2>4, <1>1, <1>2 DEF HandleOK, Held, Paying
    <3>4. CASE g # h
      BY <3>1, <3>2, <3>4, <2>4, <1>2 DEF HandleOK, Held, Paying
    <3> QED BY <3>3, <3>4
  <2> QED BY <2>5, <2>6, <2>7, <1>4, <1>5 DEF IInv
<1> QED BY <1>8, <1>9, <1>10

LEMMA OthersStep ==
  ASSUME IInv, Simulated \/ Spend \/ Unpair \/ PayTick \/ PayRestart
  PROVE  IInv'
<1>1. taken \subseteq Handles /\ calls \in [Calls -> CallRec]
  BY DEF IInv, PayTypes
<1>2. CASE Simulated \/ Spend \/ Unpair
  <2>1. UNCHANGED <<use, walletVars, exchange, worldVars, storeVars, issued, calls, taken, told>>
    BY <1>2 DEF Simulated, Spend, Unpair, payVars, storeVars
  <2>2. \A c \in Calls : CallOK(c)'
    BY <2>1 DEF IInv, CallOK
  <2> QED BY <2>1, <2>2, <1>1, CallStep
<1>3. CASE PayTick
  <2>1. UNCHANGED <<use, store, issued, payVars, held, exchange, walletVars>> /\ now' \in Nat
    BY <1>3 DEF PayTick, worldVars, IInv, PayTypes
  <2>2. WalletsOK' /\ ExchangeOK' /\ held' \in [Slots -> Psbt]
    BY <2>1, WalletsStay DEF IInv, ExchangeOK, Signing, PayTypes
  <2> QED BY <2>1, <2>2, QuietStep
<1>4. CASE PayRestart
  <2>1. /\ StoreStep({}) /\ UNCHANGED <<use, issued, now, held, told, taken, walletVars, exchange>>
        /\ calls' = [c \in Calls |-> Idle]
    BY <1>4, LostStoreStep DEF PayRestart, worldVars, payWorld
  <2>2. calls' \in [Calls -> CallRec] /\ \A c \in Calls : CallOK(c)'
    BY <2>1 DEF CallRec, Idle, CallOK
  <2>3. WalletsOK' /\ ExchangeOK' /\ now' \in Nat /\ held' \in [Slots -> Psbt]
    BY <2>1, WalletsStay DEF IInv, ExchangeOK, Signing, PayTypes
  <2> QED BY <2>1, <2>2, <2>3, <1>1, RecordStep
<1> QED BY <1>2, <1>3, <1>4

LEMMA InitHolds == PayInit => IInv
<1> SUFFICES ASSUME PayInit PROVE IInv
  OBVIOUS
<1>1. \A t \in Txs : Unsigned(t) \in Psbt
  BY DEF Unsigned, Psbt
<1>2. held \in [Slots -> Psbt]
  <2>1. (CHOOSE x \in Txs : TRUE) \in Txs
    BY CosigningAssumption
  <2> QED BY <1>1, <2>1 DEF PayInit, Init
<1>3. PayTypes
  BY <1>2 DEF PayInit, Init, StoreInit, PayTypes, CallRec, Idle
<1>4. Matches(Empty) /\ \A n \in Names : Matches([Empty EXCEPT ![n] = Broken])
  BY DEF Matches, Empty, Broken
<1>5. WalletsOK /\ ExchangeOK
  BY <1>4 DEF PayInit, Init, WalletsOK, ExchangeOK
<1>6. \A c \in Calls : CallOK(c)
  BY DEF PayInit, CallOK, Idle
<1>7. \A h \in Handles : IssuedOK(h) /\ HandleOK(h)
  BY DEF PayInit, Init, StoreInit, IssuedOK, HandleOK, Held
<1> QED BY <1>3, <1>5, <1>6, <1>7 DEF IInv

\* Every state that is reached is one the steps above start from.
THEOREM CosigningInvariance == PaySpec => []IInv
<1>1. IInv /\ [PayNext]_<<vars, payVars>> => IInv'
  <2> SUFFICES ASSUME IInv, [PayNext]_<<vars, payVars>> PROVE IInv'
    OBVIOUS
  <2>1. ASSUME NEW c \in Calls,
               \/ SendBtc(c) \/ SendLtc(c) \/ SendLifi(c) \/ SignBtcPsbt(c) \/ SignLtcPsbt(c)
               \/ BroadcastTx(c) \/ LtcBroadcastTx(c) \/ AnswerBtc(c) \/ AnswerLtc(c) \/ AnswerLifi(c)
        PROVE  IInv'
    BY <2>1, StartsStep, SignedStep, PostedStep, AnswersStep
       DEF SendBtc, SendLtc, SendLifi, SignBtcPsbt, SignLtcPsbt, BroadcastTx, LtcBroadcastTx,
           AnswerBtc, AnswerLtc, AnswerLifi
  <2>2. CASE PreviewBtc \/ PreviewLtc \/ PreviewLifi
    BY <2>2, PreviewPaymentStep DEF PreviewBtc, PreviewLtc, PreviewLifi
  <2>3. CASE UNCHANGED <<vars, payVars>>
    <3>1. UNCHANGED <<use, store, issued, now, held, exchange, walletVars, payVars>>
      BY <2>3 DEF vars, worldVars, storeVars
    <3>2. WalletsOK' /\ ExchangeOK' /\ now' \in Nat /\ held' \in [Slots -> Psbt]
      BY <3>1, WalletsStay DEF IInv, ExchangeOK, Signing, PayTypes
    <3> QED BY <3>1, <3>2, QuietStep
  <2> QED BY <2>1, <2>2, <2>3, NextStep, PrepareStep, OthersStep DEF PayNext
<1> QED BY <1>1, InitHolds, PTL DEF PaySpec

-----------------------------------------------------------------------------
(* What holds                                                               *)

\* However wallets are registered, again and again, with the device, without it, with a
\* write that fails or a restart in between, the HMAC kept beside a descriptor is for it.
THEOREM HmacsStayWithPolicies == PaySpec => []PolicyMatches
<1>1. IInv => PolicyMatches
  BY DEF IInv, WalletsOK, Matches, PolicyMatches
<1> QED BY <1>1, CosigningInvariance, PTL

\* What send_transaction answers of a payment is true, for any number of calls of one
\* handle and whatever is lost, cancelled or retried while the device or a node is asked.
THEOREM PaymentsAreToldTruly == PaySpec => []BroadcastIsTrue
<1>1. IInv => BroadcastIsTrue
  <2> SUFFICES ASSUME IInv, NEW h \in Handles
               PROVE  /\ told[h] <= 1
                      /\ (told[h] = 1 \/ (Paying /\ Held(h) /\ store[h].status = "sent")) => h \in taken
                      /\ use = "demo" => h \notin taken
    BY DEF BroadcastIsTrue
  <2>1. HandleOK(h) /\ told[h] \in Nat
    BY DEF IInv, PayTypes
  <2> QED BY <2>1 DEF HandleOK
<1> QED BY <1>1, CosigningInvariance, PTL

\* Which actions change what the agent holds.
LEMMA HeldChanges ==
  ASSUME [PayNext]_<<vars, payVars>>
  PROVE  \/ UNCHANGED <<held, cosigns>>
         \/ SignAnswered /\ UNCHANGED cosigns
         \/ Combine /\ UNCHANGED cosigns
         \/ Cosign
<1>1. CASE Next
  <2>1. CASE RegisterWithout \/ Register \/ RegisterAnswered \/ SignPsbt \/ Preview \/ Cancel \/ Send
    BY <2>1 DEF RegisterWithout, Register, RegisterAnswered, SignPsbt, Preview, Cancel, Send, worldVars
  <2>2. CASE Finalize \/ ScanStart \/ ScanBatch \/ Evict \/ SignMessage \/ Receive \/ Tick \/ Restart
    BY <2>2 DEF Finalize, ScanStart, ScanBatch, Evict, SignMessage, Receive, Tick, Restart, worldVars
  <2>3. CASE SignAnswered \/ Combine \/ Cosign
    BY <2>3 DEF SignAnswered, Combine
  <2> QED BY <1>1, <2>1, <2>2, <2>3 DEF Next
<1>2. CASE \/ PrepareBtcSend \/ PrepareLitecoinNativeSend \/ PrepareBtcRbfBump \/ PrepareBtcLifiSwap
           \/ PreviewBtc \/ PreviewLtc \/ PreviewLifi
  BY <1>2 DEF PrepareBtcSend, PrepareLitecoinNativeSend, PrepareBtcRbfBump, PrepareBtcLifiSwap, Mint,
              PreviewBtc, PreviewLtc, PreviewLifi, PreviewOf, worldVars
<1>3. ASSUME NEW c \in Calls,
             \/ SendBtc(c) \/ SendLtc(c) \/ SendLifi(c) \/ SignBtcPsbt(c) \/ SignLtcPsbt(c)
             \/ BroadcastTx(c) \/ LtcBroadcastTx(c) \/ AnswerBtc(c) \/ AnswerLtc(c) \/ AnswerLifi(c)
      PROVE  UNCHANGED <<held, cosigns>>
  BY <1>3 DEF SendBtc, SendLtc, SendLifi, SignBtcPsbt, SignLtcPsbt, BroadcastTx, LtcBroadcastTx,
              AnswerBtc, AnswerLtc, AnswerLifi, Starts, Signed, Posted, Answers, worldVars
<1>4. CASE Simulated \/ Spend \/ Unpair \/ PayTick \/ PayRestart
  BY <1>4 DEF Simulated, Spend, Unpair, PayTick, PayRestart, worldVars
<1>5. CASE UNCHANGED <<vars, payVars>>
  BY <1>5 DEF vars, worldVars
<1> QED BY <1>1, <1>2, <1>3, <1>4, <1>5 DEF PayNext

\* What combining puts in place of a PSBT is made of signatures that were there, of which
\* it loses none.
LEMMA MergedSigs ==
  ASSUME NEW psbts \in SUBSET Psbt, NEW first \in psbts, NEW i \in Inputs
  PROVE  /\ Merged(first, psbts).sigs[i] \subseteq UNION {p.sigs[i] : p \in psbts}
         /\ first.sigs[i] \subseteq Merged(first, psbts).sigs[i]
         /\ ~Conflict(first, psbts) =>
               \A p \in psbts : p.sigs[i] \subseteq Merged(first, psbts).sigs[i]
<1> DEFINE all == UNION {p.sigs[i] : p \in psbts}
           kept == {x \in all : \A y \in all : y.by = x.by =>
                                  x \in first.sigs[i] \/ (y \notin first.sigs[i] /\ x.n <= y.n)}
<1>1. Merged(first, psbts).sigs[i] = kept
  BY DEF Merged, Psbt
<1>2. first.sigs[i] \subseteq kept
  OBVIOUS
<1>3. ASSUME ~Conflict(first, psbts), NEW p \in psbts, NEW x \in p.sigs[i]
      PROVE  x \in kept
  <2>1. all \subseteq Signature
    BY DEF Psbt
  <2>2. x \in all
    OBVIOUS
  <2>3. ASSUME NEW y \in all, y.by = x.by PROVE y = x
    <3>1. PICK q \in psbts : y \in q.sigs[i]
      OBVIOUS
    <3>2. x.n = y.n
      BY <1>3, <2>3, <3>1 DEF Conflict
    <3> QED BY <2>1, <2>2, <2>3, <3>2 DEF Signature
  <2>4. x.n <= x.n
    BY <2>1, <2>2 DEF Signature
  <2> QED BY <2>2, <2>3, <2>4
<1> QED BY <1>1, <1>2, <1>3

\* The user's signature appears only when its handle becomes sent, whatever is cancelled,
\* expires or is combined while the device is asked.
THEOREM SignaturesComeFromSends == PaySpec => SignatureIsSent
<1> DEFINE FromSend ==
      \A s \in Slots, k \in Ledgers, i \in Inputs :
          SignedBy(held'[s], i, k) /\ (\A o \in Slots : ~SignedBy(held[o], i, k))
             => \E h \in Handles :
                  /\ Held(h) /\ store[h].status = "previewed"
                  /\ store'[h].status = "sent"
                  /\ \E l \in Ledgers : held'[s] = Appended(issued[h].psbt, l)
<1>1. IInv /\ [PayNext]_<<vars, payVars>> => [FromSend]_vars
  <2> SUFFICES ASSUME IInv, [PayNext]_<<vars, payVars>>,
                      NEW s \in Slots, NEW k \in Ledgers, NEW i \in Inputs,
                      SignedBy(held'[s], i, k), \A o \in Slots : ~SignedBy(held[o], i, k)
               PROVE  \E h \in Handles :
                        /\ Held(h) /\ store[h].status = "previewed"
                        /\ store'[h].status = "sent"
                        /\ \E l \in Ledgers : held'[s] = Appended(issued[h].psbt, l)
    OBVIOUS
  <2>1. held'[s] # held[s] /\ held \in [Slots -> Psbt]
    BY DEF SignedBy, IInv, PayTypes
  <2>2. CASE SignAnswered
    <3> DEFINE h == exchange.handle
    <3>1. PICK l \in Ledgers, o \in Slots :
            /\ MayAnswer(h) /\ TransitionToSent(h)
            /\ held' = [held EXCEPT ![o] = Appended(issued[h].psbt, l)]
      BY <2>1, <2>2 DEF SignAnswered
    <3>2. h \in Handles
      BY <2>2 DEF SignAnswered, IInv, ExchangeOK
    <3>3. Held(h) /\ store[h].status = "previewed" /\ store'[h].status = "sent"
      BY <3>1, <3>2, SentStores DEF MayAnswer, IInv
    <3>4. held'[s] = Appended(issued[h].psbt, l)
      BY <2>1, <3>1
    <3> QED BY <3>2, <3>3, <3>4
  <2>3. CASE Combine
    <3>1. PICK o \in Slots, others \in SUBSET Slots :
            held' = [held EXCEPT ![o] = combineBtcPsbts(@, {held[p] : p \in others \cup {o}})]
      BY <2>3 DEF Combine
    <3> DEFINE psbts == {held[p] : p \in others \cup {o}}
    <3>2. psbts \in SUBSET Psbt /\ held[o] \in psbts /\ psbts \subseteq {held[p] : p \in Slots}
      BY <2>1
    <3>3. s = o /\ held'[s] = combineBtcPsbts(held[s], psbts)
      BY <2>1, <3>1
    <3> HIDE DEF psbts
    <3>4. held'[s] = Merged(held[s], psbts)
      BY <2>1, <3>3 DEF combineBtcPsbts
    <3>5. PICK x \in held'[s].sigs[i] : x.by = k
      BY DEF SignedBy
    <3>6. x \in UNION {p.sigs[i] : p \in psbts}
      BY <3>2, <3>3, <3>4, <3>5, MergedSigs
    <3> QED BY <3>2, <3>5, <3>6 DEF SignedBy
  <2>4. CASE Cosign
    <3>1. PICK o \in Slots, j \in Signers \ Ledgers, n \in {1, 2}, signed \in SUBSET Inputs :
            /\ signed # {}
            /\ j \in PolicyOf[held[o].tx].keys
            /\ \A m \in signed : ~SignedBy(held[o], m, j)
            /\ held' = [held EXCEPT ![o].sigs =
                          [m \in Inputs |-> IF m \in signed THEN @[m] \cup {[by |-> j, n |-> n]} ELSE @[m]]]
      BY <2>4, Zenon DEF Cosign
    <3>2. s = o
      BY <2>1, <3>1
    <3>3. held'[s].sigs[i] \subseteq held[s].sigs[i] \cup {[by |-> j, n |-> n]}
      BY <2>1, <3>1, <3>2 DEF Psbt
    <3>4. PICK x \in held'[s].sigs[i] : x.by = k
      BY DEF SignedBy
    <3>5. x.by = j
      BY <3>3, <3>4 DEF SignedBy
    <3> QED BY <3>4, <3>5
  <2> QED BY <2>1, <2>2, <2>3, <2>4, HeldChanges
<1> QED BY <1>1, CosigningInvariance, PTL DEF PaySpec, SignatureIsSent

\* Signatures of the co-signers are counted: the count tells their steps from the others.
LEMMA CosignsCounted == PaySpec => [](cosigns \in Nat)
<1>1. PayInit => cosigns \in Nat
  BY DEF PayInit, Init
<1>2. cosigns \in Nat /\ [PayNext]_<<vars, payVars>> => (cosigns \in Nat)'
  BY HeldChanges DEF Cosign
<1> QED BY <1>1, <1>2, PTL DEF PaySpec

\* Combining loses no signature, of any number of PSBTs at a time: a conflict is refused
\* before the library that would resolve it silently is asked.
THEOREM CombiningLosesNothing == PaySpec => CombineKeepsAll
<1> DEFINE Keeps ==
      \A s \in Slots :
          held'[s] # held[s] /\ cosigns' = cosigns /\ exchange' = exchange
             => /\ \A i \in Inputs : held[s].sigs[i] \subseteq held'[s].sigs[i]
                /\ \E o \in Slots \ {s} : \A i \in Inputs : held[o].sigs[i] \subseteq held'[s].sigs[i]
<1>1. IInv /\ cosigns \in Nat /\ [PayNext]_<<vars, payVars>> => [Keeps]_vars
  <2> SUFFICES ASSUME IInv, cosigns \in Nat, [PayNext]_<<vars, payVars>>, NEW s \in Slots,
                      held'[s] # held[s], cosigns' = cosigns, exchange' = exchange
               PROVE  /\ \A i \in Inputs : held[s].sigs[i] \subseteq held'[s].sigs[i]
                      /\ \E o \in Slots \ {s} : \A i \in Inputs : held[o].sigs[i] \subseteq held'[s].sigs[i]
    OBVIOUS
  <2>1. held \in [Slots -> Psbt]
    BY DEF IInv, PayTypes
  <2>2. Combine
    <3>1. ~SignAnswered
      BY DEF SignAnswered
    <3>2. ~Cosign
      BY DEF Cosign
    <3> QED BY <3>1, <3>2, HeldChanges
  <2>3. PICK t \in Slots, others \in SUBSET Slots :
          /\ others \ {t} # {}
          /\ held' = [held EXCEPT ![t] = combineBtcPsbts(@, {held[p] : p \in others \cup {t}})]
    BY <2>2 DEF Combine
  <2> DEFINE psbts == {held[p] : p \in others \cup {t}}
  <2>4. s = t /\ held'[s] = combineBtcPsbts(held[s], psbts)
    BY <2>1, <2>3
  <2>5. PICK o \in others : o # s
    BY <2>3, <2>4
  <2>6. psbts \in SUBSET Psbt /\ held[s] \in psbts /\ held[o] \in psbts
    BY <2>1, <2>4, <2>5
  <2> HIDE DEF psbts
  <2>7. held'[s] = Merged(held[s], psbts) /\ ~Conflict(held[s], psbts)
    BY <2>4 DEF combineBtcPsbts
  <2>8. ASSUME NEW i \in Inputs
        PROVE  /\ held[s].sigs[i] \subseteq held'[s].sigs[i]
               /\ held[o].sigs[i] \subseteq held'[s].sigs[i]
    BY <2>6, <2>7, MergedSigs
  <2> QED BY <2>5, <2>8
<1> QED BY <1>1, CosigningInvariance, CosignsCounted, PTL DEF PaySpec, CombineKeepsAll

-----------------------------------------------------------------------------
(* Numbers                                                                  *)

LEMMA GreatestIs ==
    ASSUME NEW T, T \subseteq Nat, T # {}, NEW b \in Nat, \A x \in T : x <= b
    PROVE  Max(T) \in T /\ \A y \in T : y <= Max(T)
<1> DEFINE D == {d \in Nat : b - d \in T}
<1>1. PICK x \in T : x \in Nat /\ x <= b
  OBVIOUS
<1>2. b - (b - x) = x /\ b - x \in Nat
  BY <1>1
<1>3. D \subseteq Nat /\ D # {}
  BY <1>1, <1>2
<1>4. PICK d \in D : \A e \in D : d <= e
  BY <1>3, Least
<1>5. ASSUME NEW y \in T PROVE y <= b - d
  <2>1. y \in Nat /\ y <= b /\ d \in Nat
    BY <1>4
  <2>2. b - y \in Nat /\ b - (b - y) = y
    BY <2>1
  <2>3. b - y \in D
    BY <2>2
  <2> QED BY <1>4, <2>1, <2>2, <2>3
<1>6. PICK g \in T : \A y \in T : g >= y
  <2>1. b - d \in T /\ \A y \in T : y \in Nat
    BY <1>4
  <2>2. \A y \in T : b - d >= y
    BY <1>4, <1>5, <2>1
  <2> QED BY <2>1, <2>2
<1>7. Max(T) \in T /\ \A y \in T : Max(T) >= y
  BY <1>6, Zenon DEF Max
<1> QED BY <1>7

-----------------------------------------------------------------------------
(* Scans                                                                    *)

\* Where a scan stands: it has looked at every address before next, of which the last
\* empties had no transactions, and it has passed no gap.
ScanOK(s, paid) ==
    /\ s.next \in Nat /\ s.empties \in Nat /\ s.empties <= Gap /\ s.empties <= s.next
    /\ \A i \in paid : i \in s.active <=> i < s.next
    /\ s.active \subseteq paid
    /\ \A i \in paid : ~(s.next - s.empties <= i /\ i < s.next)
    /\ s.empties # s.next => s.next - s.empties - 1 \in paid
    /\ \A j \in Nat : j + Gap < s.next \/ (j + Gap = s.next /\ s.empties < Gap) =>
           \E i \in paid : j <= i /\ i < j + Gap

LEMMA BatchSizeIs ==
    ASSUME NEW e \in Nat, e < Gap
    PROVE  BatchSize(e) \in Nat /\ BatchSize(e) > 0 /\ e + BatchSize(e) <= Gap
  BY CosigningAssumption DEF BatchSize

\* The last address of a batch, and how many it has.
LEMMA BatchIs ==
    ASSUME NEW a \in Nat, NEW n \in Nat, n > 0
    PROVE  /\ Max(a..(a + n - 1)) = a + n - 1
           /\ Cardinality(a..(a + n - 1)) = n
<1>1. PICK b \in Nat : b = a + n - 1 /\ a <= b
  OBVIOUS
<1>2. a..b \subseteq Nat /\ b \in a..b /\ \A x \in a..b : x <= b
  BY <1>1
<1>3. Max(a..b) \in a..b /\ \A y \in a..b : y <= Max(a..b)
  BY <1>2, GreatestIs
<1>4. Max(a..b) = b
  <2>1. b <= Max(a..b) /\ Max(a..b) <= b /\ Max(a..b) \in Nat
    BY <1>2, <1>3
  <2> QED BY <2>1
<1>5. Cardinality(a..b) = b - a + 1
  BY <1>1, FS_Interval
<1> QED BY <1>1, <1>4, <1>5

LEMMA BatchStep ==
    ASSUME NEW paid, paid \subseteq Nat, NEW s, ScanOK(s, paid), s.empties < Gap
    PROVE  ScanOK(ScanAfter(s, BatchOf(s) \cap paid), paid)
<1>1. PICK a \in Nat, e \in Nat : a = s.next /\ e = s.empties
  BY DEF ScanOK
<1>2. PICK n \in Nat : n = BatchSize(e) /\ n > 0 /\ e + n <= Gap
  BY <1>1, BatchSizeIs
<1>3. PICK batch : batch = a..(a + n - 1)
  OBVIOUS
<1>4. PICK hits : hits = batch \cap paid
  OBVIOUS
<1>5. PICK t : t = ScanAfter(s, BatchOf(s) \cap paid)
  OBVIOUS
<1>6. /\ t.next = a + n /\ t.empties = Trailing(e, batch, hits) /\ t.active = s.active \cup hits
  <2>1. t.next = Max(batch) + 1 /\ t.empties = Trailing(e, batch, hits) /\ t.active = s.active \cup hits
    BY <1>1, <1>2, <1>3, <1>4, <1>5 DEF ScanAfter, BatchOf
  <2> QED BY <1>2, <1>3, <2>1, BatchIs
<1>7. hits \subseteq paid /\ \A i \in paid : i \in hits <=> a <= i /\ i < a + n
  <2>1. PICK b \in Int : b = a + n - 1
    BY <1>2
  <2>2. ASSUME NEW i \in paid PROVE i \in hits <=> a <= i /\ i < a + n
    <3>1. i \in Nat /\ (i \in a..b <=> a <= i /\ i <= b)
      OBVIOUS
    <3> QED BY <1>2, <1>3, <1>4, <2>1, <3>1
  <2> QED BY <1>4, <2>2
<1>8. e <= a /\ e < Gap /\ Gap \in Nat
  BY <1>1, CosigningAssumption DEF ScanOK
<1>9. /\ \A i \in paid : ~(a - e <= i /\ i < a)
      /\ e # a => a - e - 1 \in paid
      /\ \A i \in paid : i \in s.active <=> i < a
      /\ s.active \subseteq paid
      /\ \A j \in Nat : j + Gap <= a => \E i \in paid : j <= i /\ i < j + Gap
  <2>1. /\ \A i \in paid : ~(a - e <= i /\ i < a)
        /\ e # a => a - e - 1 \in paid
        /\ \A i \in paid : i \in s.active <=> i < a
        /\ s.active \subseteq paid
    BY <1>1 DEF ScanOK
  <2>2. ASSUME NEW j \in Nat, j + Gap <= a PROVE \E i \in paid : j <= i /\ i < j + Gap
    <3>1. j + Gap < a \/ (j + Gap = a /\ e < Gap)
      BY <1>8, <2>2
    <3> QED BY <1>1, <3>1 DEF ScanOK
  <2> QED BY <2>1, <2>2
<1>10. (\A i \in paid : i \in t.active <=> i < t.next) /\ t.active \subseteq paid
  <2>1. ASSUME NEW i \in paid PROVE i \in t.active <=> i < a + n
    <3>1. i \in Nat /\ (i < a => i < a + n)
      BY <1>2
    <3>2. i \in t.active <=> i < a \/ (a <= i /\ i < a + n)
      BY <1>6, <1>7, <1>9
    <3> QED BY <3>1, <3>2
  <2> QED BY <1>6, <1>7, <1>9, <2>1
<1>11. CASE hits = {}
  <2>1. t.empties = e + n
    BY <1>2, <1>3, <1>6, <1>11, BatchIs DEF Trailing
  <2>2. \A i \in paid : ~(a - e <= i /\ i < a + n)
    BY <1>7, <1>9, <1>11
  <2>3. ASSUME NEW j \in Nat, j + Gap < a + n \/ (j + Gap = a + n /\ e + n < Gap)
        PROVE  \E i \in paid : j <= i /\ i < j + Gap
    <3>1. CASE j + Gap <= a
      BY <3>1, <1>9
    <3>2. CASE a < j + Gap
      <4>1. j < a - e /\ e # a
        BY <1>2, <1>8, <2>3
      <4>2. a - e - 1 \in paid /\ j <= a - e - 1 /\ a - e - 1 < j + Gap
        BY <1>8, <1>9, <3>2, <4>1
      <4> QED BY <4>2
    <3> QED BY <3>1, <3>2, <1>8
  <2>4. t.next - t.empties = a - e /\ t.empties <= Gap /\ t.empties <= t.next /\ t.empties \in Nat /\ t.next \in Nat
    BY <1>2, <1>6, <1>8, <2>1
  <2>5. t.empties # t.next => t.next - t.empties - 1 \in paid
    BY <1>6, <1>9, <2>1, <2>4
  <2>6. \A i \in paid : ~(t.next - t.empties <= i /\ i < t.next)
    BY <1>6, <2>2, <2>4
  <2>7. \A j \in Nat : j + Gap < t.next \/ (j + Gap = t.next /\ t.empties < Gap) =>
           \E i \in paid : j <= i /\ i < j + Gap
    BY <1>6, <2>1, <2>3
  <2>8. ScanOK(t, paid)
    BY <1>10, <2>4, <2>5, <2>6, <2>7 DEF ScanOK
  <2> QED BY <1>5, <2>8
<1>12. CASE hits # {}
  <2>1. PICK h \in hits : h = Max(hits) /\ h \in Nat /\ \A y \in hits : y <= h
    <3>1. hits \subseteq Nat /\ a + n \in Nat /\ \A x \in hits : x <= a + n
      BY <1>2, <1>7
    <3> QED BY <1>12, <3>1, GreatestIs
  <2>2. h \in paid /\ a <= h /\ h < a + n
    BY <1>7, <2>1
  <2>3. t.empties = a + n - 1 - h
    <3>1. t.empties = Max(batch) - Max(hits)
      BY <1>6, <1>12 DEF Trailing
    <3>2. Max(batch) = a + n - 1
      BY <1>2, <1>3, BatchIs
    <3> QED BY <2>1, <3>1, <3>2
  <2>4. \A i \in paid : ~(h + 1 <= i /\ i < a + n)
    BY <1>7, <2>1, <2>2
  <2>5. ASSUME NEW j \in Nat, j + Gap <= a + n
        PROVE  \E i \in paid : j <= i /\ i < j + Gap
    <3>1. CASE j + Gap <= a
      BY <3>1, <1>9
    <3>2. CASE a < j + Gap /\ h < j + Gap
      <4>1. j <= h
        BY <1>2, <1>8, <2>2, <2>5
      <4> QED BY <2>2, <3>2, <4>1
    <3>3. CASE a < j + Gap /\ j + Gap <= h
      <4>1. j < a - e /\ e # a
        BY <1>2, <1>8, <2>1, <2>2, <3>3
      <4>2. a - e - 1 \in paid /\ j <= a - e - 1 /\ a - e - 1 < j + Gap
        BY <1>8, <1>9, <3>3, <4>1
      <4> QED BY <4>2
    <3> QED BY <3>1, <3>2, <3>3, <1>8, <2>1
  <2>6. /\ t.next - t.empties = h + 1 /\ t.empties <= Gap /\ t.empties <= t.next
        /\ t.empties \in Nat /\ t.next \in Nat /\ t.next - t.empties - 1 = h
    BY <1>2, <1>6, <1>8, <2>1, <2>2, <2>3
  <2>7. \A j \in Nat : j + Gap < t.next \/ j + Gap = t.next => \E i \in paid : j <= i /\ i < j + Gap
    BY <1>6, <1>8, <2>5
  <2>8. \A i \in paid : ~(t.next - t.empties <= i /\ i < t.next)
    BY <1>6, <2>4, <2>6
  <2>9. ScanOK(t, paid)
    BY <1>10, <2>2, <2>6, <2>7, <2>8 DEF ScanOK
  <2> QED BY <1>5, <2>9
<1> QED BY <1>11, <1>12

\* Where a scan stands among what it was told.
ScanGood(s) ==
    /\ s.active \subseteq 0..MaxIndex /\ ScanOK(s, s.active)
    /\ \A i \in Nat : i < s.next => i \in s.active \/ i \in s.unused

LEMMA ScanGoesOn ==
    ASSUME NEW s, ScanGood(s), s.empties < Gap, NEW hits, hits \subseteq BatchOf(s) \cap 0..MaxIndex
    PROVE  /\ ScanGood(ScanAfter(s, hits))
           /\ ScanAfter(s, hits).active = s.active \cup hits
<1>1. PICK a \in Nat, e \in Nat : a = s.next /\ e = s.empties
  BY DEF ScanGood, ScanOK
<1>2. PICK n \in Nat : n = BatchSize(e) /\ n > 0 /\ e + n <= Gap
  BY <1>1, BatchSizeIs
<1>3. PICK paid : paid = s.active \cup hits
  OBVIOUS
<1>4. PICK b \in Int : b = a + n - 1
  BY <1>2
<1>5. BatchOf(s) = a..b
  BY <1>1, <1>2, <1>4 DEF BatchOf
<1>6. PICK t : t = ScanAfter(s, hits)
  OBVIOUS
<1>7. \A i \in s.active : i \in Nat /\ i < a
  BY <1>1, CosigningAssumption DEF ScanGood, ScanOK
<1>8. \A i \in hits : i \in Nat /\ a <= i
  BY <1>5, CosigningAssumption
<1>9. paid \subseteq Nat /\ paid \subseteq 0..MaxIndex /\ BatchOf(s) \cap paid = hits
  <2>1. \A i \in BatchOf(s) : a <= i /\ i \in Int
    BY <1>5
  <2>2. ASSUME NEW i \in BatchOf(s) PROVE i \notin s.active
    BY <1>7, <2>1
  <2> QED BY <1>3, <1>7, <1>8, <2>2 DEF ScanGood
<1>10. ScanOK(s, paid)
  <2>1. \A i \in paid : i \in s.active <=> i < a
    <3>1. ASSUME NEW i \in hits PROVE ~(i < a)
      BY <1>8
    <3> QED BY <1>3, <1>7, <3>1
  <2>2. \A i \in paid : ~(a - e <= i /\ i < a)
    <3>1. \A i \in s.active : ~(a - e <= i /\ i < a)
      BY <1>1 DEF ScanGood, ScanOK
    <3> QED BY <1>3, <2>1, <3>1
  <2>3. s.active \subseteq paid /\ ScanOK(s, s.active)
    BY <1>3 DEF ScanGood
  <2> QED BY <1>1, <2>1, <2>2, <2>3 DEF ScanOK
<1>11. ScanOK(t, paid)
  BY <1>6, <1>9, <1>10, BatchStep
<1>12. t.next = a + n /\ t.active = paid /\ t.unused = s.unused \cup (a..b \ hits)
  <2>1. Max(a..b) = b
    BY <1>2, <1>4, BatchIs
  <2> QED BY <1>2, <1>3, <1>4, <1>5, <1>6, <2>1 DEF ScanAfter
<1>13. ASSUME NEW i \in Nat, i < t.next PROVE i \in t.active \/ i \in t.unused
  <2>1. CASE i < a
    BY <1>1, <1>3, <1>12, <2>1 DEF ScanGood
  <2>2. CASE a <= i
    <3>1. i \in a..b
      BY <1>4, <1>12, <1>13, <2>2
    <3> QED BY <1>3, <1>12, <3>1
  <2> QED BY <1>1, <2>1, <2>2
<1> QED BY <1>3, <1>6, <1>9, <1>11, <1>12, <1>13 DEF ScanGood

\* A scan that has come to its end, and was told the truth, has the addresses in use before
\* the first gap, and no others.
LEMMA ScanIsRight ==
    ASSUME NEW s, ScanGood(s), s.empties = Gap, NEW paid, paid \subseteq 0..MaxIndex,
           s.active \subseteq paid, s.unused \cap paid = {}
    PROVE  s.active = {i \in paid : \A j \in 0..i : j + Gap <= i => (j..(j + Gap - 1)) \cap paid # {}}
<1>1. paid \subseteq Nat /\ MaxIndex \in Nat /\ Gap \in Nat \ {0}
  BY CosigningAssumption
<1>2. PICK n \in Nat : n = s.next /\ Gap <= n
  BY DEF ScanGood, ScanOK
<1>3. \A i \in paid : i \in s.active <=> i < n
  <2>1. ASSUME NEW i \in s.active PROVE i < n
    BY <1>2, <2>1 DEF ScanGood, ScanOK
  <2>2. ASSUME NEW i \in paid, i < n PROVE i \in s.active
    BY <1>1, <1>2, <2>2 DEF ScanGood
  <2> QED BY <2>1, <2>2
<1>4. /\ \A i \in paid : ~(n - Gap <= i /\ i < n)
      /\ \A j \in Nat : j + Gap < n => \E i \in paid : j <= i /\ i < j + Gap
  <2>1. /\ \A i \in s.active : ~(n - Gap <= i /\ i < n)
        /\ \A j \in Nat : j + Gap < n => \E i \in s.active : j <= i /\ i < j + Gap
    BY <1>2 DEF ScanGood, ScanOK
  <2> QED BY <1>3, <2>1
<1>5. ASSUME NEW j \in Nat
       PROVE  (j..(j + Gap - 1)) \cap paid # {} <=> \E i \in paid : j <= i /\ i < j + Gap
  <2>1. PICK b \in Int : b = j + Gap - 1
    BY <1>1
  <2>2. \A i \in paid : i \in j..b <=> j <= i /\ i < j + Gap
    BY <1>1, <2>1
  <2> QED BY <2>1, <2>2
<1>6. ASSUME NEW i \in paid
       PROVE  i < n <=> \A j \in 0..i : j + Gap <= i => (j..(j + Gap - 1)) \cap paid # {}
  <2>1. CASE i < n
    <3>1. ASSUME NEW j \in 0..i, j + Gap <= i PROVE (j..(j + Gap - 1)) \cap paid # {}
      <4>1. j \in Nat /\ j + Gap < n
        BY <1>1, <2>1, <3>1
      <4> QED BY <1>4, <1>5, <4>1
    <3> QED BY <2>1, <3>1
  <2>2. CASE ~(i < n)
    <3>1. PICK j \in Nat : j = n - Gap
      BY <1>1, <1>2
    <3>2. j \in 0..i /\ j + Gap <= i
      BY <1>1, <2>2, <3>1
    <3>3. (j..(j + Gap - 1)) \cap paid = {}
      BY <1>1, <1>4, <1>5, <3>1
    <3> QED BY <2>2, <3>2, <3>3
  <2> QED BY <2>1, <2>2
<1> QED BY <1>3, <1>6

\* What a scan and its answer rest on: what it takes to be in use is in use.
ScanInv ==
    /\ used \subseteq 0..MaxIndex
    /\ infos \in [0..MaxIndex -> {"unasked", "used", "unused"}]
    /\ \A i \in 0..MaxIndex : infos[i] = "used" => i \in used
    /\ scan # None => ScanGood(scan) /\ scan.empties < Gap /\ scan.active \subseteq used
    /\ answer # None /\ answer.op = "scan" =>
          \E s : /\ ScanGood(s) /\ s.empties = Gap /\ s.active \subseteq used
                 /\ answer.active = s.active /\ answer.unused = s.unused

LEMMA ScanBatchStep ==
    ASSUME ScanInv, ScanBatch
    PROVE  ScanInv'
<1>1. PICK batch : batch = BatchOf(scan)
  OBVIOUS
<1>2. PICK missed \in SUBSET (batch \cap used) : infos' = Told(batch, missed)
  BY <1>1 DEF ScanBatch
<1>3. PICK hits : hits = {i \in batch \cap 0..MaxIndex : infos'[i] = "used"}
  OBVIOUS
<1>4. PICK after : after = ScanAfter(scan, hits)
  OBVIOUS
<1>5. /\ scan # None /\ used' = used
      /\ scan' = IF after.empties >= Gap THEN None ELSE after
      /\ answer' = IF after.empties >= Gap
                   THEN [op |-> "scan", active |-> after.active, unused |-> after.unused] ELSE None
  BY <1>1, <1>3, <1>4, Zenon DEF ScanBatch
<1>6. /\ infos' \in [0..MaxIndex -> {"unasked", "used", "unused"}]
      /\ \A i \in 0..MaxIndex : infos'[i] = "used" => i \in used
  BY <1>2 DEF Told, ScanInv
<1>7. ScanGood(after) /\ after.active = scan.active \cup hits
  BY <1>1, <1>3, <1>4, <1>5, ScanGoesOn DEF ScanInv
<1>8. after.active \subseteq used
  BY <1>3, <1>5, <1>6, <1>7 DEF ScanInv
<1>9. after.empties \in Nat /\ after.empties <= Gap /\ Gap \in Nat
  BY <1>7, CosigningAssumption DEF ScanGood, ScanOK
<1>10. CASE after.empties < Gap
  <2>1. scan' = after /\ answer' = None
    BY <1>5, <1>9, <1>10
  <2>2. ScanGood(scan')
    BY <1>7, <2>1
  <2> QED BY <1>5, <1>6, <1>8, <1>10, <2>1, <2>2 DEF ScanInv, ScanGood, ScanOK
<1>11. CASE after.empties = Gap
  <2>1. scan' = None /\ answer' = [op |-> "scan", active |-> after.active, unused |-> after.unused]
    BY <1>5, <1>9, <1>11
  <2> QED BY <1>5, <1>6, <1>7, <1>8, <1>11, <2>1 DEF ScanInv
<1> QED BY <1>9, <1>10, <1>11

\* The addresses that a scan counts are those in use before the first gap of Gap unused ones,
\* and no others, unless one of them was told to be unused: for any gap, any batch, wherever
\* the addresses lie in the batches, and whatever is paid, kept or evicted meanwhile.
THEOREM ScansFindUsed == PaySpec => []ScanFindsUsed
<1>1. PayInit => ScanInv
  BY DEF PayInit, Init, Unasked, ScanInv
<1>2. ScanInv /\ [PayNext]_<<vars, payVars>> => ScanInv'
  <2> SUFFICES ASSUME ScanInv, [PayNext]_<<vars, payVars>> PROVE ScanInv'
    OBVIOUS
  <2>1. ASSUME UNCHANGED scanVars, answer' = None PROVE ScanInv'
    BY <2>1 DEF scanVars, ScanInv, ScanGood, ScanOK
  <2>2. CASE UNCHANGED <<vars, payVars>>
    BY <2>2 DEF vars, worldVars, scanVars, ScanInv, ScanGood, ScanOK
  <2>3. CASE ScanStart
    <3>1. /\ UNCHANGED <<used, infos>> /\ answer' = None
          /\ scan' = [next |-> 0, empties |-> 0, active |-> {}, unused |-> {}]
      BY <2>3 DEF ScanStart
    <3>2. ScanGood([next |-> 0, empties |-> 0, active |-> {}, unused |-> {}])
      BY CosigningAssumption DEF ScanGood, ScanOK
    <3> QED BY <3>1, <3>2, CosigningAssumption DEF ScanInv
  <2>4. CASE ScanBatch
    BY <2>4, ScanBatchStep
  <2>5. CASE Receive
    <3>1. PICK i \in (0..MaxIndex) \ used : used' = used \cup {i}
      BY <2>5 DEF Receive
    <3>2. UNCHANGED <<infos, scan>> /\ answer' = None
      BY <2>5 DEF Receive
    <3>3. scan' # None => ScanGood(scan') /\ scan'.empties < Gap
      BY <3>2 DEF ScanInv
    <3> QED BY <3>1, <3>2, <3>3 DEF ScanInv, ScanGood, ScanOK
  <2>6. CASE Evict
    <3>1. PICK i \in 0..MaxIndex : infos' = [infos EXCEPT ![i] = "unasked"]
      BY <2>6 DEF Evict
    <3>2. UNCHANGED <<used, scan>> /\ answer' = None
      BY <2>6 DEF Evict
    <3>3. /\ infos' \in [0..MaxIndex -> {"unasked", "used", "unused"}]
          /\ \A k \in 0..MaxIndex : infos'[k] = "used" => k \in used
      BY <3>1 DEF ScanInv
    <3> QED BY <3>2, <3>3 DEF ScanInv, ScanGood, ScanOK
  <2>7. CASE Restart
    <3>1. used' = used /\ infos' = Unasked /\ scan' = None /\ answer' = None
      BY <2>7 DEF Restart
    <3> QED BY <3>1 DEF ScanInv, Unasked
  <2>8. CASE Finalize \/ SignMessage \/ Simulated
    <3>1. UNCHANGED scanVars /\ answer'.op # "scan"
      BY <2>8 DEF Finalize, SignMessage, Simulated, worldVars, finalizeBtcPsbt, vars
    <3> QED BY <3>1 DEF scanVars, ScanInv, ScanGood, ScanOK
  <2>9. CASE RegisterWithout \/ Register \/ RegisterAnswered \/ SignPsbt \/ Preview \/ Cancel \/ Send
             \/ SignAnswered \/ Combine \/ Cosign \/ Tick
    <3>1. UNCHANGED scanVars /\ answer' = None
      BY <2>9 DEF RegisterWithout, Register, RegisterAnswered, SignPsbt, Preview, Cancel, Send,
                  SignAnswered, Combine, Cosign, Tick, worldVars
    <3> QED BY <2>1, <3>1
  <2>10. ASSUME NEW c \in Calls,
                \/ SendBtc(c) \/ SendLtc(c) \/ SendLifi(c) \/ SignBtcPsbt(c) \/ SignLtcPsbt(c)
                \/ BroadcastTx(c) \/ LtcBroadcastTx(c) \/ AnswerBtc(c) \/ AnswerLtc(c) \/ AnswerLifi(c)
         PROVE  ScanInv'
    <3>1. UNCHANGED scanVars /\ answer' = None
      BY <2>10 DEF SendBtc, SendLtc, SendLifi, SignBtcPsbt, SignLtcPsbt, BroadcastTx, LtcBroadcastTx,
                   AnswerBtc, AnswerLtc, AnswerLifi, Starts, Signed, Posted, Answers, worldVars
    <3> QED BY <2>1, <3>1
  <2>11. CASE \/ PrepareBtcSend \/ PrepareLitecoinNativeSend \/ PrepareBtcRbfBump \/ PrepareBtcLifiSwap
              \/ PreviewBtc \/ PreviewLtc \/ PreviewLifi \/ Spend \/ Unpair \/ PayTick \/ PayRestart
    <3>1. UNCHANGED scanVars /\ answer' = None
      BY <2>11 DEF PrepareBtcSend, PrepareLitecoinNativeSend, PrepareBtcRbfBump, PrepareBtcLifiSwap,
                   PreviewBtc, PreviewLtc, PreviewLifi, Spend, Unpair, PayTick, PayRestart, Mint,
                   PreviewOf, worldVars
    <3> QED BY <2>1, <3>1
  <2> QED BY <2>2, <2>3, <2>4, <2>5, <2>6, <2>7, <2>8, <2>9, <2>10, <2>11 DEF PayNext, Next
<1>3. ScanInv => ScanFindsUsed
  <2> SUFFICES ASSUME ScanInv, answer # None, answer.op = "scan", answer.unused \cap used = {}
               PROVE  answer.active = {i \in used : Reached(i)}
    BY DEF ScanFindsUsed
  <2>1. PICK s : /\ ScanGood(s) /\ s.empties = Gap /\ s.active \subseteq used
                 /\ answer.active = s.active /\ answer.unused = s.unused
    BY DEF ScanInv
  <2>2. used \subseteq 0..MaxIndex /\ s.active \subseteq used /\ s.unused \cap used = {}
    BY <2>1 DEF ScanInv
  <2>3. s.active = {i \in used : \A j \in 0..i :
                       j + Gap <= i => (j..(j + Gap - 1)) \cap used # {}}
    BY <2>1, <2>2, ScanIsRight
  <2> QED BY <2>1, <2>3, Zenon DEF Reached
<1> QED BY <1>1, <1>2, <1>3, PTL DEF PaySpec

-----------------------------------------------------------------------------
(* Sums of coins and of outputs                                             *)

LEMMA SumOverIs ==
    ASSUME NEW S, IsFiniteSet(S), NEW w, DOMAIN w = S
    PROVE  \E f : AreSums(f, w, S) /\ SumOver(w) = f[S]
<1> DEFINE Is(f) == f = [s \in SUBSET S |-> IF s = {} THEN 0
                             ELSE LET x == CHOOSE x \in s : TRUE IN w[x] + f[s \ {x}]]
<1>1. ASSUME NEW f PROVE AreSums(f, w, S) <=> Is(f)
  <2>1. \A s \in SUBSET S : s # {} => Pick(s) = CHOOSE x \in s : TRUE
    BY DEF Pick
  <2>2. ASSUME AreSums(f, w, S) PROVE Is(f)
    BY <2>1, <2>2 DEF AreSums
  <2>3. ASSUME Is(f) PROVE AreSums(f, w, S)
    BY <2>1, <2>3 DEF AreSums
  <2> QED BY <2>2, <2>3
<1>2. PICK f : f = CHOOSE g : Is(g)
  OBVIOUS
<1>3. SumOver(w) = f[S]
  BY <1>2, Zenon DEF SumOver, MapThenSumSet, MapThenFoldSet
<1> HIDE DEF Is
<1>4. \E g : Is(g)
  BY <1>1, SumsExist
<1>5. Is(f)
  BY <1>2, <1>4, Zenon
<1> QED BY <1>1, <1>3, <1>5

\* A sum is a number, and any element may be taken out of it.
LEMMA SumOverTake ==
    ASSUME NEW S, IsFiniteSet(S), NEW w \in [S -> Nat]
    PROVE  /\ SumOver(w) \in Nat
           /\ S = {} => SumOver(w) = 0
           /\ \A a \in S : SumOver(w) = w[a] + SumOver([x \in S \ {a} |-> w[x]])
<1>1. DOMAIN w = S /\ S \in SUBSET S
  OBVIOUS
<1>2. PICK f : AreSums(f, w, S) /\ SumOver(w) = f[S]
  BY <1>1, SumOverIs
<1>3. /\ f[S] \in Nat
      /\ S = {} => f[S] = 0
      /\ \A a \in S : f[S] = w[a] + f[S \ {a}]
  BY <1>1, <1>2, SumsTake
<1>4. ASSUME NEW a \in S PROVE SumOver([x \in S \ {a} |-> w[x]]) = f[S \ {a}]
  <2> DEFINE T == S \ {a}
             v == [x \in T |-> w[x]]
  <2>1. T \in SUBSET S /\ IsFiniteSet(T)
    BY FS_Subset
  <2>2. PICK g : AreSums(g, v, T) /\ SumOver(v) = g[T]
    BY <2>1, SumOverIs
  <2>3. \A x \in T : v[x] = w[x]
    OBVIOUS
  <2> HIDE DEF T, v
  <2>4. g[T] = f[T]
    BY <1>2, <2>1, <2>2, <2>3, SumsAgree
  <2> QED BY <2>2, <2>4 DEF T, v
<1> QED BY <1>2, <1>3, <1>4

LEMMA SumOverOne ==
    ASSUME NEW a, NEW w \in [{a} -> Nat]
    PROVE  SumOver(w) = w[a]
<1>1. IsFiniteSet({a}) /\ IsFiniteSet({})
  BY FS_Singleton, FS_EmptySet
<1>2. PICK T : T = {a} \ {a}
  OBVIOUS
<1>3. SumOver([x \in T |-> w[x]]) = 0
  <2>1. T = {} /\ [x \in T |-> w[x]] \in [T -> Nat]
    BY <1>2
  <2> QED BY <1>1, <2>1, SumOverTake
<1>4. SumOver(w) = w[a] + SumOver([x \in T |-> w[x]])
  BY <1>1, <1>2, SumOverTake
<1>5. w[a] \in Nat
  OBVIOUS
<1> QED BY <1>3, <1>4, <1>5

\* The outputs are three at most.
LEMMA SumOverTwo ==
    ASSUME NEW w \in [1..2 -> Nat]
    PROVE  SumOver(w) = w[1] + w[2]
<1> DEFINE v == [x \in {1} |-> w[x]]
<1>1. (1..2) \ {2} = {1} /\ 2 \in 1..2 /\ 1 \in 1..2 /\ IsFiniteSet(1..2)
  <2>1. (1..2) \ {2} = {1} /\ 2 \in 1..2 /\ 1 \in 1..2 /\ 1 \in Int /\ 2 \in Int
    OBVIOUS
  <2>2. IsFiniteSet(1..2)
    BY <2>1, FS_Interval
  <2> QED BY <2>1, <2>2
<1>2. w[1] \in Nat /\ w[2] \in Nat
  BY <1>1
<1>3. v \in [{1} -> Nat] /\ v[1] = w[1]
  BY <1>2
<1>4. SumOver(w) = w[2] + SumOver([x \in (1..2) \ {2} |-> w[x]])
  BY <1>1, SumOverTake
<1>5. SumOver(w) = w[2] + SumOver(v)
  BY <1>1, <1>4
<1> HIDE DEF v
<1>6. SumOver(v) = v[1]
  BY <1>3, SumOverOne
<1> QED BY <1>2, <1>3, <1>5, <1>6

LEMMA SumOverThree ==
    ASSUME NEW w \in [1..3 -> Nat]
    PROVE  SumOver(w) = w[1] + w[2] + w[3]
<1> DEFINE v == [x \in 1..2 |-> w[x]]
<1>1. (1..3) \ {3} = 1..2 /\ 3 \in 1..3 /\ IsFiniteSet(1..3)
  <2>1. (1..3) \ {3} = 1..2 /\ 3 \in 1..3 /\ 1 \in Int /\ 3 \in Int
    OBVIOUS
  <2>2. IsFiniteSet(1..3)
    BY <2>1, FS_Interval
  <2> QED BY <2>1, <2>2
<1>2. w[1] \in Nat /\ w[2] \in Nat /\ w[3] \in Nat
  OBVIOUS
<1>3. v \in [1..2 -> Nat] /\ v[1] = w[1] /\ v[2] = w[2]
  OBVIOUS
<1>4. SumOver(w) = w[3] + SumOver([x \in (1..3) \ {3} |-> w[x]])
  BY <1>1, SumOverTake
<1>5. SumOver(w) = w[3] + SumOver(v)
  BY <1>1, <1>4
<1> HIDE DEF v
<1>6. SumOver(v) = v[1] + v[2]
  BY <1>3, SumOverTwo
<1> QED BY <1>2, <1>3, <1>5, <1>6

CoinRec == [id : Nat, value : Nat, type : Types, from : Nat]

InVbytes(coins) == SumOver([c \in coins |-> inputVbytes(c.type)])

LEMMA CoinSums ==
    ASSUME NEW coins, coins \subseteq CoinRec, IsFiniteSet(coins)
    PROVE  SumOf(coins) \in Nat /\ InVbytes(coins) \in Nat
<1>1. [c \in coins |-> c.value] \in [coins -> Nat]
  BY DEF CoinRec
<1>2. [c \in coins |-> inputVbytes(c.type)] \in [coins -> Nat]
  BY DEF inputVbytes
<1> QED BY <1>1, <1>2, SumOverTake DEF SumOf, InVbytes

\* The size with one output, and with two.
LEMMA SizeWithOne ==
    ASSUME NEW coins, NEW a
    PROVE  Vbytes(coins, <<a>>) = 11 + InVbytes(coins) + outputVbytes(a)
<1> DEFINE w == [i \in DOMAIN <<a>> |-> outputVbytes(<<a>>[i])]
<1>1. w \in [1..1 -> Nat] /\ w[1] = outputVbytes(a) /\ 1..1 = {1}
  BY DEF outputVbytes
<1> HIDE DEF w
<1>2. SumOver(w) = w[1]
  BY <1>1, SumOverOne
<1> QED BY <1>1, <1>2 DEF w, Vbytes, InVbytes, Overhead

LEMMA SizeWithTwo ==
    ASSUME NEW coins, NEW a, NEW b
    PROVE  Vbytes(coins, <<a, b>>) = 11 + InVbytes(coins) + (outputVbytes(a) + outputVbytes(b))
<1> DEFINE w == [i \in DOMAIN <<a, b>> |-> outputVbytes(<<a, b>>[i])]
<1>1. w \in [1..2 -> Nat] /\ w[1] = outputVbytes(a) /\ w[2] = outputVbytes(b)
  BY DEF outputVbytes
<1> HIDE DEF w
<1>2. SumOver(w) = w[1] + w[2]
  BY <1>1, SumOverTwo
<1> QED BY <1>1, <1>2 DEF w, Vbytes, InVbytes, Overhead

-----------------------------------------------------------------------------
(* The order of the coins, and of the matches                               *)

\* Of a finite set in a total order there is a first.
LEMMA FirstExists ==
    ASSUME NEW T, IsFiniteSet(T), T # {}, NEW R,
           \A x, y \in T : x # y => <<x, y>> \in R \/ <<y, x>> \in R,
           \A x, y, z \in T : <<x, y>> \in R /\ <<y, z>> \in R => <<x, z>> \in R
    PROVE  \E x \in T : \A y \in T \ {x} : <<x, y>> \in R
<1> DEFINE HasFirst(U) == \E x \in U : \A y \in U \ {x} : <<x, y>> \in R
           N == {n \in Nat : \A U \in SUBSET T : Cardinality(U) = n /\ U # {} => HasFirst(U)}
<1>1. \A U \in SUBSET T : Cardinality(U) = 0 => U = {}
  BY Picked
<1>2. 0 \in N
  BY <1>1
<1>3. ASSUME NEW n \in Nat, n \in N PROVE n + 1 \in N
  <2>1. SUFFICES ASSUME NEW U \in SUBSET T, Cardinality(U) = n + 1, U # {} PROVE HasFirst(U)
    OBVIOUS
  <2>2. PICK a \in U : TRUE
    BY <2>1
  <2>3. U \ {a} \in SUBSET T /\ Cardinality(U \ {a}) = n
    BY <2>1, <2>2, Picked
  <2>4. CASE U \ {a} = {}
    BY <2>2, <2>4
  <2>5. CASE U \ {a} # {}
    <3>1. PICK x \in U \ {a} : \A y \in (U \ {a}) \ {x} : <<x, y>> \in R
      BY <1>3, <2>3, <2>5
    <3>2. CASE <<a, x>> \in R
      <4>1. \A y \in U \ {a} : <<a, y>> \in R
        BY <3>1, <3>2
      <4> QED BY <4>1
    <3>3. CASE <<x, a>> \in R
      <4>1. \A y \in U \ {x} : <<x, y>> \in R
        BY <3>1, <3>3
      <4> QED BY <3>1, <4>1
    <3> QED BY <3>1, <3>2, <3>3
  <2> QED BY <2>4, <2>5
<1>4. Cardinality(T) \in N
  <2> HIDE DEF N
  <2> QED BY <1>2, <1>3, Induction, FS_CardinalityType
<1> QED BY <1>4

\* An outpoint is one coin.
Apart(coins) == \A c, d \in coins : c.from = d.from /\ c.id = d.id => c = d

LEMMA LargerOrders ==
    ASSUME NEW c \in CoinRec, NEW d \in CoinRec
    PROVE  /\ Larger(c, d) => ~Larger(d, c)
           /\ Apart({c, d}) /\ c # d => Larger(c, d) \/ Larger(d, c)
           /\ \A e \in CoinRec : Larger(c, d) /\ Larger(d, e) => Larger(c, e)
BY DEF CoinRec, Larger, Earlier, Apart

LEMMA LargestExists ==
    ASSUME NEW S, S \subseteq CoinRec, IsFiniteSet(S), Apart(S), S # {}
    PROVE  \E c \in S : \A d \in S \ {c} : Larger(c, d)
<1> DEFINE R == {p \in S \X S : Larger(p[1], p[2])}
<1>1. \A x, y \in S : x # y => <<x, y>> \in R \/ <<y, x>> \in R
  BY LargerOrders DEF Apart
<1>2. \A x, y, z \in S : <<x, y>> \in R /\ <<y, z>> \in R => <<x, z>> \in R
  <2>1. \A x, y \in S : <<x, y>> \in R <=> Larger(x, y)
    OBVIOUS
  <2>2. \A x, y, z \in S : Larger(x, y) /\ Larger(y, z) => Larger(x, z)
    BY LargerOrders
  <2> QED BY <2>1, <2>2
<1>3. \A x, y \in S : <<x, y>> \in R => Larger(x, y)
  OBVIOUS
<1> HIDE DEF R
<1>4. \E x \in S : \A y \in S \ {x} : <<x, y>> \in R
  BY <1>1, <1>2, FirstExists
<1> QED BY <1>3, <1>4

LEMMA BeforeOrders ==
    ASSUME NEW coins, coins \subseteq CoinRec, IsFiniteSet(coins), Apart(coins),
           NEW S \in SUBSET coins, NEW T \in SUBSET coins
    PROVE  /\ S # T => Before(S, T) \/ Before(T, S)
           /\ \A U \in SUBSET coins : Before(S, T) /\ Before(T, U) => Before(S, U)
<1>1. \A c, d \in coins : /\ Larger(c, d) => ~Larger(d, c)
                          /\ c # d => Larger(c, d) \/ Larger(d, c)
                          /\ \A e \in coins : Larger(c, d) /\ Larger(d, e) => Larger(c, e)
  BY LargerOrders DEF Apart
<1>2. ASSUME S # T PROVE Before(S, T) \/ Before(T, S)
  <2> DEFINE D == (S \ T) \cup (T \ S)
  <2>1. D \in SUBSET coins /\ D # {}
    BY <1>2
  <2>2. IsFiniteSet(D) /\ Apart(D) /\ D \subseteq CoinRec
    BY <2>1, FS_Subset DEF Apart
  <2>3. PICK c \in D : \A d \in D \ {c} : Larger(c, d)
    BY <2>1, <2>2, LargestExists
  <2>4. ASSUME NEW d \in S \cup T, Larger(d, c) PROVE d \in S \cap T
    <3>1. d \in coins /\ c \in coins
      BY <2>1, <2>3
    <3>2. ~Larger(c, d) /\ d # c
      BY <1>1, <2>4, <3>1
    <3>3. d \notin D
      BY <2>3, <3>2
    <3> QED BY <2>4, <3>3
  <2> QED BY <2>3, <2>4 DEF Before
<1>3. ASSUME NEW U \in SUBSET coins, Before(S, T), Before(T, U) PROVE Before(S, U)
  <2>1. PICK c \in S \ T : \A d \in S \cup T : Larger(d, c) => d \in S \cap T
    BY <1>3 DEF Before
  <2>2. PICK e \in T \ U : \A d \in T \cup U : Larger(d, e) => d \in T \cap U
    BY <1>3 DEF Before
  <2>3. c \in coins /\ e \in coins /\ c # e
    BY <2>1, <2>2
  <2>4. CASE Larger(c, e)
    <3>1. c \in S \ U
      BY <2>1, <2>2, <2>4
    <3>2. \A d \in coins : Larger(d, c) => Larger(d, e)
      BY <1>1, <2>3, <2>4
    <3>3. \A d \in S \cup U : Larger(d, c) => d \in S \cap U
      BY <2>1, <2>2, <3>2
    <3> QED BY <3>1, <3>3 DEF Before
  <2>5. CASE Larger(e, c)
    <3>1. e \in S \ U
      BY <2>1, <2>2, <2>5
    <3>2. \A d \in coins : Larger(d, e) => Larger(d, c)
      BY <1>1, <2>3, <2>5
    <3>3. \A d \in S \cup U : Larger(d, e) => d \in S \cap U
      BY <2>1, <2>2, <3>2
    <3> QED BY <3>1, <3>3 DEF Before
  <2> QED BY <1>1, <2>3, <2>4, <2>5
<1> QED BY <1>2, <1>3

\* The search answers one of the matches it found.
LEMMA FirstMatchIsFound ==
    ASSUME NEW coins, coins \subseteq CoinRec, IsFiniteSet(coins), Apart(coins),
           NEW found, found \subseteq SUBSET coins, found # {}
    PROVE  FirstMatch(found) \in found
<1> DEFINE R == {p \in found \X found : Before(p[1], p[2])}
<1>1. \A x, y \in found : <<x, y>> \in R <=> Before(x, y)
  OBVIOUS
<1>2. \A x, y \in found : x # y => <<x, y>> \in R \/ <<y, x>> \in R
  BY <1>1, BeforeOrders
<1>3. \A x, y, z \in found : <<x, y>> \in R /\ <<y, z>> \in R => <<x, z>> \in R
  <2>1. \A x, y, z \in found : Before(x, y) /\ Before(y, z) => Before(x, z)
    BY BeforeOrders
  <2> QED BY <1>1, <2>1
<1> HIDE DEF R
<1>4. IsFiniteSet(found)
  <2>1. IsFiniteSet(SUBSET coins)
    BY FS_SUBSET
  <2> QED BY <2>1, FS_Subset
<1>5. \E x \in found : \A y \in found \ {x} : <<x, y>> \in R
  BY <1>2, <1>3, <1>4, FirstExists
<1>6. \E x \in found : \A y \in found \ {x} : Before(x, y)
  BY <1>1, <1>5
<1> QED BY <1>6 DEF FirstMatch

-----------------------------------------------------------------------------
(* What a selection gives                                                   *)

\* What is left pays for the size, at a rate in tenths of a satoshi.
Pays(ins, left, outs, rate) == left \in Nat /\ Vbytes(ins, outs) * rate <= 10 * left

LEMMA CeilCovers ==
    ASSUME NEW n \in Nat
    PROVE  CeilDiv10(n) \in Nat /\ n <= 10 * CeilDiv10(n)
<1>1. /\ n + 9 \in Nat /\ 10 \in Nat
      /\ (n + 9) \div 10 \in Nat /\ n + 9 < ((n + 9) \div 10) * 10 + 10
  BY Floor
<1> QED BY <1>1 DEF CeilDiv10

LEMMA SizeIsNumber ==
    ASSUME NEW ins, ins \subseteq CoinRec, IsFiniteSet(ins), NEW a, NEW b
    PROVE  /\ Vbytes(ins, <<a>>) \in Nat /\ Vbytes(ins, <<a, b>>) \in Nat
           /\ Vbytes(ins, <<a>>) <= Vbytes(ins, <<a, b>>)
<1>1. InVbytes(ins) \in Nat
  BY CoinSums
<1>2. outputVbytes(a) \in Nat /\ outputVbytes(b) \in Nat
  BY DEF outputVbytes
<1> QED BY <1>1, <1>2, SizeWithOne, SizeWithTwo

\* The estimate covers the size it is made for, and so does what is more.
LEMMA EstimatePays ==
    ASSUME NEW ins, NEW outs, NEW rate \in Nat, Vbytes(ins, outs) \in Nat
    PROVE  /\ estimateFee(ins, outs, rate) \in Nat
           /\ \A left \in Int : left >= estimateFee(ins, outs, rate) => Pays(ins, left, outs, rate)
<1>1. PICK n \in Nat : n = Vbytes(ins, outs) * rate
  BY Products
<1>2. /\ estimateFee(ins, outs, rate) = CeilDiv10(n)
      /\ CeilDiv10(n) \in Nat /\ n <= 10 * CeilDiv10(n)
  BY <1>1, CeilCovers DEF estimateFee
<1>3. ASSUME NEW left \in Int, left >= CeilDiv10(n) PROVE Pays(ins, left, outs, rate)
  <2>1. left \in Nat /\ n <= 10 * left
    BY <1>2, <1>3
  <2> QED BY <1>1, <2>1 DEF Pays
<1> QED BY <1>2, <1>3

\* Who pays for a change output that is not made pays for the rest.
LEMMA PaysWithout ==
    ASSUME NEW ins, ins \subseteq CoinRec, IsFiniteSet(ins), NEW a, NEW b,
           NEW left \in Nat, NEW more \in Int, left <= more, NEW rate \in Nat,
           Pays(ins, left, <<a, b>>, rate)
    PROVE  Pays(ins, more, <<a>>, rate)
<1>1. PICK m \in Nat, n \in Nat : m = Vbytes(ins, <<a>>) /\ n = Vbytes(ins, <<a, b>>) /\ m <= n
  BY SizeIsNumber
<1>2. PICK p \in Nat, q \in Nat : p = m * rate /\ q = n * rate /\ p <= q
  BY <1>1, Products, Times
<1>3. q <= 10 * left
  BY <1>1, <1>2 DEF Pays
<1>4. more \in Nat /\ p <= 10 * more
  BY <1>2, <1>3
<1> QED BY <1>1, <1>2, <1>4 DEF Pays

Good(sel, coins, target, rec, chg, rate) ==
    /\ sel.ins \subseteq coins /\ sel.change \in Nat
    /\ Pays(sel.ins, SumOf(sel.ins) - target, <<rec>>, rate)
    /\ sel.change # 0 => Pays(sel.ins, SumOf(sel.ins) - target - sel.change, <<rec, chg>>, rate)

LEMMA MatchIsGood ==
    ASSUME NEW coins, coins \subseteq CoinRec, IsFiniteSet(coins), Apart(coins),
           NEW target \in Nat, NEW rate \in Nat, NEW rec \in Types, NEW chg \in Types,
           bnbSearch(coins, target, rec, rate) # {}
    PROVE  Good(ExactMatch(FirstMatch(bnbSearch(coins, target, rec, rate)), target),
                coins, target, rec, chg, rate)
<1> DEFINE found == bnbSearch(coins, target, rec, rate)
<1>1. found \subseteq SUBSET coins /\ \A S \in found : Fits(S, target, rec, rate)
  BY DEF bnbSearch
<1>2. PICK S : S = FirstMatch(found)
  OBVIOUS
<1> HIDE DEF found
<1>3. S \in found
  BY <1>1, <1>2, FirstMatchIsFound DEF found
<1>4. S \in SUBSET coins /\ S \subseteq CoinRec /\ IsFiniteSet(S)
  BY <1>1, <1>3, FS_Subset
<1>5. SumOf(S) \in Nat /\ Vbytes(S, <<rec>>) \in Nat
  BY <1>4, CoinSums, SizeIsNumber
<1>6. estimateFee(S, <<rec>>, rate) \in Nat
  BY <1>5, EstimatePays
<1>7. SumOf(S) - target \in Int /\ SumOf(S) - target >= estimateFee(S, <<rec>>, rate)
  BY <1>1, <1>3, <1>5, <1>6 DEF Fits, Exact, Tolerance
<1>8. Pays(S, SumOf(S) - target, <<rec>>, rate)
  BY <1>5, <1>7, EstimatePays
<1>9. PICK sel : sel = ExactMatch(S, target)
  OBVIOUS
<1>10. sel.ins = S /\ sel.change = 0
  BY <1>9 DEF ExactMatch, Selected
<1> QED BY <1>2, <1>4, <1>8, <1>9, <1>10 DEF Good, found

\* Dust that goes to the fee raises it.
LEMMA SplitIsGood ==
    ASSUME NEW coins, coins \subseteq CoinRec, IsFiniteSet(coins), NEW ins \in SUBSET coins,
           NEW target \in Nat, NEW rate \in Nat, NEW rec \in Types, NEW chg \in Types,
           NEW fee, fee = estimateFee(ins, <<rec, chg>>, rate), SumOf(ins) >= target + fee
    PROVE  Good(Split(ins, target, fee), coins, target, rec, chg, rate)
<1>1. ins \subseteq CoinRec /\ IsFiniteSet(ins)
  BY FS_Subset
<1>2. SumOf(ins) \in Nat /\ Vbytes(ins, <<rec, chg>>) \in Nat
  BY <1>1, CoinSums, SizeIsNumber
<1>3. fee \in Nat /\ Pays(ins, fee, <<rec, chg>>, rate)
  BY <1>2, EstimatePays
<1>4. SumOf(ins) - target \in Int /\ fee <= SumOf(ins) - target
  BY <1>2, <1>3
<1>5. Pays(ins, SumOf(ins) - target, <<rec>>, rate)
  BY <1>1, <1>3, <1>4, PaysWithout
<1>6. PICK sel : sel = Split(ins, target, fee)
  OBVIOUS
<1>7. CASE SumOf(ins) - target - fee < Dust
  <2>1. sel.ins = ins /\ sel.change = 0
    BY <1>6, <1>7 DEF Split, Selected
  <2> QED BY <1>5, <1>6, <2>1 DEF Good
<1>8. CASE ~(SumOf(ins) - target - fee < Dust)
  <2>1. sel.ins = ins /\ sel.change = SumOf(ins) - target - fee
    BY <1>6, <1>8 DEF Split, Selected
  <2>2. sel.change \in Nat /\ SumOf(ins) - target - sel.change = fee
    BY <1>2, <1>3, <1>4, <2>1
  <2> QED BY <1>3, <1>5, <1>6, <2>1, <2>2 DEF Good
<1> QED BY <1>7, <1>8

LEMMA LargestIsGood ==
    ASSUME NEW coins, coins \subseteq CoinRec, IsFiniteSet(coins), Apart(coins),
           NEW target \in Nat, NEW rate \in Nat, NEW rec \in Types, NEW chg \in Types,
           LargestFirst(coins, target, rec, chg, rate).ok
    PROVE  Good(LargestFirst(coins, target, rec, chg, rate), coins, target, rec, chg, rate)
<1> DEFINE fee(c) == estimateFee(UpTo(c, coins), <<rec, chg>>, rate)
           enough == {c \in coins : SumOf(UpTo(c, coins)) >= target + fee(c)}
           IsLast(c) == c \in enough /\ \A d \in enough \ {c} : Larger(c, d)
<1>1. PICK last : last = CHOOSE c \in enough : \A d \in enough \ {c} : Larger(c, d)
  OBVIOUS
<1>2. enough # {}
  BY DEF LargestFirst, Refused
<1>3. enough \subseteq coins
  OBVIOUS
<1>4. LargestFirst(coins, target, rec, chg, rate) = Split(UpTo(last, coins), target, fee(last))
  BY <1>1, <1>2, Zenon DEF LargestFirst
<1>5. \A c \in enough : SumOf(UpTo(c, coins)) >= target + fee(c)
  OBVIOUS
<1> HIDE DEF enough
<1>6. \E c \in enough : \A d \in enough \ {c} : Larger(c, d)
  <2>1. enough \subseteq CoinRec /\ IsFiniteSet(enough) /\ Apart(enough)
    BY <1>3, FS_Subset DEF Apart
  <2> QED BY <1>2, <2>1, LargestExists
<1>7. last \in enough
  BY <1>1, <1>6
<1>8. UpTo(last, coins) \in SUBSET coins
  BY DEF UpTo
<1> QED BY <1>4, <1>5, <1>7, <1>8, SplitIsGood

LEMMA SelectionIsGood ==
    ASSUME NEW coins, coins \subseteq CoinRec, IsFiniteSet(coins), Apart(coins),
           NEW target \in Nat, NEW rate \in Nat, NEW high \in Nat, NEW rec \in Types, NEW chg \in Types,
           NEW sel \in selectCoinsBnb(coins, target, rate, high, rec, chg), sel.ok
    PROVE  Good(sel, coins, target, rec, chg, rate)
<1> DEFINE found == bnbSearch(coins, target, rec, rate)
<1>1. \A why : ~Refused(why).ok
  BY DEF Refused
<1>2. \/ sel = ExactMatch(FirstMatch(found), target) /\ found # {}
      \/ sel = LargestFirst(coins, target, rec, chg, rate)
  BY <1>1, Zenon DEF selectCoinsBnb
<1> QED BY <1>2, MatchIsGood, LargestIsGood

-----------------------------------------------------------------------------
(* The sends: the inductive invariant                                       *)

Statuses == {"prepared", "mempool", "confirmed", "replaced"}

OutRec == [owner : {"them", "receive", "change"}, index : Nat, value : Nat, type : Types]

TxRec == [tool : {"send", "bump", "wallet"}, ins : SUBSET CoinRec, outs : Seq(OutRec), fee : Nat,
          rate : Nat, rbf : BOOLEAN, keys : {"device", "stub"}, of : Nat, named : SUBSET CoinRec,
          status : Statuses]

RowRec == [id : Nat, value : Nat, type : Types, from : Nat, settled : BOOLEAN]

BumpRec == [tool : {"bump"}, of : Nat, rate : BumpRates]

SendRec == [tool : {"send"}, target : Nat, rate : Nat \cup {Nothing}, recType : Types,
            own : BOOLEAN, rbf : BOOLEAN, override : {Nothing} \cup SUBSET CoinRec]

BtcCallRec == [pc : {"idle", "keys", "fees", "utxos", "index", "fetch", "gauge"},
               req : SendRec \cup BumpRec \cup {Nothing}, rate : Nat, high : Nat,
               ins : SUBSET CoinRec, change : Nat, read : TxRec \cup {Nothing}]

SettingRec == [net : {"btc", "ltc"}, demo : BOOLEAN]

ScanTypes ==
    /\ infoCache \in [Types -> [Indexes -> {Nothing, "used", "empty", "failed"}]]
    /\ scanCache \in [Types -> {Nothing} \cup SUBSET Indexes]

\* The coins there have been: those of the beginning and the outputs of the transactions.
KnownIn(all) ==
    {c \in CoinRec : \/ c \in FirstCoins
                     \/ /\ c.from \in DOMAIN all /\ c.id \in DOMAIN all[c.from].outs
                        /\ c.value = all[c.from].outs[c.id].value
                        /\ c.type = all[c.from].outs[c.id].type}

SettledIn(c, all) == c.from # 0 => c.from \in DOMAIN all /\ all[c.from].status = "confirmed"

\* Coins that a send may spend whose caller named these.
MaySpend(named, all) == {c \in KnownIn(all) : SettledIn(c, all) \/ c \in named}

\* What FeePaysTheRate asks of a send, and BumpReplaces of a bump.
PaysItsRate(t) ==
    LET short == IF Len(t.outs) = 2 /\ t.outs[2].type = "p2tr" THEN 12 ELSE 0
    IN 10 * t.fee >= t.rate * (Vsize(t) - short)

Replaces(t, was) ==
    LET Paid(outs, o) == Cardinality({k \in DOMAIN outs : outs[k] = o}) IN
    /\ t.ins = was.ins
    /\ t.fee >= was.fee + Vsize(t)
    /\ \A o \in ToSet(t.outs) \cup ToSet(was.outs) :
          o.owner = "them" => Paid(t.outs, o) = Paid(was.outs, o)

GoodIn(t, all) ==
    /\ IsFiniteSet(t.ins) /\ Len(t.outs) \in 1..3
    /\ t.fee = SumOf(t.ins) - OutSum(t.outs)
    /\ t.tool = "send" => t.ins \subseteq MaySpend(t.named, all) /\ PaysItsRate(t)
    /\ t.tool = "bump" => t.of \in DOMAIN all /\ Replaces(t, all[t.of])
    /\ t.tool # "bump" => t.of = 0

AllGood(all) == \A i \in DOMAIN all : GoodIn(all[i], all) /\ all[i].of < i

\* A row of the cache that was settled still is.
RowsIn(rows, all) == \A r \in rows : r \in RowRec /\ Plain(r) \in KnownIn(all)
                                       /\ (r.settled => SettledIn(r, all))

CacheIn(cache, all) ==
    cache = [t \in Types |-> cache[t]] /\ \A t \in Types : cache[t] # Nothing => RowsIn(cache[t], all)

\* The same transaction, at another time.
Same(t, u) == u = [t EXCEPT !.status = u.status]

CallIn(c, all) ==
    /\ c.pc \in {"keys", "fees", "utxos", "index"} =>
          /\ c.req \in SendRec /\ Askable(c.req)
          /\ Named(c.req) \subseteq KnownIn(all)
    /\ c.pc \in {"fetch", "gauge"} => c.req \in BumpRec /\ c.req.of \in DOMAIN all
    /\ c.pc = "gauge" => c.read \in TxRec /\ Same(c.read, all[c.req.of])
    /\ c.pc = "index" => /\ setting.net = "btc"
                         /\ Good(c, MaySpend(Named(c.req), all), c.req.target, c.req.recType,
                                 "p2wpkh", c.rate)

BitcoinInv ==
    /\ setting \in SettingRec /\ call \in BtcCallRec /\ txs \in Seq(TxRec) /\ ScanTypes
    /\ AllGood(txs) /\ CacheIn(utxoCache, txs) /\ CallIn(call, txs)

\* Transactions stay what they were, and those that are confirmed stay so.
Grows(all, more) ==
    /\ Len(all) <= Len(more)
    /\ \A i \in DOMAIN all : /\ Same(all[i], more[i])
                             /\ all[i].status = "confirmed" => more[i].status = "confirmed"

-----------------------------------------------------------------------------
(* What stays while transactions come                                        *)

LEMMA SameIs ==
    ASSUME NEW t \in TxRec, NEW u \in TxRec
    PROVE  Same(t, u) <=> /\ u.tool = t.tool /\ u.ins = t.ins /\ u.outs = t.outs /\ u.fee = t.fee
                          /\ u.rate = t.rate /\ u.rbf = t.rbf /\ u.keys = t.keys /\ u.of = t.of
                          /\ u.named = t.named
BY DEF TxRec, Same

LEMMA StatusOnly ==
    ASSUME NEW t \in TxRec, NEW s \in Statuses
    PROVE  [t EXCEPT !.status = s] \in TxRec /\ Same(t, [t EXCEPT !.status = s])
           /\ [t EXCEPT !.status = s].status = s
BY DEF TxRec, Same

\* The number of coins is finite and each has an outpoint of its own.
LEMMA KnownAre ==
    ASSUME NEW all \in Seq(TxRec), \A i \in DOMAIN all : Len(all[i].outs) \in 1..3
    PROVE  KnownIn(all) \subseteq CoinRec /\ IsFiniteSet(KnownIn(all)) /\ Apart(KnownIn(all))
<1> DEFINE new == KnownIn(all) \ FirstCoins
           spots == (1..Len(all)) \X (1..3)
           f == [c \in new |-> <<c.from, c.id>>]
<1>1. \A c \in new : /\ c \in CoinRec /\ c.from \in DOMAIN all /\ c.id \in DOMAIN all[c.from].outs
                     /\ c.value = all[c.from].outs[c.id].value
                     /\ c.type = all[c.from].outs[c.id].type
  BY DEF KnownIn
<1>2. \A c, d \in CoinRec : c.id = d.id /\ c.value = d.value /\ c.type = d.type /\ c.from = d.from => c = d
  BY DEF CoinRec
<1>3. \A c, d \in new : c.from = d.from /\ c.id = d.id => c = d
  BY <1>1, <1>2
<1>4. \A c \in FirstCoins : c.from = 0
  BY BitcoinAssumption
<1>5. \A c \in new : c.from # 0
  BY <1>1
<1>6. \A c, d \in FirstCoins : c.id = d.id => c = d
  BY BitcoinAssumption
<1>7. Apart(KnownIn(all))
  BY <1>3, <1>4, <1>5, <1>6 DEF Apart
<1>8. \A c \in new : <<c.from, c.id>> \in spots
  <2>1. SUFFICES ASSUME NEW c \in new PROVE c.from \in 1..Len(all) /\ c.id \in 1..3
    OBVIOUS
  <2>2. c.from \in DOMAIN all /\ c.id \in DOMAIN all[c.from].outs
    BY <1>1
  <2>3. all[c.from] \in TxRec /\ Len(all[c.from].outs) \in 1..3
    BY <2>2
  <2>4. all[c.from].outs \in Seq(OutRec)
    BY <2>3 DEF TxRec
  <2> QED BY <2>2, <2>3, <2>4
<1>9. IsFiniteSet(spots)
  <2>1. Len(all) \in Int /\ 1 \in Int /\ 3 \in Int
    OBVIOUS
  <2>2. IsFiniteSet(1..Len(all))
    BY <2>1, FS_Interval
  <2>3. IsFiniteSet(1..3)
    BY <2>1, FS_Interval
  <2> QED BY <2>2, <2>3, FS_Product
<1>10. f \in [new -> spots] /\ \A c, d \in new : f[c] = f[d] => c = d
  BY <1>3, <1>8
<1> HIDE DEF f, spots
<1>11. f \in Injection(new, spots)
  BY <1>10 DEF Injection, IsInjective
<1>12. IsFiniteSet(new)
  BY <1>9, <1>11, FS_Injection
<1>13. IsFiniteSet(new \cup FirstCoins)
  BY <1>12, BitcoinAssumption, FS_Union
<1>14. KnownIn(all) \in SUBSET (new \cup FirstCoins)
  OBVIOUS
<1> QED BY <1>7, <1>13, <1>14, FS_Subset DEF KnownIn

LEMMA KnownGrow ==
    ASSUME NEW all \in Seq(TxRec), NEW more \in Seq(TxRec), Grows(all, more)
    PROVE  /\ KnownIn(all) \subseteq KnownIn(more) 
           /\ \A named : MaySpend(named, all) \subseteq MaySpend(named, more)
           /\ \A c : SettledIn(c, all) => SettledIn(c, more)
<1>1. \A i \in DOMAIN all : i \in DOMAIN more /\ more[i].outs = all[i].outs
                            /\ (all[i].status = "confirmed" => more[i].status = "confirmed")
  BY SameIs DEF Grows
<1>2. \A c : SettledIn(c, all) => SettledIn(c, more)
  BY <1>1 DEF SettledIn
<1>3. KnownIn(all) \subseteq KnownIn(more)
  BY <1>1 DEF KnownIn
<1> QED BY <1>2, <1>3 DEF MaySpend

LEMMA GoodGrow ==
    ASSUME NEW all \in Seq(TxRec), NEW more \in Seq(TxRec), Grows(all, more),
           NEW t \in TxRec, NEW u \in TxRec, Same(t, u), GoodIn(t, all)
    PROVE  GoodIn(u, more)
<1>1. /\ u.tool = t.tool /\ u.ins = t.ins /\ u.outs = t.outs /\ u.fee = t.fee
      /\ u.rate = t.rate /\ u.of = t.of /\ u.named = t.named
  BY SameIs
<1>2. PaysItsRate(t) => PaysItsRate(u)
  BY <1>1 DEF PaysItsRate, Vsize
<1>3. MaySpend(t.named, all) \subseteq MaySpend(t.named, more)
  BY KnownGrow
<1>4. ASSUME t.tool = "bump" PROVE u.of \in DOMAIN more /\ Replaces(u, more[u.of])
  <2>1. t.of \in DOMAIN all /\ Replaces(t, all[t.of])
    BY <1>4 DEF GoodIn
  <2>2. all[t.of] \in TxRec /\ more[t.of] \in TxRec /\ t.of \in DOMAIN more /\ Same(all[t.of], more[t.of])
    BY <2>1 DEF Grows
  <2>3. /\ more[t.of].ins = all[t.of].ins /\ more[t.of].fee = all[t.of].fee
        /\ more[t.of].outs = all[t.of].outs
    BY <2>2, SameIs
  <2>4. Replaces(u, more[t.of])
    BY <1>1, <2>1, <2>3 DEF Replaces, Vsize
  <2> QED BY <1>1, <2>2, <2>4
<1> QED BY <1>1, <1>2, <1>3, <1>4 DEF GoodIn

LEMMA RestGrows ==
    ASSUME NEW all \in Seq(TxRec), NEW more \in Seq(TxRec), Grows(all, more)
    PROVE  /\ \A cache : CacheIn(cache, all) => CacheIn(cache, more)
           /\ \A c \in BtcCallRec : CallIn(c, all) => CallIn(c, more)
<1>1. /\ KnownIn(all) \subseteq KnownIn(more)
      /\ \A named : MaySpend(named, all) \subseteq MaySpend(named, more)
      /\ \A c : SettledIn(c, all) => SettledIn(c, more)
  BY KnownGrow
<1>2. ASSUME NEW cache, CacheIn(cache, all) PROVE CacheIn(cache, more)
  BY <1>1, <1>2 DEF CacheIn, RowsIn
<1>3. ASSUME NEW c \in BtcCallRec, CallIn(c, all) PROVE CallIn(c, more)
  <2>1. ASSUME c.pc \in {"fetch", "gauge"} PROVE c.req.of \in DOMAIN more
    BY <1>3, <2>1 DEF CallIn, Grows
  <2>2. ASSUME c.pc = "gauge" PROVE c.read \in TxRec /\ Same(c.read, more[c.req.of])
    <3>1. c.read \in TxRec /\ c.req.of \in DOMAIN all /\ Same(c.read, all[c.req.of])
      BY <1>3, <2>2 DEF CallIn
    <3>2. /\ all[c.req.of] \in TxRec /\ more[c.req.of] \in TxRec
          /\ Same(all[c.req.of], more[c.req.of])
      BY <3>1 DEF Grows
    <3> QED BY <3>1, <3>2, SameIs
  <2>3. ASSUME c.pc = "index"
        PROVE  Good(c, MaySpend(Named(c.req), more), c.req.target, c.req.recType, "p2wpkh", c.rate)
    BY <1>1, <1>3, <2>3 DEF CallIn, Good
  <2> QED BY <1>1, <1>3, <2>1, <2>2, <2>3 DEF CallIn
<1> QED BY <1>2, <1>3

LEMMA AppendKeeps ==
    ASSUME NEW all \in Seq(TxRec), AllGood(all), NEW t \in TxRec, GoodIn(t, all)
    PROVE  /\ Append(all, t) \in Seq(TxRec)
           /\ Grows(all, Append(all, t)) /\ AllGood(Append(all, t))
<1> DEFINE more == Append(all, t)
<1>1. /\ more \in Seq(TxRec) /\ Len(more) = Len(all) + 1 /\ DOMAIN more = 1..(Len(all) + 1)
      /\ DOMAIN all = 1..Len(all) /\ Len(all) \in Nat
      /\ more[Len(all) + 1] = t /\ \A i \in DOMAIN all : more[i] = all[i]
  OBVIOUS
<1> HIDE DEF more
<1>2. \A u \in TxRec : Same(u, u)
  BY SameIs
<1>3. \A i \in DOMAIN all : all[i] \in TxRec
  OBVIOUS
<1>4. Grows(all, more)
  BY <1>1, <1>2, <1>3 DEF Grows
<1>5. GoodIn(t, more)
  BY <1>1, <1>2, <1>4, GoodGrow
<1>6. \A i \in DOMAIN all : GoodIn(all[i], more) /\ all[i].of < i
  BY <1>1, <1>2, <1>3, <1>4, GoodGrow DEF AllGood
<1>7. t.of < Len(all) + 1
  BY <1>1 DEF GoodIn
<1>8. AllGood(more)
  <2>1. SUFFICES ASSUME NEW i \in DOMAIN more PROVE GoodIn(more[i], more) /\ more[i].of < i
    BY DEF AllGood
  <2>2. CASE i \in DOMAIN all
    BY <1>1, <1>6, <2>2
  <2>3. CASE i = Len(all) + 1
    BY <1>1, <1>5, <1>7, <2>3
  <2> QED BY <1>1, <2>2, <2>3
<1> QED BY <1>1, <1>4, <1>8 DEF more

LEMMA StatusKeeps ==
    ASSUME NEW all \in Seq(TxRec), AllGood(all), NEW more \in Seq(TxRec),
           Len(more) = Len(all), Grows(all, more)
    PROVE  AllGood(more)
<1>1. SUFFICES ASSUME NEW i \in DOMAIN more PROVE GoodIn(more[i], more) /\ more[i].of < i
  BY DEF AllGood
<1>2. /\ i \in DOMAIN all /\ all[i] \in TxRec /\ more[i] \in TxRec /\ Same(all[i], more[i])
      /\ GoodIn(all[i], all) /\ all[i].of < i
  BY DEF Grows, AllGood
<1>3. GoodIn(more[i], more)
  BY <1>2, GoodGrow
<1> QED BY <1>2, <1>3, SameIs

-----------------------------------------------------------------------------
(* The steps of the sends                                                    *)

Kept ==
    /\ call' \in BtcCallRec /\ txs' \in Seq(TxRec) /\ Grows(txs, txs') /\ AllGood(txs')
    /\ CallIn(call', txs')

LEMMA RefuseKeeps ==
    ASSUME BitcoinInv, Refuse
    PROVE  Kept
<1>1. call' = NoCall /\ txs' = txs /\ txs \in Seq(TxRec) /\ AllGood(txs)
  BY DEF Refuse, BitcoinInv
<1>2. NoCall \in BtcCallRec /\ NoCall.pc = "idle"
  BY DEF BtcCallRec, NoCall
<1>3. Grows(txs, txs)
  <2>1. \A i \in DOMAIN txs : txs[i] \in TxRec
    BY <1>1
  <2> QED BY <1>1, <2>1, SameIs DEF Grows
<1>4. CallIn(NoCall, txs)
  BY <1>2 DEF CallIn
<1> QED BY <1>1, <1>2, <1>3, <1>4 DEF Kept

LEMMA MakeKeeps ==
    ASSUME BitcoinInv, NEW t \in TxRec, GoodIn(t, txs), Make(t)
    PROVE  Kept
<1>1. call' = NoCall /\ txs' = Append(txs, t) /\ txs \in Seq(TxRec) /\ AllGood(txs)
  BY DEF Make, BitcoinInv
<1>2. NoCall \in BtcCallRec /\ NoCall.pc = "idle"
  BY DEF BtcCallRec, NoCall
<1>3. CallIn(NoCall, txs')
  BY <1>2 DEF CallIn
<1> QED BY <1>1, <1>2, <1>3, AppendKeeps DEF Kept

\* A step of a call that makes nothing.
LEMMA MoveKeeps ==
    ASSUME BitcoinInv, UNCHANGED txs, call' \in BtcCallRec, CallIn(call', txs)
    PROVE  Kept
<1>1. txs' = txs /\ txs \in Seq(TxRec) /\ AllGood(txs)
  BY DEF BitcoinInv
<1>2. Grows(txs, txs)
  <2>1. \A i \in DOMAIN txs : txs[i] \in TxRec
    BY <1>1
  <2> QED BY <1>1, <2>1, SameIs DEF Grows
<1> QED BY <1>1, <1>2 DEF Kept

\* What is kept is enough when no cache changes.
LEMMA KeptIsEnough ==
    ASSUME BitcoinInv, Kept, setting' = setting, CacheIn(utxoCache', txs'), ScanTypes'
    PROVE  BitcoinInv'
<1>1. CallIn(call, txs)'
  BY DEF Kept, CallIn, Askable
<1> QED BY <1>1 DEF BitcoinInv, Kept

LEMMA CachesKeep ==
    ASSUME BitcoinInv, Kept, UNCHANGED caches
    PROVE  CacheIn(utxoCache', txs') /\ ScanTypes'
<1>1. CacheIn(utxoCache, txs) /\ txs \in Seq(TxRec) /\ txs' \in Seq(TxRec) /\ Grows(txs, txs')
  BY DEF BitcoinInv, Kept
<1>2. CacheIn(utxoCache, txs')
  BY <1>1, RestGrows
<1>3. utxoCache' = utxoCache /\ infoCache' = infoCache /\ scanCache' = scanCache
  BY DEF caches
<1>4. ScanTypes'
  BY <1>3 DEF BitcoinInv, ScanTypes
<1> QED BY <1>2, <1>3, <1>4

LEMMA OutSums ==
    ASSUME NEW a \in OutRec, NEW b \in OutRec, NEW c \in OutRec
    PROVE  /\ OutSum(<<a>>) = a.value /\ OutTypes(<<a>>) = <<a.type>>
           /\ OutSum(<<a, b>>) = a.value + b.value /\ OutTypes(<<a, b>>) = <<a.type, b.type>>
           /\ OutSum(<<a, b, c>>) = a.value + b.value + c.value
<1>1. a.value \in Nat /\ b.value \in Nat /\ c.value \in Nat
  BY DEF OutRec
<1>2. OutSum(<<a>>) = a.value
  <2> DEFINE w == [i \in DOMAIN <<a>> |-> <<a>>[i].value]
  <2>1. w \in [{1} -> Nat] /\ w[1] = a.value
    BY <1>1
  <2> HIDE DEF w
  <2>2. SumOver(w) = w[1]
    BY <2>1, SumOverOne
  <2> QED BY <2>1, <2>2 DEF OutSum, w
<1>3. OutSum(<<a, b>>) = a.value + b.value
  <2> DEFINE w == [i \in DOMAIN <<a, b>> |-> <<a, b>>[i].value]
  <2>1. w \in [1..2 -> Nat] /\ w[1] = a.value /\ w[2] = b.value
    BY <1>1
  <2> HIDE DEF w
  <2>2. SumOver(w) = w[1] + w[2]
    BY <2>1, SumOverTwo
  <2> QED BY <2>1, <2>2 DEF OutSum, w
<1>4. OutSum(<<a, b, c>>) = a.value + b.value + c.value
  <2> DEFINE w == [i \in DOMAIN <<a, b, c>> |-> <<a, b, c>>[i].value]
  <2>1. w \in [1..3 -> Nat] /\ w[1] = a.value /\ w[2] = b.value /\ w[3] = c.value
    BY <1>1
  <2> HIDE DEF w
  <2>2. SumOver(w) = w[1] + w[2] + w[3]
    BY <2>1, SumOverThree
  <2> QED BY <2>1, <2>2 DEF OutSum, w
<1>5. OutTypes(<<a>>) = <<a.type>> /\ OutTypes(<<a, b>>) = <<a.type, b.type>>
  BY DEF OutTypes
<1> QED BY <1>2, <1>3, <1>4, <1>5

LEMMA SendTypes ==
    ASSUME NEW r \in SendRec
    PROVE  /\ r.tool = "send" /\ r.target \in Nat /\ r.rate \in Nat \cup {Nothing} /\ r.recType \in Types
           /\ r.rbf \in BOOLEAN /\ Named(r) \in SUBSET CoinRec /\ r \notin BumpRec
BY DEF SendRec, BumpRec, Named

LEMMA SafeAre ==
    ASSUME BitcoinInv, NEW named
    PROVE  /\ MaySpend(named, txs) \subseteq KnownIn(txs) /\ MaySpend(named, txs) \subseteq CoinRec
           /\ IsFiniteSet(MaySpend(named, txs)) /\ Apart(MaySpend(named, txs))
<1>1. txs \in Seq(TxRec) /\ \A i \in DOMAIN txs : Len(txs[i].outs) \in 1..3
  BY DEF BitcoinInv, AllGood, GoodIn
<1>2. KnownIn(txs) \subseteq CoinRec /\ IsFiniteSet(KnownIn(txs)) /\ Apart(KnownIn(txs))
  BY <1>1, KnownAre
<1>3. MaySpend(named, txs) \in SUBSET KnownIn(txs)
  BY DEF MaySpend
<1> QED BY <1>2, <1>3, FS_Subset DEF Apart

\* Two outputs, one after the other.
LEMMA Joined ==
    ASSUME NEW S, NEW a \in S, NEW b \in S
    PROVE  <<a>> \o <<b>> = <<a, b>>
<1>1. <<a>> \in Seq(S) /\ Len(<<a>>) = 1 /\ <<b>> \in Seq(S) /\ Len(<<b>>) = 1
  OBVIOUS
<1>2. PICK s, r : s = <<a>> /\ r = <<b>>
  OBVIOUS
<1>3. s \o r \in Seq(S) /\ Len(s \o r) = 2 /\ (s \o r)[1] = a /\ (s \o r)[2] = b
  BY <1>1, <1>2, ConcatProperties
<1>4. PICK q \in Seq(S) : q = s \o r
  BY <1>3
<1>5. Len(q) = 2 /\ q[1] = a /\ q[2] = b
  BY <1>3, <1>4
<1>6. q = <<a, b>>
  BY <1>5
<1> QED BY <1>2, <1>4, <1>6

\* A send that pays for its size is a good transaction, with change and without.
LEMMA BuiltIsGood ==
    ASSUME BitcoinInv, NEW r \in SendRec, NEW ins, ins \subseteq MaySpend(Named(r), txs),
           NEW rate \in Nat, NEW changes,
           \/ /\ changes = <<>>
              /\ Pays(ins, SumOf(ins) - r.target, <<r.recType>>, rate)
           \/ \E k \in Nat, v \in Nat, type \in Types :
                 /\ changes = <<Output("change", k, v, type)>>
                 /\ Pays(ins, SumOf(ins) - r.target - v, <<r.recType, "p2wpkh">>, rate),
           NEW t, t = Transaction("send", ins, <<Recipient(r)>> \o changes, rate, r.rbf, "device", 0,
                                  Named(r))
    PROVE  t \in TxRec /\ GoodIn(t, txs)
<1> DEFINE to == Recipient(r)
<1>1. /\ r.tool = "send" /\ r.target \in Nat /\ r.recType \in Types /\ r.rbf \in BOOLEAN
  BY SendTypes
<1>2. ins \in SUBSET CoinRec /\ IsFiniteSet(ins)
  BY SafeAre, FS_Subset
<1>3. SumOf(ins) \in Nat /\ InVbytes(ins) \in Nat
  BY <1>2, CoinSums
<1>4. to \in OutRec /\ to.value = r.target /\ to.type = r.recType
  BY <1>1 DEF OutRec, Recipient, Output
<1> HIDE DEF to
<1>5. /\ t.tool = "send" /\ t.ins = ins /\ t.outs = <<to>> \o changes /\ t.rate = rate /\ t.rbf = r.rbf
      /\ t.keys = "device" /\ t.of = 0 /\ t.named = Named(r) /\ t.status = "prepared" /\ t.fee = SumOf(ins) - OutSum(t.outs)
      /\ t = [tool |-> t.tool, ins |-> t.ins, outs |-> t.outs, fee |-> t.fee, rate |-> t.rate,
              rbf |-> t.rbf, keys |-> t.keys, of |-> t.of, named |-> t.named, status |-> t.status]
  BY DEF Transaction, to
<1>6. ASSUME t.outs \in Seq(OutRec), t.fee \in Nat PROVE t \in TxRec
  <2>1. /\ t.tool \in {"send", "bump", "wallet"} /\ t.ins \in SUBSET CoinRec /\ t.rate \in Nat
        /\ t.rbf \in BOOLEAN /\ t.keys \in {"device", "stub"} /\ t.of \in Nat /\ t.status \in Statuses
        /\ t.named \in SUBSET CoinRec
    BY SendTypes, <1>1, <1>2, <1>5 DEF Statuses
  <2> QED BY <1>5, <1>6, <2>1 DEF TxRec
<1>7. CASE changes = <<>>
  <2>1. Pays(ins, SumOf(ins) - r.target, <<r.recType>>, rate)
    BY <1>7
  <2>2. t.outs = <<to>> /\ t.outs \in Seq(OutRec) /\ Len(t.outs) = 1
    <3>1. PICK s : s = <<to>>
      OBVIOUS
    <3>2. changes \in Seq(OutRec) /\ Len(changes) = 0
      BY <1>7
    <3>3. <<to>> \in Seq(OutRec) /\ Len(<<to>>) = 1
      BY <1>4
    <3>4. s \o changes = s
      BY <3>1, <3>2, <3>3
    <3> QED BY <1>5, <3>1, <3>3, <3>4
  <2>3. OutSum(t.outs) = r.target /\ OutTypes(t.outs) = <<r.recType>>
    BY <1>4, <2>2, OutSums
  <2>4. Vsize(t) = Vbytes(ins, <<r.recType>>)
    BY <1>5, <2>3 DEF Vsize
  <2>5. t.fee = SumOf(ins) - r.target /\ t.fee \in Nat /\ Vsize(t) * rate <= 10 * t.fee
    BY <1>5, <2>1, <2>3, <2>4 DEF Pays
  <2>6. Vsize(t) \in Nat
    BY <1>2, <2>4, SizeIsNumber
  <2>7. PaysItsRate(t)
    <3>1. PICK n \in Nat : n = Vsize(t)
      BY <2>6
    <3>2. n - 0 = n /\ n * rate = rate * n
      OBVIOUS
    <3> QED BY <1>5, <2>2, <2>5, <3>1, <3>2 DEF PaysItsRate
  <2>8. t \in TxRec
    BY <1>6, <2>2, <2>5
  <2> QED BY <1>2, <1>5, <2>2, <2>7, <2>8 DEF GoodIn
<1>8. CASE changes # <<>>
  <2>1. PICK k \in Nat, v \in Nat, type \in Types :
           /\ changes = <<Output("change", k, v, type)>>
           /\ Pays(ins, SumOf(ins) - r.target - v, <<r.recType, "p2wpkh">>, rate)
    BY <1>8
  <2>2. PICK back : back = Output("change", k, v, type)
    OBVIOUS
  <2>3. back \in OutRec /\ back.value = v /\ back.type = type
    BY <2>2 DEF OutRec, Output
  <2>4. t.outs = <<to, back>> /\ t.outs \in Seq(OutRec) /\ Len(t.outs) = 2 /\ t.outs[2].type = type
    <3>1. t.outs = <<to>> \o <<back>>
      BY <1>5, <2>1, <2>2
    <3>2. <<to>> \o <<back>> = <<to, back>>
      BY <1>4, <2>3, Joined
    <3>3. t.outs = <<to, back>>
      BY <3>1, <3>2
    <3>4. Len(<<to, back>>) = 2 /\ <<to, back>>[2] = back
      OBVIOUS
    <3>5. <<to, back>> \in Seq(OutRec)
      BY <1>4, <2>3
    <3> QED BY <2>3, <3>3, <3>4, <3>5
  <2>5. OutSum(t.outs) = r.target + v /\ OutTypes(t.outs) = <<r.recType, type>>
    BY <1>4, <2>3, <2>4, OutSums
  <2>6. Vsize(t) = Vbytes(ins, <<r.recType, type>>)
    BY <1>5, <2>5 DEF Vsize
  <2>7. PICK n \in Nat : n = Vbytes(ins, <<r.recType, "p2wpkh">>)
    BY <1>2, SizeIsNumber
  <2>8. Vsize(t) = n + (outputVbytes(type) - 31)
    <3>1. /\ n = 11 + InVbytes(ins) + (outputVbytes(r.recType) + 31)
          /\ Vsize(t) = 11 + InVbytes(ins) + (outputVbytes(r.recType) + outputVbytes(type))
      BY <2>6, <2>7, SizeWithTwo DEF outputVbytes
    <3>2. outputVbytes(r.recType) \in Nat /\ outputVbytes(type) \in Nat
      BY DEF outputVbytes
    <3> QED BY <1>3, <3>1, <3>2
  <2>9. t.fee = SumOf(ins) - r.target - v /\ t.fee \in Nat /\ n * rate <= 10 * t.fee
    BY <1>1, <1>3, <1>5, <2>1, <2>5, <2>7 DEF Pays
  <2>10. PaysItsRate(t)
    <3>1. Vsize(t) - (IF Len(t.outs) = 2 /\ t.outs[2].type = "p2tr" THEN 12 ELSE 0) = n
      BY <2>4, <2>8 DEF outputVbytes, Types
    <3>2. n * rate = rate * n
      OBVIOUS
    <3> QED BY <1>5, <2>9, <3>1, <3>2 DEF PaysItsRate
  <2>11. t \in TxRec
    BY <1>6, <2>4, <2>9
  <2> QED BY <1>2, <1>5, <2>4, <2>10, <2>11 DEF GoodIn
<1> QED BY <1>7, <1>8

LEMMA SelectKeeps ==
    ASSUME BitcoinInv, NEW ins, ins \subseteq MaySpend(Named(call.req), txs),
           NEW rate \in Nat, NEW high \in Nat, call.req \in SendRec, Askable(call.req),
           Named(call.req) \subseteq KnownIn(txs), Select(ins, rate, high)
    PROVE  Kept
<1>1. PICK r \in SendRec : r = call.req
  OBVIOUS
<1>2. r.target \in Nat /\ r.recType \in Types
  BY SendTypes
<1>3. ins \subseteq CoinRec /\ IsFiniteSet(ins) /\ Apart(ins)
  BY SafeAre, FS_Subset DEF Apart
<1>4. "p2wpkh" \in Types
  BY DEF Types
<1>5. ASSUME NEW sel, sel.ok, NEW rec \in Types, rec = r.recType,
             sel \in selectCoinsBnb(ins, r.target, rate, high, rec, "p2wpkh")
      PROVE  /\ sel.ins \subseteq MaySpend(Named(r), txs) /\ sel.ins \in SUBSET CoinRec /\ sel.change \in Nat
             /\ Good(sel, MaySpend(Named(r), txs), r.target, r.recType, "p2wpkh", rate)
  <2>1. Good(sel, ins, r.target, rec, "p2wpkh", rate)
    BY <1>2, <1>3, <1>4, <1>5, SelectionIsGood
  <2> QED BY <1>1, <1>3, <1>5, <2>1 DEF Good
<1>6. ASSUME NEW sel, sel.ok, NEW rec \in Types, rec = r.recType,
             sel \in selectCoinsBnb(ins, r.target, rate, high, rec, "p2wpkh"),
             BuildSend(sel.ins, rate, <<>>)
      PROVE  Kept
  <2>1. PICK t : t = Transaction("send", sel.ins, <<Recipient(r)>> \o <<>>, rate, r.rbf, "device", 0,
                              Named(r))
    OBVIOUS
  <2>2. Make(t)
    BY <1>1, <1>6, <2>1, Zenon DEF BuildSend
  <2>3. /\ sel.ins \subseteq MaySpend(Named(r), txs)
        /\ Pays(sel.ins, SumOf(sel.ins) - r.target, <<r.recType>>, rate)
    BY <1>5, <1>6 DEF Good
  <2>4. t \in TxRec /\ GoodIn(t, txs)
    BY <2>1, <2>3, BuiltIsGood
  <2> QED BY <2>2, <2>4, MakeKeeps
<1>7. CASE SelectBtc(ins, rate, high) /\ setting.net = "btc"
  <2>1. PICK sel \in selectCoinsBnb(ins, r.target, rate, high, r.recType, "p2wpkh") :
           \/ Refuse
           \/ sel.ok /\ BuildSend(sel.ins, rate, <<>>)
           \/ /\ sel.ok
              /\ call' = [call EXCEPT !.pc = "index", !.rate = rate, !.ins = sel.ins, !.change = sel.change]
              /\ UNCHANGED txs
    BY <1>1, <1>7, Zenon DEF SelectBtc
  <2>2. CASE Refuse
    BY <2>2, RefuseKeeps
  <2>3. CASE sel.ok /\ BuildSend(sel.ins, rate, <<>>)
    BY <1>2, <1>6, <2>3
  <2>4. CASE /\ sel.ok
             /\ call' = [call EXCEPT !.pc = "index", !.rate = rate, !.ins = sel.ins, !.change = sel.change]
             /\ UNCHANGED txs
    <3>1. /\ sel.ins \in SUBSET CoinRec /\ sel.change \in Nat
          /\ Good(sel, MaySpend(Named(r), txs), r.target, r.recType, "p2wpkh", rate)
      BY <1>2, <1>5, <2>4
    <3>2. call \in BtcCallRec
      BY DEF BitcoinInv
    <3>3. /\ call' \in BtcCallRec /\ call'.pc = "index" /\ call'.req = r /\ call'.rate = rate
          /\ call'.ins = sel.ins /\ call'.change = sel.change
      BY <1>1, <2>4, <3>1, <3>2 DEF BtcCallRec
    <3>4. Good(call', MaySpend(Named(r), txs), r.target, r.recType, "p2wpkh", rate)
      BY <3>1, <3>3 DEF Good
    <3>5. CallIn(call', txs)
      BY <1>1, <1>7, <3>3, <3>4 DEF CallIn
    <3> QED BY <2>4, <3>3, <3>5, MoveKeeps
  <2> QED BY <2>1, <2>2, <2>3, <2>4
<1>8. CASE SelectLtc(ins, rate, high) /\ setting.net = "ltc"
  <2>1. r.recType = "p2wpkh"
    BY <1>1, <1>8 DEF Askable, AskableLtc
  <2>2. PICK sel \in selectCoinsBnb(ins, r.target, rate, high, "p2wpkh", "p2wpkh") :
           Refuse \/ (sel.ok /\ BuildSend(sel.ins, rate, <<>>))
    BY <1>1, <1>8, Zenon DEF SelectLtc, BuildLtcSend
  <2>3. CASE Refuse
    BY <2>3, RefuseKeeps
  <2>4. CASE sel.ok /\ BuildSend(sel.ins, rate, <<>>)
    BY <1>4, <1>6, <2>1, <2>2, <2>4
  <2> QED BY <2>2, <2>3, <2>4
<1> QED BY <1>7, <1>8 DEF Select

LEMMA FeeStepKeeps ==
    ASSUME BitcoinInv, NEW three \in Nat, NEW one \in Nat, call.pc = "fees", Estimated(three, one)
    PROVE  Kept
<1>1. call \in BtcCallRec /\ call.req \in SendRec /\ Askable(call.req)
      /\ Named(call.req) \subseteq KnownIn(txs)
  BY DEF BitcoinInv, CallIn
<1>2. call.req.rate \in Nat \cup {Nothing}
  BY <1>1, SendTypes
<1>3. PICK rate : rate = IF call.req.rate = Nothing THEN three ELSE call.req.rate
  OBVIOUS
<1>4. rate \in Nat
  BY <1>2, <1>3
<1>5. \/ call.req.override # Nothing /\ Select(call.req.override, rate, one)
      \/ /\ call' = [call EXCEPT !.pc = "utxos", !.rate = rate, !.high = one]
         /\ UNCHANGED txs
  BY <1>3, Zenon DEF Estimated
<1>6. CASE call.req.override # Nothing /\ Select(call.req.override, rate, one)
  <2>1. call.req.override = Named(call.req)
    BY <1>6 DEF Named
  <2>2. call.req.override \subseteq MaySpend(Named(call.req), txs)
    BY <1>1, <2>1 DEF MaySpend
  <2> QED BY <1>1, <1>4, <1>6, <2>2, SelectKeeps
<1>7. CASE /\ call' = [call EXCEPT !.pc = "utxos", !.rate = rate, !.high = one]
           /\ UNCHANGED txs
  <2>1. call' \in BtcCallRec /\ call'.pc = "utxos" /\ call'.req = call.req
    BY <1>1, <1>4, <1>7 DEF BtcCallRec
  <2>2. CallIn(call', txs)
    BY <1>1, <2>1 DEF CallIn
  <2> QED BY <1>7, <2>1, <2>2, MoveKeeps
<1> QED BY <1>5, <1>6, <1>7

\* The steps of a send before its coins are listed.
LEMMA EarlyStep ==
    ASSUME BitcoinInv, fetchBtcAddresses \/ fetchLtcAddresses \/ fetchFeeEstimates \/ fetchLtcFeeEstimates
    PROVE  BitcoinInv'
<1>1. setting' = setting /\ UNCHANGED caches
  BY DEF fetchBtcAddresses, fetchLtcAddresses, fetchFeeEstimates, fetchLtcFeeEstimates
<1>2. CASE fetchBtcAddresses \/ fetchLtcAddresses
  <2>1. /\ call.pc = "keys"
        /\ Refuse \/ (call' = [call EXCEPT !.pc = "fees"] /\ UNCHANGED txs)
    BY <1>2, Zenon DEF fetchBtcAddresses, fetchLtcAddresses
  <2>2. CASE Refuse
    BY <2>2, <1>1, RefuseKeeps, CachesKeep, KeptIsEnough
  <2>3. CASE call' = [call EXCEPT !.pc = "fees"] /\ UNCHANGED txs
    <3>1. call \in BtcCallRec /\ call.req \in SendRec /\ Askable(call.req)
          /\ Named(call.req) \subseteq KnownIn(txs)
      BY <2>1 DEF BitcoinInv, CallIn
    <3>2. call' \in BtcCallRec /\ call'.pc = "fees" /\ call'.req = call.req
      BY <2>3, <3>1 DEF BtcCallRec
    <3>3. CallIn(call', txs)
      BY <3>1, <3>2 DEF CallIn
    <3> QED BY <1>1, <2>3, <3>2, <3>3, MoveKeeps, CachesKeep, KeptIsEnough
  <2> QED BY <2>1, <2>2, <2>3
<1>3. CASE fetchFeeEstimates \/ fetchLtcFeeEstimates
  <2>1. Rates \subseteq Nat
    BY BitcoinAssumption
  <2>2. call.pc = "fees" /\ (Refuse \/ \E three \in Nat, one \in Nat : Estimated(three, one))
    BY <1>3, <2>1 DEF fetchFeeEstimates, fetchLtcFeeEstimates
  <2>3. Kept
    BY <2>2, RefuseKeeps, FeeStepKeeps
  <2> QED BY <1>1, <2>3, CachesKeep, KeptIsEnough
<1> QED BY <1>2, <1>3

LEMMA UnspentAre ==
    ASSUME BitcoinInv, NEW c \in WalletCoins
    PROVE  c \in KnownIn(txs) /\ (Confirmed(c) <=> SettledIn(c, txs)) /\ Confirmed(c) \in BOOLEAN
<1>1. txs \in Seq(TxRec)
  BY DEF BitcoinInv
<1>2. CASE c \in FirstCoins
  <2>1. c \in CoinRec /\ c.from = 0
    BY <1>2, BitcoinAssumption DEF CoinRec
  <2> QED BY <1>2, <2>1 DEF KnownIn, SettledIn, Confirmed
<1>3. CASE c \in Received
  <2>1. PICK i \in DOMAIN txs : \E k \in DOMAIN txs[i].outs : c = CoinOf(i, k)
    BY <1>3 DEF Received
  <2>2. PICK k \in DOMAIN txs[i].outs : c = CoinOf(i, k)
    BY <2>1
  <2>3. txs[i] \in TxRec /\ i \in Nat /\ i # 0
    BY <1>1
  <2>4. txs[i].outs \in Seq(OutRec)
    BY <2>3 DEF TxRec
  <2>5. txs[i].outs[k] \in OutRec /\ k \in Nat
    BY <2>4
  <2>6. /\ c \in CoinRec /\ c.from = i /\ c.id = k
        /\ c.value = txs[i].outs[k].value /\ c.type = txs[i].outs[k].type
    BY <2>2, <2>3, <2>5 DEF CoinOf, CoinRec, OutRec
  <2> QED BY <2>6 DEF KnownIn, SettledIn, Confirmed
<1> QED BY <1>2, <1>3 DEF WalletCoins

LEMMA RowsAreGood ==
    ASSUME BitcoinInv, NEW type \in Types, NEW answered, NEW rows, rows = Rows(type, answered)
    PROVE  RowsIn(rows, txs)
<1>1. CASE utxoCache[type] # Nothing
  BY <1>1 DEF Rows, BitcoinInv, CacheIn
<1>2. CASE utxoCache[type] = Nothing /\ type \in answered
  <2>1. SUFFICES ASSUME NEW r \in rows
                 PROVE  r \in RowRec /\ Plain(r) \in KnownIn(txs) /\ (r.settled => SettledIn(r, txs))
    BY DEF RowsIn
  <2>2. PICK c \in Unspent : r = [id |-> c.id, value |-> c.value, type |-> c.type, from |-> c.from,
                                  settled |-> Confirmed(c)]
    BY <1>2, Zenon DEF Rows
  <2>3. c \in KnownIn(txs) /\ (Confirmed(c) <=> SettledIn(c, txs)) /\ Confirmed(c) \in BOOLEAN
    BY UnspentAre DEF Unspent
  <2>4. c \in CoinRec
    BY <2>3 DEF KnownIn
  <2>5. /\ r.id = c.id /\ r.value = c.value /\ r.type = c.type /\ r.from = c.from
        /\ r.settled = Confirmed(c)
    BY <2>2, Zenon
  <2>6. r \in RowRec
    <3>1. PICK b \in BOOLEAN : b = Confirmed(c)
      BY <2>3
    <3>2. r = [id |-> c.id, value |-> c.value, type |-> c.type, from |-> c.from, settled |-> b]
      BY <2>2, <3>1
    <3> QED BY <2>4, <3>2 DEF RowRec, CoinRec
  <2>7. Plain(r) = c
    BY <2>4, <2>5 DEF Plain, CoinRec
  <2>8. r.settled => SettledIn(r, txs)
    <3>1. SettledIn(c, txs) => SettledIn(r, txs)
      BY <2>5 DEF SettledIn
    <3>2. r.settled => Confirmed(c)
      BY <2>5, Zenon
    <3> QED BY <2>3, <3>1, <3>2
  <2> QED BY <2>3, <2>6, <2>7, <2>8
<1>3. CASE utxoCache[type] = Nothing /\ type \notin answered
  BY <1>3 DEF Rows, RowsIn
<1> QED BY <1>1, <1>2, <1>3

\* The coins are selected from what the caches say, and what they were told.
LEMMA SelectOfKeeps ==
    ASSUME BitcoinInv, NEW rows, RowsIn(rows, txs), call.pc = "utxos", SelectOf(rows)
    PROVE  Kept
<1>1. call \in BtcCallRec /\ call.req \in SendRec /\ Askable(call.req)
      /\ Named(call.req) \subseteq KnownIn(txs)
  BY DEF BitcoinInv, CallIn
<1>2. call.rate \in Nat /\ call.high \in Nat
  BY <1>1 DEF BtcCallRec
<1>3. PICK ins : ins = {Plain(c) : c \in Spendable(rows)}
  OBVIOUS
<1>4. ins \subseteq MaySpend(Named(call.req), txs)
  <2>1. SUFFICES ASSUME NEW r \in rows, r.settled PROVE Plain(r) \in MaySpend(Named(call.req), txs)
    BY <1>3 DEF Spendable
  <2>2. Plain(r) \in KnownIn(txs) /\ SettledIn(r, txs)
    BY <2>1 DEF RowsIn
  <2>3. SettledIn(Plain(r), txs)
    BY <2>2 DEF Plain, SettledIn
  <2> QED BY <2>2, <2>3 DEF MaySpend
<1>5. Refuse \/ Select(ins, call.rate, call.high)
  BY <1>3, Zenon DEF SelectOf
<1> QED BY <1>1, <1>2, <1>4, <1>5, RefuseKeeps, SelectKeeps

LEMMA ListStep ==
    ASSUME BitcoinInv, fetchAddressUtxos \/ fetchLtcAddressUtxos
    PROVE  BitcoinInv'
<1>1. /\ setting' = setting /\ UNCHANGED <<infoCache, scanCache>> /\ call.pc = "utxos"
  BY DEF fetchAddressUtxos, fetchLtcAddressUtxos
<1>2. PICK cache : cache = utxoCache'
  OBVIOUS
<1>3. Kept /\ CacheIn(cache, txs)
  <2>1. CASE fetchAddressUtxos
    <3>1. PICK answered \in SUBSET Types :
             /\ cache = [t \in Types |-> Rows(t, answered)]
             /\ SelectOf(UNION {Rows(t, answered) : t \in Types})
      BY <1>2, <2>1 DEF fetchAddressUtxos
    <3>2. \A t \in Types : RowsIn(Rows(t, answered), txs)
      BY RowsAreGood
    <3>3. PICK rows : rows = UNION {Rows(t, answered) : t \in Types}
      OBVIOUS
    <3>4. RowsIn(rows, txs)
      BY <3>2, <3>3 DEF RowsIn
    <3>5. CacheIn(cache, txs)
      BY <3>1, <3>2 DEF CacheIn
    <3> QED BY <1>1, <3>1, <3>3, <3>4, <3>5, SelectOfKeeps
  <2>2. CASE fetchLtcAddressUtxos
    <3>1. PICK answered :
             /\ cache = [utxoCache EXCEPT !["p2wpkh"] = LtcRows(answered)]
             /\ SelectOf(LtcRows(answered))
      BY <1>2, <2>2 DEF fetchLtcAddressUtxos
    <3>2. PICK rows : rows = Rows("p2wpkh", answered)
      OBVIOUS
    <3>3. RowsIn(rows, txs)
      BY <3>2, RowsAreGood DEF Types
    <3>4. CacheIn(cache, txs)
      BY <3>1, <3>2, <3>3 DEF CacheIn, LtcRows, BitcoinInv
    <3>5. SelectOf(rows)
      BY <3>1, <3>2, Zenon DEF LtcRows
    <3> QED BY <1>1, <3>3, <3>4, <3>5, SelectOfKeeps
  <2> QED BY <2>1, <2>2
<1>4. CacheIn(cache, txs')
  <2>1. txs \in Seq(TxRec) /\ txs' \in Seq(TxRec) /\ Grows(txs, txs')
    BY <1>3 DEF BitcoinInv, Kept
  <2> QED BY <1>3, <2>1, RestGrows
<1>5. ScanTypes'
  BY <1>1 DEF BitcoinInv, ScanTypes
<1> QED BY <1>1, <1>2, <1>3, <1>4, <1>5, KeptIsEnough

\* The change of a send goes to the next change address there is.
LEMMA IndexStep ==
    ASSUME BitcoinInv, nextChangeIndex
    PROVE  BitcoinInv'
<1>1. /\ call.pc = "index" /\ setting' = setting /\ utxoCache' = utxoCache
  BY DEF nextChangeIndex
<1>2. PICK type : type = Dominant(call.ins)
  OBVIOUS
<1>3. type \in Types
  BY <1>2 DEF Dominant, Types
<1>4. PICK looked, active :
         /\ \E answered \in {{}, Indexes} : looked = LookedUp(type, answered)
         /\ active = IF scanCache[type] # Nothing THEN scanCache[type] ELSE Active(looked)
         /\ NextIndex(active) \in Indexes
         /\ scanCache' = [scanCache EXCEPT ![type] = active]
         /\ infoCache' = IF scanCache[type] # Nothing THEN infoCache ELSE [infoCache EXCEPT ![type] = looked]
         /\ BuildSend(call.ins, call.rate,
                      IF call.change = 0 THEN <<>>
                      ELSE <<Output("change", NextIndex(active), call.change, type)>>)
  BY <1>2, Zenon DEF nextChangeIndex
<1>5. ScanTypes
  BY DEF BitcoinInv
<1>6. looked \in [Indexes -> {Nothing, "used", "empty", "failed"}]
  BY <1>3, <1>4, <1>5 DEF LookedUp, ScanTypes
<1>7. active \in {Nothing} \cup SUBSET Indexes
  BY <1>3, <1>4, <1>5 DEF Active, ScanTypes
<1>8. ScanTypes'
  <2>1. scanCache' \in [Types -> {Nothing} \cup SUBSET Indexes]
    BY <1>3, <1>4, <1>5, <1>7 DEF ScanTypes
  <2>2. infoCache' \in [Types -> [Indexes -> {Nothing, "used", "empty", "failed"}]]
    BY <1>3, <1>4, <1>5, <1>6 DEF ScanTypes
  <2> QED BY <2>1, <2>2 DEF ScanTypes
<1>9. PICK r \in SendRec : r = call.req
  BY <1>1 DEF BitcoinInv, CallIn
<1>10. Good(call, MaySpend(Named(r), txs), r.target, r.recType, "p2wpkh", call.rate)
  BY <1>1, <1>9 DEF BitcoinInv, CallIn
<1>11. call.rate \in Nat
  BY DEF BitcoinInv, BtcCallRec
<1>12. PICK changes : changes = IF call.change = 0 THEN <<>>
                                ELSE <<Output("change", NextIndex(active), call.change, type)>>
  OBVIOUS
<1>13. PICK t : t = Transaction("send", call.ins, <<Recipient(r)>> \o changes, call.rate, r.rbf, "device", 0,
                             Named(r))
  OBVIOUS
<1>14. Make(t)
  BY <1>4, <1>9, <1>12, <1>13, Zenon DEF BuildSend
<1>15. t \in TxRec /\ GoodIn(t, txs)
  <2>1. NextIndex(active) \in Nat
    BY <1>4, BitcoinAssumption DEF Indexes
  <2>2. /\ call.ins \subseteq MaySpend(Named(r), txs) /\ call.change \in Nat
        /\ Pays(call.ins, SumOf(call.ins) - r.target, <<r.recType>>, call.rate)
        /\ call.change # 0 =>
              Pays(call.ins, SumOf(call.ins) - r.target - call.change, <<r.recType, "p2wpkh">>, call.rate)
    BY <1>10 DEF Good
  <2>3. CASE call.change = 0
    BY <1>11, <1>12, <1>13, <2>2, <2>3, BuiltIsGood
  <2>4. CASE call.change # 0
    <3>1. PICK k \in Nat, v \in Nat : k = NextIndex(active) /\ v = call.change
      BY <2>1, <2>2
    <3>2. changes = <<Output("change", k, v, type)>>
      BY <1>12, <2>4, <3>1
    <3>3. Pays(call.ins, SumOf(call.ins) - r.target - v, <<r.recType, "p2wpkh">>, call.rate)
      BY <2>2, <2>4, <3>1
    <3> QED BY <1>3, <1>11, <1>13, <2>2, <3>2, <3>3, BuiltIsGood
  <2> QED BY <2>3, <2>4
<1>16. Kept
  BY <1>14, <1>15, MakeKeeps
<1>17. CacheIn(utxoCache', txs')
  <2>1. CacheIn(utxoCache, txs) /\ txs \in Seq(TxRec) /\ txs' \in Seq(TxRec) /\ Grows(txs, txs')
    BY <1>16 DEF BitcoinInv, Kept
  <2>2. CacheIn(utxoCache, txs')
    BY <2>1, RestGrows
  <2> QED BY <1>1, <2>2
<1> QED BY <1>1, <1>8, <1>16, <1>17, KeptIsEnough

LEMMA AskStep ==
    ASSUME BitcoinInv, Ask
    PROVE  BitcoinInv'
<1>1. PICK r \in Requests :
         /\ Askable(r)
         /\ call' = [NoCall EXCEPT !.req = r, !.pc = IF r.tool = "bump" THEN "fetch"
                                                      ELSE IF setting.demo THEN "fees" ELSE "keys"]
  BY DEF Ask
<1>2. setting' = setting /\ txs' = txs /\ UNCHANGED caches
  BY DEF Ask
<1>3. PICK pc : pc = IF r.tool = "bump" THEN "fetch" ELSE IF setting.demo THEN "fees" ELSE "keys"
  OBVIOUS
<1>4. call' = [pc |-> pc, req |-> r, rate |-> 0, high |-> 0, ins |-> {}, change |-> 0, read |-> Nothing]
  BY <1>1, <1>3 DEF NoCall
<1>5. txs \in Seq(TxRec)
  BY DEF BitcoinInv
<1>6. CASE r \in SendRequests
  <2>0. r \in SendRec /\ Named(r) \subseteq KnownIn(txs)
    <3>1. PICK s \in Sends : \E list \in Lists(s) : r = [s EXCEPT !.override = list]
      BY <1>6 DEF SendRequests
    <3>0. PICK list \in Lists(s) : r = [s EXCEPT !.override = list]
      BY <3>1
    <3>2. WalletCoins \subseteq KnownIn(txs) /\ KnownIn(txs) \subseteq CoinRec
      BY UnspentAre DEF KnownIn
    <3>3. list = Nothing \/ list \subseteq KnownIn(txs)
      BY <3>2 DEF Lists
    <3>4. list \in {Nothing} \cup SUBSET CoinRec
      BY <3>2, <3>3
    <3>5. r \in SendRec /\ r.override = list
      BY <3>0, <3>4, BitcoinAssumption DEF SendRec
    <3> QED BY <3>3, <3>5 DEF Named
  <2>1. r.tool = "send" /\ pc \in {"keys", "fees"}
    BY <1>3, <2>0, SendTypes
  <2>2. call' \in BtcCallRec
    BY <1>4, <2>0, <2>1 DEF BtcCallRec
  <2>3. call'.pc \in {"keys", "fees"} /\ call'.req = r
    BY <1>4, <2>1
  <2>4. CallIn(call', txs)
    BY <1>1, <2>0, <2>3 DEF CallIn
  <2> QED BY <1>2, <2>2, <2>4, MoveKeeps, CachesKeep, KeptIsEnough
<1>7. CASE r \in [tool : {"bump"}, of : DOMAIN txs, rate : BumpRates]
  <2>1. r.tool = "bump" /\ pc = "fetch" /\ r.of \in DOMAIN txs /\ r \in BumpRec
    BY <1>3, <1>5, <1>7 DEF BumpRec
  <2>2. call' \in BtcCallRec
    BY <1>4, <2>1 DEF BtcCallRec
  <2>3. call'.pc = "fetch" /\ call'.req = r
    BY <1>4, <2>1
  <2>4. CallIn(call', txs)
    BY <2>1, <2>3 DEF CallIn
  <2> QED BY <1>2, <2>2, <2>4, MoveKeeps, CachesKeep, KeptIsEnough
<1> QED BY <1>6, <1>7 DEF Requests

\* The transaction to bump is read, and stays what it was.
LEMMA FetchStep ==
    ASSUME BitcoinInv, fetchBtcTx
    PROVE  BitcoinInv'
<1>1. call.pc = "fetch" /\ setting' = setting /\ UNCHANGED caches
  BY DEF fetchBtcTx
<1>2. PICK t : t = txs[call.req.of]
  OBVIOUS
<1>3. Refuse \/ (call' = [call EXCEPT !.pc = "gauge", !.read = t] /\ UNCHANGED txs)
  BY <1>2, Zenon DEF fetchBtcTx
<1>4. CASE Refuse
  BY <1>1, <1>4, RefuseKeeps, CachesKeep, KeptIsEnough
<1>5. CASE call' = [call EXCEPT !.pc = "gauge", !.read = t] /\ UNCHANGED txs
  <2>1. call \in BtcCallRec /\ call.req \in BumpRec /\ call.req.of \in DOMAIN txs /\ txs \in Seq(TxRec)
    BY <1>1 DEF BitcoinInv, CallIn
  <2>2. t \in TxRec
    BY <1>2, <2>1
  <2>3. call' \in BtcCallRec /\ call'.pc = "gauge" /\ call'.req = call.req /\ call'.read = t
    BY <1>5, <2>1, <2>2 DEF BtcCallRec
  <2>4. Same(t, txs[call.req.of])
    BY <1>2, <2>2, SameIs
  <2>5. CallIn(call', txs)
    BY <2>1, <2>2, <2>3, <2>4 DEF CallIn
  <2> QED BY <1>1, <1>5, <2>3, <2>5, MoveKeeps, CachesKeep, KeptIsEnough
<1> QED BY <1>3, <1>4, <1>5

-----------------------------------------------------------------------------
(* The bumps                                                                 *)

Places(s, o) == {i \in DOMAIN s : s[i] = o}

\* How often o is in s, when at most place k holds it.
LEMMA Counts ==
    ASSUME NEW s, NEW o, NEW k \in DOMAIN s, \A i \in DOMAIN s \ {k} : s[i] # o
    PROVE  Cardinality(Places(s, o)) = IF s[k] = o THEN 1 ELSE 0
<1>1. CASE s[k] = o
  <2>1. Places(s, o) = {k}
    BY <1>1 DEF Places
  <2> QED BY <1>1, <2>1, FS_Singleton
<1>2. CASE s[k] # o
  <2>1. Places(s, o) = {}
    BY <1>2 DEF Places
  <2> QED BY <1>2, <2>1, FS_EmptySet
<1> QED BY <1>1, <1>2

\* The change output is one of the two, and pays a receive address.
LEMMA ChangeIs ==
    ASSUME NEW outs \in Seq(OutRec), Len(outs) = 2, ChangeVout(outs) # 0
    PROVE  /\ ChangeVout(outs) \in {1, 2}
           /\ outs[ChangeVout(outs)].owner = "receive"
           /\ RemoveAt(outs, ChangeVout(outs)) = <<outs[3 - ChangeVout(outs)]>>
<1> DEFINE T == {k \in DOMAIN outs : outs[k].owner = "receive"}
<1>1. T \subseteq Nat /\ T # {} /\ T \subseteq {1, 2}
  BY DEF ChangeVout
<1>2. PICK k : k = Min(T)
  OBVIOUS
<1>3. ChangeVout(outs) = k
  BY <1>1, <1>2, Zenon DEF ChangeVout
<1>4. \A x \in T : outs[x].owner = "receive"
  OBVIOUS
<1> HIDE DEF T
<1>5. k \in T
  <2>1. \E x \in T : \A y \in T : x <= y
    BY <1>1, Least
  <2> QED BY <1>2, <2>1, Zenon DEF Min
<1>6. k \in {1, 2} /\ outs[k].owner = "receive"
  BY <1>1, <1>4, <1>5
<1>7. RemoveAt(outs, k) = <<outs[3 - k]>>
  <2> DEFINE head == SubSeq(outs, 1, k - 1)
             tail == SubSeq(outs, k + 1, 2)
  <2>1. \A i \in 1..2 : outs[i] \in OutRec
    OBVIOUS
  <2>2. 1 \in Int /\ 2 \in Int /\ k - 1 \in Int /\ k + 1 \in Int
    BY <1>6
  <2>3. /\ head \in Seq(OutRec) /\ Len(head) = IF 1 <= k - 1 THEN k - 1 ELSE 0
        /\ \A i \in 1 .. (k - 1) - 1 + 1 : head[i] = outs[1 + i - 1]
    <3>1. \A i \in 1 .. k - 1 : outs[i] \in OutRec
      BY <1>6, <2>1
    <3> QED BY <2>2, <3>1, SubSeqProperties
  <2>4. /\ tail \in Seq(OutRec) /\ Len(tail) = IF k + 1 <= 2 THEN 2 - (k + 1) + 1 ELSE 0
        /\ \A i \in 1 .. 2 - (k + 1) + 1 : tail[i] = outs[k + 1 + i - 1]
    <3>1. \A i \in k + 1 .. 2 : outs[i] \in OutRec
      BY <1>6, <2>1
    <3> QED BY <2>2, <3>1, SubSeqProperties
  <2>5. RemoveAt(outs, k) = head \o tail
    BY DEF RemoveAt
  <2> HIDE DEF head, tail
  <2>6. CASE k = 1
    <3>1. Len(head) = 0 /\ Len(tail) = 1 /\ tail[1] = outs[2]
      BY <2>3, <2>4, <2>6
    <3>2. head = <<>> /\ tail = <<outs[2]>>
      BY <2>1, <2>3, <2>4, <3>1
    <3> QED BY <2>4, <2>5, <2>6, <3>2, ConcatEmptySeq
  <2>7. CASE k = 2
    <3>1. Len(head) = 1 /\ head[1] = outs[1] /\ Len(tail) = 0
      BY <2>3, <2>4, <2>7
    <3>2. head = <<outs[1]>> /\ tail = <<>>
      BY <2>1, <2>3, <2>4, <3>1
    <3> QED BY <2>3, <2>5, <2>7, <3>2, ConcatEmptySeq
  <2> QED BY <1>6, <2>6, <2>7
<1> QED BY <1>3, <1>6, <1>7

\* The fee of a bump, of the sum of its coins: without change, and with it.
LEMMA Balance ==
    ASSUME NEW sum \in Nat, NEW x \in Nat, NEW y \in Nat, NEW cost \in Nat, NEW fee \in Nat,
           NEW change \in Nat, fee = sum - (x + y), change = y - (cost - fee)
    PROVE  sum - x = cost + change /\ sum - (x + change) = cost
OBVIOUS

\* The size with two outputs, in either order.
LEMMA SizeOfPair ==
    ASSUME NEW t \in TxRec, NEW a \in OutRec, NEW b \in OutRec,
           OutTypes(t.outs) \in {<<a.type, b.type>>, <<b.type, a.type>>}
    PROVE  Vsize(t) = 11 + InVbytes(t.ins) + (outputVbytes(a.type) + outputVbytes(b.type))
<1>1. ASSUME NEW ins, NEW x, NEW y
      PROVE  Vbytes(ins, <<x, y>>) = 11 + InVbytes(ins) + (outputVbytes(x) + outputVbytes(y))
  BY SizeWithTwo
<1>2. outputVbytes(a.type) \in Nat /\ outputVbytes(b.type) \in Nat
  BY DEF outputVbytes
<1>3. outputVbytes(b.type) + outputVbytes(a.type) = outputVbytes(a.type) + outputVbytes(b.type)
  BY <1>2
<1>4. Vsize(t) = Vbytes(t.ins, OutTypes(t.outs))
  BY DEF Vsize
<1>5. PICK ins, x, y : ins = t.ins /\ x = a.type /\ y = b.type
  OBVIOUS
<1>6. CASE OutTypes(t.outs) = <<x, y>>
  <2>1. Vsize(t) = Vbytes(ins, <<x, y>>)
    BY <1>4, <1>5, <1>6
  <2> QED BY <1>1, <1>5, <2>1
<1>7. CASE OutTypes(t.outs) = <<y, x>>
  <2>1. Vsize(t) = Vbytes(ins, <<y, x>>)
    BY <1>4, <1>5, <1>7
  <2> QED BY <1>1, <1>3, <1>5, <2>1
<1> QED BY <1>5, <1>6, <1>7

\* u is what Bump makes of t, at this rate.
IsBump(u, t, rate, of) ==
    \E k, change :
       /\ k = ChangeVout(t.outs) /\ k # 0 /\ Len(t.outs) = 2 /\ Raises(t, rate)
       /\ change = t.outs[k].value - (CeilDiv10(rate * Vsize(t)) - t.fee) /\ ~(change < 0)
       /\ u = Transaction("bump", t.ins, BumpOuts(t.outs, k, change), rate, TRUE, "stub", of, t.named)

\* A bump that raises the fee pays for the original and for its own size.
LEMMA BumpIsGood ==
    ASSUME NEW all \in Seq(TxRec), NEW of \in DOMAIN all, GoodIn(all[of], all),
           NEW t \in TxRec, Same(t, all[of]), NEW rate \in Nat, NEW u, IsBump(u, t, rate, of)
    PROVE  u \in TxRec /\ GoodIn(u, all)
<1>0. PICK k, change :
         /\ k = ChangeVout(t.outs) /\ k # 0 /\ Len(t.outs) = 2 /\ Raises(t, rate)
         /\ change = t.outs[k].value - (CeilDiv10(rate * Vsize(t)) - t.fee) /\ ~(change < 0)
         /\ u = Transaction("bump", t.ins, BumpOuts(t.outs, k, change), rate, TRUE, "stub", of, t.named)
  BY Zenon DEF IsBump
<1>1. all[of] \in TxRec /\ of \in Nat
  OBVIOUS
<1>2. all[of].ins = t.ins /\ all[of].outs = t.outs /\ all[of].fee = t.fee
  BY <1>1, SameIs
<1>3. t.ins \in SUBSET CoinRec /\ IsFiniteSet(t.ins) /\ t.outs \in Seq(OutRec) /\ t.fee \in Nat
  BY <1>2 DEF GoodIn, TxRec
<1>4. t.fee = SumOf(t.ins) - OutSum(t.outs)
  BY <1>2 DEF GoodIn
<1>5. /\ k \in {1, 2} /\ t.outs[k].owner = "receive" /\ RemoveAt(t.outs, k) = <<t.outs[3 - k]>>
  BY <1>0, <1>3, ChangeIs
<1>6. PICK a \in OutRec, b \in OutRec : a = t.outs[3 - k] /\ b = t.outs[k]
  <2>1. Len(t.outs) = 2
    BY <1>0
  <2>2. t.outs[1] \in OutRec /\ t.outs[2] \in OutRec
    BY <1>3, <2>1
  <2>3. CASE k = 1
    BY <2>2, <2>3
  <2>4. CASE k = 2
    BY <2>2, <2>4
  <2> QED BY <1>5, <2>3, <2>4
<1>7. /\ a.value \in Nat /\ b.value \in Nat
      /\ outputVbytes(a.type) \in Nat /\ outputVbytes(b.type) \in Nat
  BY DEF OutRec, outputVbytes
<1>8. SumOf(t.ins) \in Nat /\ InVbytes(t.ins) \in Nat
  BY <1>3, CoinSums
<1>9. \/ k = 1 /\ t.outs = <<b, a>>
      \/ k = 2 /\ t.outs = <<a, b>>
  <2>1. Len(t.outs) = 2
    BY <1>0
  <2>2. t.outs = <<t.outs[1], t.outs[2]>>
    BY <1>3, <2>1
  <2>3. CASE k = 1
    BY <1>6, <2>2, <2>3
  <2>4. CASE k = 2
    BY <1>6, <2>2, <2>4
  <2> QED BY <1>5, <2>3, <2>4
<1>10. /\ OutSum(t.outs) = a.value + b.value
       /\ OutTypes(t.outs) \in {<<a.type, b.type>>, <<b.type, a.type>>}
  <2>1. OutSum(<<b, a>>) = b.value + a.value /\ OutTypes(<<b, a>>) = <<b.type, a.type>>
    BY OutSums
  <2>2. OutSum(<<a, b>>) = a.value + b.value /\ OutTypes(<<a, b>>) = <<a.type, b.type>>
    BY OutSums
  <2>3. b.value + a.value = a.value + b.value
    BY <1>7
  <2>4. CASE t.outs = <<b, a>>
    BY <2>1, <2>3, <2>4
  <2>5. CASE t.outs = <<a, b>>
    BY <2>2, <2>5
  <2> QED BY <1>9, <2>4, <2>5
<1>11. Vsize(t) = 11 + InVbytes(t.ins) + (outputVbytes(a.type) + outputVbytes(b.type))
  BY <1>10, SizeOfPair
<1>12. PICK V \in Nat : V = Vsize(t)
  BY <1>7, <1>8, <1>11
<1>13. PICK cost \in Nat : cost = CeilDiv10(rate * V) /\ cost > t.fee + V
  <2>1. PICK n \in Nat : n = rate * V
    BY Products
  <2>2. n > 10 * (t.fee + V)
    BY <1>0, <1>12, <2>1 DEF Raises
  <2>3. CeilDiv10(n) \in Nat /\ n <= 10 * CeilDiv10(n)
    BY CeilCovers
  <2>4. CeilDiv10(n) > t.fee + V
    BY <1>3, <2>2, <2>3
  <2> QED BY <2>1, <2>3, <2>4
<1>14. change = b.value - (cost - t.fee) /\ change \in Nat
  <2>1. change = b.value - (cost - t.fee)
    BY <1>0, <1>6, <1>12, <1>13
  <2>2. change \in Int
    BY <1>3, <1>7, <1>13, <2>1
  <2> QED BY <1>0, <2>1, <2>2
<1>15. PICK back : back = [b EXCEPT !.value = change]
  OBVIOUS
<1>16. back \in OutRec /\ back.value = change /\ back.type = b.type /\ back.owner = "receive"
  BY <1>5, <1>6, <1>14, <1>15 DEF OutRec
<1>17. u.outs = <<a>> \o (IF change < Dust THEN <<>> ELSE <<back>>)
  BY <1>0, <1>5, <1>6, <1>15, Zenon DEF BumpOuts, Transaction
<1>18. /\ u.tool = "bump" /\ u.ins = t.ins /\ u.rate = rate /\ u.rbf = TRUE /\ u.keys = "stub"
       /\ u.of = of /\ u.named = t.named /\ u.status = "prepared" /\ u.fee = SumOf(t.ins) - OutSum(u.outs)
       /\ u = [tool |-> u.tool, ins |-> u.ins, outs |-> u.outs, fee |-> u.fee, rate |-> u.rate,
               rbf |-> u.rbf, keys |-> u.keys, of |-> u.of, named |-> u.named, status |-> u.status]
  BY <1>0 DEF Transaction
<1>19. /\ u.outs \in Seq(OutRec) /\ Len(u.outs) \in 1..2 /\ u.outs[1] = a
       /\ Len(u.outs) = 2 => u.outs[2] = back
       /\ u.fee \in Nat /\ u.fee >= t.fee + Vsize(u)
  <2>0. u.ins = t.ins /\ u.fee = SumOf(t.ins) - OutSum(u.outs)
    BY <1>18
  <2>1. CASE change < Dust
    <3>1. u.outs = <<a>>
      <4>1. <<a>> \in Seq(OutRec)
        OBVIOUS
      <4> QED BY <1>17, <2>1, <4>1, ConcatEmptySeq
    <3>2. OutSum(u.outs) = a.value /\ OutTypes(u.outs) = <<a.type>>
      BY <3>1, OutSums
    <3>3. Vsize(u) = 11 + InVbytes(t.ins) + outputVbytes(a.type)
      <4>1. Vsize(u) = Vbytes(t.ins, <<a.type>>)
        BY <2>0, <3>2 DEF Vsize
      <4>2. Vbytes(t.ins, <<a.type>>) = 11 + InVbytes(t.ins) + outputVbytes(a.type)
        BY SizeWithOne
      <4> QED BY <4>1, <4>2
    <3>4. Vsize(u) <= V /\ Vsize(u) \in Nat
      BY <1>7, <1>8, <1>11, <1>12, <3>3
    <3>5. u.fee = cost + change
      <4>1. t.fee = SumOf(t.ins) - (a.value + b.value)
        BY <1>4, <1>10
      <4>2. u.fee = SumOf(t.ins) - a.value
        BY <2>0, <3>2
      <4>3. PICK sum \in Nat, x \in Nat, y \in Nat, fee \in Nat :
               sum = SumOf(t.ins) /\ x = a.value /\ y = b.value /\ fee = t.fee
        BY <1>3, <1>7, <1>8
      <4>4. fee = sum - (x + y) /\ change = y - (cost - fee) /\ change \in Nat
        BY <1>14, <4>1, <4>3
      <4>5. sum - x = cost + change /\ sum - (x + change) = cost
        BY <4>4, Balance
      <4> QED BY <4>2, <4>3, <4>5
    <3>6. u.fee \in Nat /\ u.fee >= t.fee + Vsize(u)
      BY <1>3, <1>13, <1>14, <3>4, <3>5
    <3>7. u.outs \in Seq(OutRec) /\ Len(u.outs) = 1 /\ u.outs[1] = a
      BY <3>1
    <3> QED BY <3>6, <3>7
  <2>2. CASE ~(change < Dust)
    <3>1. u.outs = <<a, back>>
      <4>1. u.outs = <<a>> \o <<back>>
        BY <1>17, <2>2
      <4>2. back \in OutRec
        BY <1>16
      <4>3. <<a>> \o <<back>> = <<a, back>>
        BY <4>2, Joined
      <4> QED BY <4>1, <4>3
    <3>2. OutSum(u.outs) = a.value + change /\ OutTypes(u.outs) = <<a.type, b.type>>
      <4>1. OutSum(<<a, back>>) = a.value + back.value /\ OutTypes(<<a, back>>) = <<a.type, back.type>>
        BY <1>16, OutSums
      <4> QED BY <1>16, <3>1, <4>1
    <3>3. Vsize(u) = V
      <4>1. Vsize(u) = Vbytes(t.ins, <<a.type, b.type>>)
        BY <2>0, <3>2 DEF Vsize
      <4>2. Vbytes(t.ins, <<a.type, b.type>>) = 11 + InVbytes(t.ins) + (outputVbytes(a.type) + outputVbytes(b.type))
        BY SizeWithTwo
      <4> QED BY <1>11, <1>12, <4>1, <4>2
    <3>4. u.fee = cost
      <4>1. t.fee = SumOf(t.ins) - (a.value + b.value)
        BY <1>4, <1>10
      <4>2. u.fee = SumOf(t.ins) - (a.value + change)
        BY <2>0, <3>2
      <4>3. PICK sum \in Nat, x \in Nat, y \in Nat, fee \in Nat :
               sum = SumOf(t.ins) /\ x = a.value /\ y = b.value /\ fee = t.fee
        BY <1>3, <1>7, <1>8
      <4>4. fee = sum - (x + y) /\ change = y - (cost - fee) /\ change \in Nat
        BY <1>14, <4>1, <4>3
      <4>5. sum - x = cost + change /\ sum - (x + change) = cost
        BY <4>4, Balance
      <4> QED BY <4>2, <4>3, <4>5
    <3>5. u.fee \in Nat /\ u.fee >= t.fee + Vsize(u)
      BY <1>3, <1>13, <3>3, <3>4
    <3>6. u.outs \in Seq(OutRec) /\ Len(u.outs) = 2 /\ u.outs[1] = a /\ u.outs[2] = back
      BY <1>16, <3>1
    <3> QED BY <3>5, <3>6
  <2> QED BY <2>1, <2>2
<1>20. u \in TxRec
  <2>1. /\ u.tool \in {"send", "bump", "wallet"} /\ u.ins \in SUBSET CoinRec /\ u.rate \in Nat
        /\ u.rbf \in BOOLEAN /\ u.keys \in {"device", "stub"} /\ u.of \in Nat /\ u.status \in Statuses
    BY <1>1, <1>3, <1>18 DEF Statuses
  <2> QED BY <1>18, <1>19, <2>1 DEF TxRec
<1>21. ASSUME NEW o, o.owner = "them"
       PROVE  Cardinality(Places(u.outs, o)) = Cardinality(Places(t.outs, o))
  <2>1. back # o /\ b # o
    BY <1>5, <1>6, <1>16, <1>21
  <2>2. Cardinality(Places(u.outs, o)) = IF a = o THEN 1 ELSE 0
    <3>1. 1 \in DOMAIN u.outs /\ \A i \in DOMAIN u.outs \ {1} : u.outs[i] # o
      BY <1>19, <2>1
    <3> QED BY <1>19, <3>1, Counts
  <2>3. Cardinality(Places(t.outs, o)) = IF a = o THEN 1 ELSE 0
    <3>1. PICK j \in DOMAIN t.outs : t.outs[j] = a /\ \A i \in DOMAIN t.outs \ {j} : t.outs[i] # o
      <4>1. CASE k = 1 /\ t.outs = <<b, a>>
        <5>1. 2 \in DOMAIN t.outs /\ t.outs[2] = a /\ \A i \in DOMAIN t.outs \ {2} : t.outs[i] = b
          BY <4>1
        <5> QED BY <2>1, <5>1
      <4>2. CASE k = 2 /\ t.outs = <<a, b>>
        <5>1. 1 \in DOMAIN t.outs /\ t.outs[1] = a /\ \A i \in DOMAIN t.outs \ {1} : t.outs[i] = b
          BY <4>2
        <5> QED BY <2>1, <5>1
      <4> QED BY <1>9, <4>1, <4>2
    <3>2. Cardinality(Places(t.outs, o)) = IF t.outs[j] = o THEN 1 ELSE 0
      BY <3>1, Counts
    <3> QED BY <3>1, <3>2
  <2> QED BY <2>2, <2>3
<1>22. Replaces(u, all[of])
  BY <1>2, <1>18, <1>19, <1>21 DEF Replaces, Places
<1>23. Len(u.outs) \in 1..3
  BY <1>19
<1> QED BY <1>3, <1>18, <1>20, <1>22, <1>23 DEF GoodIn

LEMMA BumpStep ==
    ASSUME BitcoinInv, bumpFee
    PROVE  BitcoinInv'
<1>1. call.pc = "gauge" /\ setting' = setting /\ UNCHANGED caches
  BY DEF bumpFee
<1>2. PICK t, of, rate : t = call.read /\ of = call.req.of /\ rate = call.req.rate
  OBVIOUS
<1>3. /\ txs \in Seq(TxRec) /\ AllGood(txs) /\ call.req \in BumpRec /\ of \in DOMAIN txs
      /\ t \in TxRec /\ Same(t, txs[of])
  BY <1>1, <1>2 DEF BitcoinInv, CallIn
<1>4. rate \in Nat /\ GoodIn(txs[of], txs)
  BY <1>2, <1>3, BitcoinAssumption DEF BumpRec, AllGood
<1>5. PICK k, change : /\ k = ChangeVout(t.outs)
                       /\ change = t.outs[k].value - (CeilDiv10(rate * Vsize(t)) - t.fee)
  OBVIOUS
<1>6. PICK u : u = Transaction("bump", t.ins, BumpOuts(t.outs, k, change), rate, TRUE, "stub", of, t.named)
  OBVIOUS
<1>7. \/ Refuse
      \/ Raises(t, rate) /\ k # 0 /\ ~(change < 0) /\ Len(t.outs) = 2 /\ Make(u)
  BY <1>2, <1>5, <1>6, Zenon DEF bumpFee, Bump
<1>8. CASE Raises(t, rate) /\ k # 0 /\ ~(change < 0) /\ Len(t.outs) = 2 /\ Make(u)
  <2>1. IsBump(u, t, rate, of)
    BY <1>5, <1>6, <1>8, Zenon DEF IsBump
  <2>2. u \in TxRec /\ GoodIn(u, txs)
    BY <1>3, <1>4, <2>1, BumpIsGood
  <2> QED BY <1>1, <1>8, <2>2, MakeKeeps, CachesKeep, KeptIsEnough
<1> QED BY <1>1, <1>7, <1>8, RefuseKeeps, CachesKeep, KeptIsEnough

-----------------------------------------------------------------------------
(* The steps of the rest of the world                                        *)

\* Transactions that change their status alone, and stay confirmed.
LEMMA StatusStep ==
    ASSUME BitcoinInv, txs' \in Seq(TxRec), Len(txs') = Len(txs), Grows(txs, txs'),
           UNCHANGED <<setting, call, caches>>
    PROVE  BitcoinInv'
<1>1. /\ txs \in Seq(TxRec) /\ AllGood(txs) /\ call \in BtcCallRec /\ CallIn(call, txs)
      /\ setting' = setting /\ call' = call /\ UNCHANGED caches
  BY DEF BitcoinInv
<1>2. AllGood(txs') /\ CallIn(call, txs')
  BY <1>1, StatusKeeps, RestGrows
<1>3. CallIn(call', txs')
  BY <1>1, <1>2
<1>4. Kept
  BY <1>1, <1>2, <1>3 DEF Kept
<1> QED BY <1>1, <1>4, CachesKeep, KeptIsEnough

LEMMA SendStep ==
    ASSUME BitcoinInv, NEW i \in DOMAIN txs, SendTx(i)
    PROVE  BitcoinInv'
<1>1. txs \in Seq(TxRec)
  BY DEF BitcoinInv
<1>2. /\ txs[i].status = "prepared" /\ UNCHANGED <<setting, call, caches>>
      /\ txs' = [j \in DOMAIN txs |->
                   IF j = i THEN [txs[j] EXCEPT !.status = "mempool"]
                   ELSE IF j \in Conflicts(i) THEN [txs[j] EXCEPT !.status = "replaced"]
                   ELSE txs[j]]
  BY DEF SendTx
<1>3. ASSUME NEW j \in DOMAIN txs
      PROVE  /\ txs'[j] \in TxRec /\ Same(txs[j], txs'[j])
             /\ txs[j].status = "confirmed" => txs'[j].status = "confirmed"
  <2>1. txs[j] \in TxRec
    BY <1>1
  <2>2. CASE j = i
    <3>1. txs'[j] = [txs[j] EXCEPT !.status = "mempool"]
      BY <1>2, <2>2
    <3> QED BY <1>2, <2>1, <2>2, <3>1, StatusOnly DEF Statuses
  <2>3. CASE j # i /\ j \in Conflicts(i)
    <3>1. txs'[j] = [txs[j] EXCEPT !.status = "replaced"]
      BY <1>2, <2>3
    <3>2. txs[j].status = "mempool"
      BY <2>3 DEF Conflicts
    <3> QED BY <2>1, <3>1, <3>2, StatusOnly DEF Statuses
  <2>4. CASE j # i /\ j \notin Conflicts(i)
    <3>1. txs'[j] = txs[j]
      BY <1>2, <2>4
    <3> QED BY <2>1, <3>1, SameIs
  <2> QED BY <2>2, <2>3, <2>4
<1>4. txs' \in Seq(TxRec) /\ Len(txs') = Len(txs)
  <2>1. DOMAIN txs = 1..Len(txs) /\ Len(txs) \in Nat
    BY <1>1
  <2>2. txs' = [j \in 1..Len(txs) |-> txs'[j]]
    BY <1>2, <2>1
  <2> QED BY <1>3, <2>1, <2>2
<1>5. Grows(txs, txs')
  BY <1>1, <1>3, <1>4 DEF Grows
<1> QED BY <1>2, <1>4, <1>5, StatusStep

LEMMA MineStep ==
    ASSUME BitcoinInv, NEW i \in DOMAIN txs, Mine(i)
    PROVE  BitcoinInv'
<1>1. txs \in Seq(TxRec)
  BY DEF BitcoinInv
<1>2. UNCHANGED <<setting, call, caches>> /\ txs' = [txs EXCEPT ![i].status = "confirmed"]
  BY DEF Mine
<1>3. PICK t \in TxRec : t = [txs[i] EXCEPT !.status = "confirmed"] /\ Same(txs[i], t) /\ t.status = "confirmed"
  <2>1. txs[i] \in TxRec /\ "confirmed" \in Statuses
    BY <1>1 DEF Statuses
  <2> QED BY <2>1, StatusOnly
<1>4. txs' = [txs EXCEPT ![i] = t]
  BY <1>2, <1>3
<1>5. txs' \in Seq(TxRec) /\ Len(txs') = Len(txs)
  BY <1>1, <1>4
<1>6. ASSUME NEW j \in DOMAIN txs
      PROVE  /\ Same(txs[j], txs'[j])
             /\ txs[j].status = "confirmed" => txs'[j].status = "confirmed"
  <2>1. txs[j] \in TxRec
    BY <1>1
  <2>2. CASE j = i
    BY <1>3, <1>4, <2>2
  <2>3. CASE j # i
    <3>1. txs'[j] = txs[j]
      BY <1>4, <2>3
    <3> QED BY <2>1, <3>1, SameIs
  <2> QED BY <2>2, <2>3
<1>7. Grows(txs, txs')
  BY <1>1, <1>5, <1>6 DEF Grows
<1> QED BY <1>2, <1>5, <1>7, StatusStep

\* What another wallet pays is good, though it has neither a rate nor an original.
LEMMA WalletStep ==
    ASSUME BitcoinInv, WalletPays
    PROVE  BitcoinInv'
<1>0. PICK c \in Unspent :
         /\ c.value > 5000
         /\ \E outs \in WalletOuts(c) :
              /\ \A k \in DOMAIN outs : outs[k].index \in Indexes
              /\ txs' = Append(txs, WalletTx(c, outs))
  BY DEF WalletPays
<1>1. PICK outs \in WalletOuts(c) :
         /\ \A k \in DOMAIN outs : outs[k].index \in Indexes
         /\ txs' = Append(txs, WalletTx(c, outs))
  BY <1>0
<1>2. setting' = setting /\ call' = call /\ UNCHANGED caches
  BY DEF WalletPays
<1>3. txs \in Seq(TxRec) /\ AllGood(txs) /\ call \in BtcCallRec /\ CallIn(call, txs)
  BY DEF BitcoinInv
<1>4. c \in CoinRec
  BY UnspentAre DEF Unspent, KnownIn
<1>5. c.value \in Nat /\ c.type \in Types
  BY <1>4 DEF CoinRec
<1>6. Indexes \subseteq Nat
  BY BitcoinAssumption DEF Indexes
<1> DEFINE pay == Output("them", 0, 1000, "p2wpkh")
           keep == Output("receive", 0, c.value - 1300, c.type)
           change == Output("change", NextIndex(Used(c.type)), c.value - 1300, c.type)
           rest == [keep EXCEPT !.value = @ - 1000]
<1>9. outs \in {<<pay, keep>>, <<keep, pay>>, <<pay, change>>, <<pay, pay, rest>>}
  <2>1. WalletOuts(c) = {<<pay, keep>>, <<keep, pay>>, <<pay, change>>, <<pay, pay, rest>>}
    BY DEF WalletOuts
  <2> HIDE DEF pay, keep, change, rest
  <2> QED BY <2>1
<1>10. pay \in OutRec /\ keep \in OutRec /\ rest \in OutRec
  <2>1. c.value - 1300 \in Nat /\ c.value - 2300 \in Nat /\ (c.value - 1300) - 1000 = c.value - 2300
    BY <1>0, <1>5
  <2>2. "p2wpkh" \in Types
    BY DEF Types
  <2>3. rest = Output("receive", 0, c.value - 2300, c.type)
    BY <2>1 DEF Output
  <2> QED BY <1>5, <2>1, <2>2, <2>3 DEF Output, OutRec
<1>11. /\ pay.value = 1000 /\ keep.value = c.value - 1300 /\ change.value = c.value - 1300
       /\ rest.value = c.value - 2300
  <2>1. (c.value - 1300) - 1000 = c.value - 2300
    BY <1>5
  <2> QED BY <2>1 DEF Output
<1>12. outs = <<pay, change>> => change \in OutRec
  <2>1. SUFFICES ASSUME outs = <<pay, change>> PROVE change \in OutRec
    OBVIOUS
  <2>2. change.index \in Nat /\ c.value - 1300 \in Nat
    <3> HIDE DEF pay, change
    <3>1. 2 \in DOMAIN outs /\ outs[2] = change
      BY <2>1
    <3>2. change.index \in Indexes
      BY <1>1, <3>1
    <3>3. change.index \in Nat
      BY <1>6, <3>2
    <3>4. c.value > 5000
      BY <1>0
    <3> QED BY <1>5, <3>3, <3>4
  <2> QED BY <1>5, <2>2 DEF Output, OutRec
<1> HIDE DEF pay, keep, change, rest
<1>13. /\ outs \in Seq(OutRec) /\ Len(outs) \in 2..3
       /\ OutSum(outs) = c.value - 300
  <2>1. CASE outs = <<pay, keep>>
    <3>1. OutSum(<<pay, keep>>) = pay.value + keep.value
      BY <1>10, OutSums
    <3>2. outs \in Seq(OutRec) /\ Len(outs) = 2
      BY <1>10, <2>1
    <3> QED BY <1>5, <1>11, <2>1, <3>1, <3>2
  <2>2. CASE outs = <<keep, pay>>
    <3>1. OutSum(<<keep, pay>>) = keep.value + pay.value
      BY <1>10, OutSums
    <3>2. outs \in Seq(OutRec) /\ Len(outs) = 2
      BY <1>10, <2>2
    <3> QED BY <1>5, <1>11, <2>2, <3>1, <3>2
  <2>3. CASE outs = <<pay, change>>
    <3>1. OutSum(<<pay, change>>) = pay.value + change.value
      BY <1>10, <1>12, <2>3, OutSums
    <3>2. outs \in Seq(OutRec) /\ Len(outs) = 2
      BY <1>10, <1>12, <2>3
    <3> QED BY <1>5, <1>11, <2>3, <3>1, <3>2
  <2>4. CASE outs = <<pay, pay, rest>>
    <3>1. OutSum(<<pay, pay, rest>>) = pay.value + pay.value + rest.value
      BY <1>10, OutSums
    <3>2. outs \in Seq(OutRec) /\ Len(outs) = 3
      BY <1>10, <2>4
    <3> QED BY <1>5, <1>11, <2>4, <3>1, <3>2
  <2> QED BY <1>9, <2>1, <2>2, <2>3, <2>4
<1>14. SumOf({c}) = c.value /\ IsFiniteSet({c})
  <2>1. [d \in {c} |-> d.value] \in [{c} -> Nat] /\ [d \in {c} |-> d.value][c] = c.value
    BY <1>5
  <2> QED BY <2>1, SumOverOne, FS_Singleton DEF SumOf
<1>15. PICK t : t = WalletTx(c, outs)
  OBVIOUS
<1>16. t = [tool |-> "wallet", ins |-> {c}, outs |-> outs, fee |-> SumOf({c}) - OutSum(outs), rate |-> 0,
            rbf |-> TRUE, keys |-> "device", of |-> 0, named |-> {}, status |-> "mempool"]
  BY <1>15 DEF WalletTx, Transaction
<1>17. SumOf({c}) - OutSum(outs) \in Nat
  BY <1>0, <1>5, <1>13, <1>14
<1>18. t \in TxRec
  <2>1. {c} \in SUBSET CoinRec /\ "mempool" \in Statuses
    BY <1>4 DEF Statuses
  <2> QED BY <1>13, <1>16, <1>17, <2>1 DEF TxRec
<1>19. GoodIn(t, txs)
  <2>1. /\ t.tool = "wallet" /\ t.ins = {c} /\ t.outs = outs /\ t.of = 0
        /\ t.fee = SumOf(t.ins) - OutSum(t.outs)
    BY <1>16
  <2>2. Len(outs) \in 1..3
    BY <1>13
  <2> QED BY <1>14, <2>1, <2>2 DEF GoodIn
<1>20. txs' \in Seq(TxRec) /\ Grows(txs, txs') /\ AllGood(txs')
  BY <1>1, <1>3, <1>15, <1>18, <1>19, AppendKeeps
<1>21. CallIn(call, txs')
  BY <1>3, <1>20, RestGrows
<1>22. CallIn(call', txs')
  BY <1>2, <1>21
<1>23. Kept
  BY <1>2, <1>3, <1>20, <1>22 DEF Kept
<1> QED BY <1>2, <1>23, CachesKeep, KeptIsEnough

LEMMA ExpireStep ==
    ASSUME BitcoinInv, UtxosExpire \/ ScanExpires
    PROVE  BitcoinInv'
<1>1. setting' = setting /\ UNCHANGED txs /\ call' = call
  BY DEF UtxosExpire, ScanExpires
<1>2. call' \in BtcCallRec /\ CallIn(call', txs)
  BY <1>1 DEF BitcoinInv
<1>3. Kept
  BY <1>1, <1>2, MoveKeeps
<1>4. CacheIn(utxoCache', txs)
  <2>1. CASE UtxosExpire
    BY <2>1 DEF UtxosExpire, CacheIn
  <2>2. CASE ScanExpires
    BY <2>2 DEF ScanExpires, BitcoinInv
  <2> QED BY <2>1, <2>2
<1>5. ScanTypes'
  BY DEF UtxosExpire, ScanExpires, BitcoinInv, ScanTypes
<1>6. CacheIn(utxoCache', txs')
  BY <1>1, <1>4
<1> QED BY <1>1, <1>3, <1>5, <1>6, KeptIsEnough

LEMMA BitcoinInvariance ==
    BitcoinSpec => []BitcoinInv
<1>1. BitcoinInit => BitcoinInv
  <2>1. SUFFICES ASSUME BitcoinInit PROVE BitcoinInv
    OBVIOUS
  <2>2. setting \in SettingRec
    BY <2>1 DEF BitcoinInit, SettingRec
  <2>3. call \in BtcCallRec /\ call.pc = "idle"
    BY <2>1 DEF BitcoinInit, NoCall, BtcCallRec
  <2>4. txs \in Seq(TxRec) /\ DOMAIN txs = {}
    BY <2>1 DEF BitcoinInit
  <2>5. AllGood(txs) /\ CallIn(call, txs)
    BY <2>3, <2>4 DEF AllGood, CallIn
  <2>6. CacheIn(utxoCache, txs) /\ ScanTypes
    BY <2>1 DEF BitcoinInit, CacheIn, ScanTypes
  <2> QED BY <2>2, <2>3, <2>4, <2>5, <2>6 DEF BitcoinInv
<1>2. BitcoinInv /\ [BitcoinNext]_bitcoinVars => BitcoinInv'
  <2>1. SUFFICES ASSUME BitcoinInv, [BitcoinNext]_bitcoinVars PROVE BitcoinInv'
    OBVIOUS
  <2>2. CASE Ask
    BY <2>1, <2>2, AskStep
  <2>3. CASE fetchBtcAddresses \/ fetchLtcAddresses \/ fetchFeeEstimates \/ fetchLtcFeeEstimates
    BY <2>1, <2>3, EarlyStep
  <2>4. CASE fetchAddressUtxos \/ fetchLtcAddressUtxos
    BY <2>1, <2>4, ListStep
  <2>5. CASE nextChangeIndex
    BY <2>1, <2>5, IndexStep
  <2>6. CASE fetchBtcTx
    BY <2>1, <2>6, FetchStep
  <2>7. CASE bumpFee
    BY <2>1, <2>7, BumpStep
  <2>8. CASE \E i \in DOMAIN txs : SendTx(i)
    BY <2>1, <2>8, SendStep
  <2>9. CASE \E i \in DOMAIN txs : Mine(i)
    BY <2>1, <2>9, MineStep
  <2>10. CASE WalletPays
    BY <2>1, <2>10, WalletStep
  <2>11. CASE UtxosExpire \/ ScanExpires
    BY <2>1, <2>11, ExpireStep
  <2>12. CASE UNCHANGED bitcoinVars
    BY <2>1, <2>12
       DEF bitcoinVars, BitcoinInv, ScanTypes, CallIn, Askable
  <2> QED BY <2>1, <2>2, <2>3, <2>4, <2>5, <2>6, <2>7, <2>8, <2>9, <2>10, <2>11, <2>12 DEF BitcoinNext
<1> QED BY <1>1, <1>2, PTL DEF BitcoinSpec

-----------------------------------------------------------------------------
(* The theorems about the sends                                              *)

\* What has been made is a good transaction.
LEMMA MadeAre ==
    ASSUME BitcoinInv, NEW tool, NEW t \in Made(tool)
    PROVE  t \in TxRec /\ t.tool = tool /\ GoodIn(t, txs)
<1>1. PICK i \in DOMAIN txs : t = txs[i] /\ txs[i].tool = tool
  BY DEF Made
<1> QED BY <1>1 DEF BitcoinInv, AllGood

(* Whatever is sent, bumped, mined or made by another wallet, and whatever the   *)
(* caches have forgotten, every value is one the program can hold.               *)
THEOREM BitcoinSendTypeCorrect == BitcoinSpec => []BitcoinTypeOK
<1>1. BitcoinInv => BitcoinTypeOK
  <2>1. SUFFICES ASSUME BitcoinInv PROVE BitcoinTypeOK
    OBVIOUS
  <2>2. setting.net \in {"btc", "ltc"} /\ setting.demo \in BOOLEAN
    BY <2>1 DEF BitcoinInv, SettingRec
  <2>3. call.pc \in {"idle", "keys", "fees", "utxos", "index", "fetch", "gauge"}
    BY <2>1 DEF BitcoinInv, BtcCallRec
  <2>4. ASSUME NEW i \in DOMAIN txs
        PROVE  /\ txs[i].status \in {"prepared", "mempool", "confirmed", "replaced"}
               /\ txs[i].fee \in Nat /\ txs[i].of \in 0..(i - 1)
    <3>1. txs[i] \in TxRec /\ i \in Nat /\ txs[i].of < i
      BY <2>1 DEF BitcoinInv, AllGood
    <3> QED BY <3>1 DEF TxRec, Statuses
  <2>5. ScanTypes
    BY <2>1 DEF BitcoinInv
  <2> QED BY <2>2, <2>3, <2>4, <2>5 DEF BitcoinTypeOK, ScanTypes
<1> QED BY <1>1, BitcoinInvariance, PTL

(* Every send pays the rate it was asked to pay for the size it has, but for the *)
(* 12 vbytes of a taproot change output (btc-coin-select.ts, btc-actions.ts).    *)
THEOREM FeesPayTheRate == BitcoinSpec => []FeePaysTheRate
<1>1. BitcoinInv => FeePaysTheRate
  <2>1. ASSUME BitcoinInv, NEW t \in Made("send") PROVE PaysItsRate(t)
    BY <2>1, MadeAre DEF GoodIn
  <2> QED BY <2>1 DEF FeePaysTheRate, PaysItsRate
<1> QED BY <1>1, BitcoinInvariance, PTL

(* No send spends a coin of a transaction that can still be undone, however old  *)
(* the answer of the cache that listed it, unless the caller named the coin.     *)
THEOREM SendsSpendConfirmed == BitcoinSpec => []SpendsConfirmed
<1>1. BitcoinInv => SpendsConfirmed
  <2>1. ASSUME BitcoinInv, NEW t \in Made("send"), NEW c \in t.ins \ t.named PROVE Confirmed(c)
    <3>1. c \in MaySpend(t.named, txs)
      BY <2>1, MadeAre DEF GoodIn
    <3> QED BY <2>1, <3>1 DEF MaySpend, SettledIn, Confirmed
  <2> QED BY <2>1 DEF SpendsConfirmed
<1> QED BY <1>1, BitcoinInvariance, PTL

(* Every bump spends the coins of its original, pays what BIP-125 asks of one    *)
(* that replaces it, and pays others what the original pays them, whatever has   *)
(* happened since the original was read.                                         *)
THEOREM BumpsReplace == BitcoinSpec => []BumpReplaces
<1>1. BitcoinInv => BumpReplaces
  <2>1. ASSUME BitcoinInv, NEW t \in Made("bump") PROVE Replaces(t, txs[t.of])
    BY <2>1, MadeAre DEF GoodIn
  <2> QED BY <2>1 DEF BumpReplaces, Replaces
<1> QED BY <1>1, BitcoinInvariance, PTL
=============================================================================
