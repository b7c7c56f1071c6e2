# VaultPilot MCP: a verification development

TLA+ models of the parts of VaultPilot that hold state or decide something from what they
read, the TLC runs that check them on small instances, and TLAPS proofs of every invariant
and action property of the runs: the pipeline that prepares, previews and sends a
transaction, the pairing with the wallet, the file of accounts, the signing flow of a Safe,
the families signed over USB, multisig wallets and payments in bitcoin, the lending tools
and the scans of the event log, the tools that trade, stake and move tokens. Paths are
relative to the repository; the program is under `src/`.

## The system

VaultPilot is an MCP server: a language model calls about 170 tools, the server
reads chains and prepares transactions, and a Ledger signs them. It never holds a
key. Its safety rests on a protocol of three calls, `prepare_*`, `preview_send`,
`send_transaction`, on the pairing with the wallet, and on a few files.

`server.ts` dispatches each tool call to an async handler and serialises none of
them. Handlers share module-level variables, and two handlers interleave wherever
one of them awaits: that is where the hard behaviour of the stateful parts comes from.
The rest comes from the wallet (which answers late, never, or after the caller gave up),
from the restart of the process, which keeps files and loses memory, and from
other server processes of the same user (every MCP client starts its own).

The `prepare_*` tools have no state. Theirs is another difficulty: one call reads the
chain at several awaits, decides and computes from what it read, and makes a
transaction that executes minutes later. The chain moves between the reads and before the
execution, so a check, an amount for "max", a floor or a note may be stale when it counts.

| component | state | operations | what makes it correct |
|---|---|---|---|
| handle store, `signing/handle-store.ts` | a map from handle to record, with a lazily checked TTL | `createHandle`, `lookup`, three transitions | a handle is sent at most once, terminal states are final, nothing is sent unseen |
| send pipeline, `tools/preview_send.ts`, `tools/send_transaction.ts`, every `prepare_*` | none of its own; locals carried across awaits | one handler each | what is signed is what was previewed; answers are true; a retry does not pay twice; demo mode never signs |
| WalletConnect pairing, `wallet/session-manager.ts`, `wallet/walletconnect-client.ts` | client singleton, in-flight slot, pending handles, selected accounts; the SDK's session store | `pair`, `pairStart`, `pairWait`, `setActiveAccount` | the slot is honest and given back; a reported account is one the user approved |
| account store, `wallet/non-evm-account-store.ts` | an array in memory and a JSON file | load, save, remove | the file is always whole; what was answered survives a crash |
| BTC multisig wallets, `wallet/btc-multisig-store.ts`, the tools of `btc_multisig` and `sign_message_*` | a file of descriptors with their HMACs; PSBTs that go round | register, sign, combine, finalize, scan | an HMAC belongs to its descriptor; no signature is lost or given twice |
| Safe flow, `tools/prepare_safe_tx_*.ts`, `tools/submit_safe_tx_signature.ts`, `clients/safe-tx-service.ts` | records in the handle store; a cache of answers; a count of requests; the Safe Transaction Service | propose, approve, submit, execute | a prepared execution goes through; a sent handle stands for a posted signature |
| Solana, TRON and Bittensor sends | records in the handle store, paired accounts | 39 prepare tools, previews, USB signatures, submission | a handle is executed once, from the account shown, within its limits; one called sent was taken by a node |
| Bitcoin and Litecoin payments, `signing/btc-coin-select.ts`, `chains/bitcoin/`, the `prepare_btc_*` tools | caches of the chain's answers | send, bump, swap; preview, sign, broadcast | fees pay the rate; coins are confirmed; a bump replaces; answers are true |
| lending tools, `prepare_compound_*`, `prepare_morpho_*` | none | one call each | the transaction still means what the tool named |
| readers, `get_token_allowances`, `get_morpho_positions`, `get_lending_positions`, `simulate_position_change` | none | one call each | nothing is hidden; a projection is where the account ends up |
| trades and staking, `prepare_uniswap_*`, `_curve_*`, `_lido_*`, `_rocketpool_*`, `_eigenlayer_*` | none | one call each | floors fit the route; checks hold until the execution |
| plain EVM tools, transfers, approvals, WETH, Aave, custom calls | none | one call each | what moves is what was named |
| protocol arithmetic, `signing/uniswap-*.ts`, `morpho-shares-math.ts` | none | pure functions | rounding directions, bounds |
| capability requests and notices, `security/request-capability-rate-limit.ts`, `diagnostics/notice.ts` | timestamps, flags | check, record | at most three an hour; a notice appears once |
| Ledger transports, `wallet/ledger-*-transport.ts` | the one HID handle of the device | open, sign, close | the handle is always closed |
| chain readers and clients, `chains/`, `clients/`, `pricing/`, `ens/` | a 60-second price cache | reads | a failure is reported, never a made-up value |
| canonical dispatch, `security/canonical-dispatch*.ts` | tables | one lookup | only listed targets pass |
| fingerprints, blocks, encoders, setup wizard | none, or files written once | pure functions, prompts | byte encodings |

Which hazard each component is exposed to, at its line, and which property covers it, is
listed under `hazards` in `PROJECT.json`.

## Modules

### The pipeline

`HandleStore` is the map: `store`, the record of each handle; `issued`, what was
prepared under each handle ever minted; `now`. Its operators are the functions of
`handle-store.ts`. The transitions look the handle up again, as the code does: this
is what makes a handler that awaited between its check and its transition correct.
Every module of a component that uses the store EXTENDS this one.

`SendPipeline` EXTENDS it with the handlers. A call is a record in `calls`: the
operation, its pc (the await at which it is suspended) and the locals that survive
awaits (handle, token, sender, nonce). The code between two awaits is one action.
Of the transaction families there are two kinds: EVM, where one wallet request signs
and broadcasts, and device (Solana, TRON, Bitcoin, Litecoin, Bittensor), where
the USB device signs and the server broadcasts in a step of its own. The exits of Solana,
TRON and Bittensor around the device are those of one kind: any of them may be taken, before the
device is asked, at its answer, after its signature and at the node (TRON's `SIGERROR`). A third kind,
Safe typed data, is refused by both tools. Of a prepared transaction the model keeps
its kind, the verdict on its target, the caller's acknowledgement and the
sender the caller named. The wallet (`WalletApprove`, `WalletReject`), the
nodes (`PendingNonce`, `NodeAccepts`), the chain (`Mine`) and the clock are
environment actions; the wallet may approve a request whose call is long gone.

| code | actions |
|---|---|
| `prepare_*` | `Prepare` |
| readers of a handle | `Verify` |
| `preview_send` | `PreviewRefuse`, `PreviewStart`, `PreviewStatus`, `PreviewNonce`, `PreviewRpcError`, `PreviewSimulate`, `PreviewCommit` |
| `send_transaction`, decision cancel | `Cancel` |
| `send_transaction`, decision send | `SendRefuse`, `SendStart`, `SendStatus`, `SendReply`, `SendRejected`, `SendFails`, and for devices `OpenDevice`, `DeviceAnswers`, `SignatureRefused`, `BroadcastReply`, `BroadcastError` |
| `set_active_account` and pairing, `pair_*_ledger`, `set_demo_wallet` | `SelectAccount`, `PairUsb`, `SetDemoWallet` |
| process exit and start | `Restart` |

`HandleContract` is what a handle promises its user, as a state machine of one
page: absent, prepared, previewed, sent or cancelled, gone; a broadcast only of a
handle that was shown; terminal states final; gone for good.
`SendPipeline` implements it through `HC == INSTANCE HandleContract WITH ...`, and
the property `Contract` is its specification under that mapping.

### The wallet and the file of accounts

`PairingSession` models the session manager and the client singleton. A call makes
at most one proposal and a proposal at most one session, so the call names them
all. `client` is `cachedClient` with `initInFlight`; `live` the SDK's sessions in the
order they were settled, of which the code always takes the oldest; `chosen`
`activeAccountByTopic`; `inFlight` and `pending` the guard and the handles. Approval,
refusal, deletion and expiry are actions of the wallet or the relay.

`AccountStore` models the JSON cache. Memory and file hold sets of accounts: the order
of the records decides nothing about them here (the families' modules keep it, since
every tool takes the first). A save is as many steps as the operating
system sees (open and truncate the temporary file, write it, rename it), every one
of which may fail or be the last of the process; several processes
share the file and each has its own memory. A file is whole, absent, torn or garbage.
`told`, `raced` and `fresh` are history
variables: what the tools answered, whether two operations met on one account,
and whether a process has seen the last write of the file.

### The Safe

`SafeFlow` has the four tools that sign for a Safe and `get_safe_transaction`. A call is
suspended at the client's queue, at the service and at the chain; the cache, the count of
requests and the handles are shared. `service` is what the service holds, `safe` each
Safe's owners, threshold and nonce, `told` (history) whose signatures this process posted.
A SafeTx is of a Safe, and its hash stands for it whole; the cache is keyed by a hash and its
spelling (`Keys`), since the code's keys are the strings as they were given.

| code | actions |
|---|---|
| the handlers up to their first request | `Ask`, `CancelSignature` |
| `getMultisigTransaction`: cache, limit of requests, service, answer | `LookUp`, `ServiceAnswers`, `AnswerArrives` |
| the reads of the chain, when they fail | `ChainFails` |
| what each tool does with the answer | `Propose`, `Approve`, `Execute` |
| `submit_safe_tx_signature` | `Recovered`, `Submit`, `ServiceTakes`, `PostReturns` |
| other owners, the wallet, the clock, the process | `OwnerConfirms`, `OwnerExecutes`, `OwnersChange`, `ExecutionSent`, `Tick`, `Restart` |

### Families signed over USB

`DeviceSend` has what Solana, TRON and Bittensor share: the paired accounts, of which
every tool takes the first; the Ledger that happens to be plugged in; a call of
`send_transaction` that signs, submits and answers at three awaits; the nodes, which take a
transaction or not (`NodeWouldTake`, `taken`), perhaps with an answer that is lost; and the chain, which
later executes what was taken (`Lands`, `landed`) or never does. A handle is called sent when
the node's answer arrives (`send_transaction.ts:1091`, 1349, 2567); no tool waits for a block. `SolanaSends`,
`TronSends` and `BittensorSends` add their 21, 10 and 8 prepare tools (one action each),
their previews and what keeps their transactions from being executed late or twice:
a blockhash, a reference block with an expiry, a number of the account.
`ChainSends` is their composition: a behaviour is of one family.

### Bitcoin

`CoinSelect` is `btc-coin-select.ts` as operators: branch and bound, largest first, change
and dust. Coins of equal value are listed by outpoint; the search gives up after 10000 steps, which
12 coins cannot take, so with more coins `selectCoinsBnb` may answer either way (`MayGiveUp`).
`BitcoinSend` has the tools that build a transaction
(`Ask`, then an action per request: `fetchBtcAddresses`, `fetchFeeEstimates`,
`fetchAddressUtxos`, `nextChangeIndex`, the `fetchLtc*`, `fetchBtcTx`, `bumpFee`), with
the caches the requests go through and a chain on which other wallets of the same keys
pay too. The coins of a send are selected from the answers, or listed by the caller
(`utxoOverride`, `Lists`): then any that ever were, spent and unconfirmed ones too, each once and with
its true value. `Cosigning` has multisig wallets (`Register*`, `SignPsbt`, `Preview`, `Cancel`,
`Send`, `SignAnswered`, `Combine`, `Finalize`, `ScanStart`, `ScanBatch`) and `SignMessage`; `BitcoinPay`
EXTENDS it with the preview, signature and broadcast of payments (`Prepare*`, `Preview*`,
`Send*`, `Sign*Psbt`, `*BroadcastTx`, `Answer*`). They share the handle
store and cancellation. A behaviour follows one use (signing alone, with others,
watching, messages, paying, the demo): uses share no state but the handles, and the
bounds differ. A scan goes through `addressInfoCache` (`infos`), which keeps what was once said of an
address, that it is unused or that a request failed too, until 256 others came after it (`Evict`) or the process
ends; addresses are derived for change 0 only (`btc-multisig-store.ts:392`). The addresses of one
descriptor are followed (`Watched`), by one scan at a time. The balances that are summed come from the same
entries, and are as old.

### Tools that read and then prepare

| module | code | actions |
|---|---|---|
| `Lending` | `prepare_compound_*`, `prepare_morpho_*` | `CompoundSupply` ... `MorphoWithdrawCollateral`, one per tool; `ReadPosition`, `ReadMarket`, `WithdrawMax`, `RepayMax`, `ReadAllowance`, `AllowanceUnread` at the awaits; `RefuseCall` |
| `LogScans` | `get_token_allowances`, `get_morpho_positions`, the Morpho part of `get_lending_positions` | `ReadHead`, `ScanChunk`, `ScanEnds`, `ScanFails`, `filterActiveAllowances`, `MulticallFails`, `readOneMarket`, `AnswerPositions` |
| `PositionSimulation` | `simulate_position_change` on Aave and Compound, the health in `get_lending_positions` | `ReadPart`, `ReadPartFails`, `Answer`; `Change` is the user's |
| `TradeTools` | Uniswap, Curve, Lido, Rocket Pool, EigenLayer | `Swap` with the three quotes and `RouteSwap`, `Mint`, `IncreaseLiquidity`, ..., one per tool; `AllowanceGate`, `RefuseCall` |
| `WalletTools` | the plain EVM tools, and `prepare_solana_lifi_swap` with the check of its recipient | `NativeSend`, `TokenSend`, `TokenApprove`, `RevokeApproval`, `WethUnwrap`, `AaveSupply`, `AaveWithdraw`, `CustomCall`, `SolanaLifiSwap` |

`MorphoShares` and `UniswapMath` are the arithmetic they use. `Execute` (`WalletExecutes`)
is the contract, by what the tools rely on, and ends in an outcome: done, or the reason
of its revert. `Other*`, `Accrue`, `Moves`, `Event`, `Spent`, `PriceMoves` and
`AccountMoves` are the rest of the chain; `moved` and `spent` record what it touched
since a call began, which is what the properties are conditional on.
`LendingTools` puts the first three side by side: a behaviour follows one call of one of
them. `WalletTools` EXTENDS `TradeTools`: a call ends in one transaction that executes once.

The transaction that these modules make goes through the pipeline as an opaque record of
`SendPipeline`, which keeps it as it is until it is signed. The pipeline sees of the
pairing only the account that is active (`SelectAccount`) and of the account store only
whether a device account is paired (`PairUsb`), both of which may change at any time.

`*Proofs` modules hold the theorems. The `MC*` modules give the shapes, requests,
account lists and bounds of the runs, and the symmetry sets.

## Runs

| run | shows | states |
|---|---|---|
| `pipeline_safety` | the invariants, demo mode and the contract of a handle | 631 thousand |
| `pairing` | the slot and the handles stand for unfinished pairings and are given back; reported accounts were approved | 96 thousand |
| `accounts_safety` | the file is whole and the answers durable | 408 thousand |
| `safe_safety` | a prepared execution goes through, a sent handle was posted, the cache hides no confirmation | 2.4 million |
| `chains_safety` | a handle is executed once, by the account shown, while it is valid and within its limits; a sent one was taken by a node | 2 million |
| `bitcoin_safety` | the fee pays the rate, coins are confirmed, a bump replaces | 2.3 million |
| `multisig_safety` | HMACs match, signatures are given once and never lost, a scan goes wrong only by what it was told, payments are reported truly | 971 thousand |
| `lending_safety` | intents, amounts for "max" and quiet approvals survive the chain; scans hide nothing; simulations come true | 5.7 million |
| `trades_safety` | checks hold until the execution, floors fit the route, what moves was named | 1.5 million |
| `claim_sender_prepared`, `claim_full_history`, `claim_ether_pays` | sentences of the code's own descriptions that it does not keep | |

No run restricts the interleaving, and every action is reached.

Bounds of the pipeline. One handle, three calls, two tokens and two accounts are enough
for every conflict it can have: a preview to mint a token and two calls that
present it, or a second preview that replaces it. Calls of different handles share
only the nonces of an account, which no property relates across handles, and the
proofs have no bound at all. `MaxTime` is one more than `TTL` plus the first tick, so
that a record can be alive, at its limit and expired. `MaxNonce` leaves room for two
mined transactions. Two pairing calls let one meet the other at each of its awaits, and
the proofs cover any number. Two processes and two accounts, one of them the
second of a batch of two, give every interleaving of two writes.

Bounds of the Safe: two calls, two handles, a nonce that moves once, owners and threshold
that change once, and a limit of two requests, which two calls reach. There are two Safes, one
of the user alone and one shared: calls are about the shared one, but an execution may be given
a SafeTx of the other; a hash is read and posted in mixed case or in lower case (`MCAsked`). Of the chains: one
handle, two calls of `send_transaction`, one move of the level, of the account's number
and of the paired accounts; the tick is ten minutes, so that a blockhash dies in one, a
deadline before its handle and a handle in two. The arguments of each tool take every branch of
its handler at least once, and no tool is asked for the product of all its arguments.
A send of bitcoin and one more transaction (`MaxTxs` = 2) is what a bump needs; that replacing a
transaction also drops the descendants of it would take three, which no run has.
A payment needs two coins, two Ledgers and two handles to be overtaken by another.
The policies are two of three and one of two; the gap of a scan (3) is longer than its batch (2),
so that a gap may begin in one batch and end in the next.

Bounds of the reading tools: three numbers are small so that rounding shows. Virtual
shares (2), the scale of a square root price (`Q96` = 8) and amounts up to 2 give
remainders in every division. A price is a number of quarters of a tick (`Fine` = 4), so that it lies between two
ticks and its floor is not the floor of its inverse; ranges are asked for in the tier whose spacing is 1 and
in one of 60. The limit of 100 basis points on a snapped price is taken as 100 ticks. The log has 5 blocks in chunks of 2 or 3. `MaxOthers` and
`MaxMoves` bound what the rest of the chain does after a call began, and one change in
each place where the code reads something is what makes it stale.

Symmetry: calls, tokens and accounts are interchangeable in the pipeline, processes in the
account store, slots, inputs, calls and handles in the multisig run, calls in the chains, items of a
scan in the lending run. The pairing, whose run checks liveness, uses none.

Deadlock is checked in `accounts_safety` only. The others may stop: a behaviour ends
when its calls are answered or its bounds are used up.

Fairness. `FairSpec` of the pairing assumes that a suspended call is resumed, since what it waits for has a
timer of its own, that the client's initialisation ends, that a settled promise runs, and that the relay expires a
proposal nobody answers. Nothing is assumed of the user or the wallet. The pipeline has no fairness and no
liveness property: a signature over USB has no timeout and no cancellation
(`ledger-solana-transport.ts:298-306`), so a call that waits for a Ledger which never answers waits for good. It
holds nothing that another call waits for. The other components have no loop that waits: each call
is a fixed sequence of requests with timeouts, and that it returns says nothing of the code.

## What the properties leave open

Some properties carry a condition because the code does not promise more. Each is
a behaviour a user should know of:

- Without a pre-flight note an approval suffices only for an account that acts on its own
  behalf: with `onBehalf` the Morpho tools read the allowance of that account
  (`prepare_morpho_supply.ts:441`), and the sender's is spent.
- A Uniswap swap from ETH over several pools carries no ether and passes no gate (`claim_ether_pays`):
  it reverts for want of an allowance though nothing moved. `ChecksHold` names it as an exception; `SwapDelivers`
  is about the floor alone.
- A Uniswap swap into ETH is encoded as a single hop whenever there is one, while its floor
  may come from the multi-hop quote (`prepare_uniswap_swap.ts:643`): it may revert though
  nothing moved.
- `simulate_position_change` and `get_lending_positions` count every Aave supply as
  collateral, enabled or not, and take 18 decimals for a Comet whose base they could not
  read: `ShownIsReached` excludes both. They take the reserves' thresholds for an account in eMode
  too, as the code says (`aave-health.ts:110-114`, `get_lending_positions.ts:70`): outside eMode the health shown is the
  account's, in eMode it is only never better than it. The model's category covers every asset, and its
  threshold is no lower than the reserves', which is Aave's rule for a category.
- A new Uniswap position lies within half a tick spacing of the prices that were named, and half a tick more,
  because a price is rounded down to a tick before it is snapped to the spacing (`uniswap-tick.ts:324-332`).
- A send spends what the caller lists without a look at it (`prepare_btc_send.ts:451-458`,
  `prepare_litecoin_native_send.ts:412-419`): `SpendsConfirmed` is about the coins that the tool selected.
- An execution may be prepared on one Safe from a SafeTx of another with the same nonce and signers who are owners of
  both: `prepare_safe_tx_execute` compares neither the Safe nor the hash, as `prepare_safe_tx_approve` does
  (line 332). It reverts, and `PreparedExecutes` says that nothing else does.
- A post drops the entry under the hash as it was posted and under its lower case (`safe-tx-service.ts:735-739`). An entry that was
  read under a third spelling stays, and hides the confirmation: `PostedIsSeen` is about the other two, and not about
  a read that was on its way when the signature was posted.
- An address that was told to be unused, or whose request failed, is unused for every later scan while its
  entry is kept: receiving after a scan and scanning again misses it. `ScanFindsUsed` is about scans that were told nothing of the kind.
- A handle is sent once a node took its transaction, which the chain may still drop: `SentMeansTaken`.
- `get_token_allowances` leaves out an allowance whose own read failed, without a notice.
- The change of a send to a taproot address is counted 12 vbytes short: `FeePaysTheRate` allows for it.
- A bridge pays whom the caller named only if its call is one of the four bridges whose
  recipient the preview decodes (`bridge-decoders/index.ts:191`); any other call of LiFi's contract passes. What it moves
  is never compared with the amount that was asked for.
- A bump takes the first output to a paired address for the change
  (`prepare_btc_rbf_bump.ts:429`). The change of this program's own sends goes to change
  addresses, which are not paired: they are refused with `BTC_RBF_NO_CHANGE_OUTPUT`, and only a
  payment to oneself can be bumped. The bump names a stub key for its coins, so that no device signs
  it; `BumpReplaces` is about the transaction that is prepared.

## Where code and text disagree

Checked as runs:

- `claim_sender_prepared`: `from` given to a `prepare_*` tool is checked and shown,
  and not used: the wallet is asked to spend from the active account.
- `claim_full_history`: `lookbackBlocks: 0`, "full-history scan", reads the last block only.
- `claim_ether_pays`: "ETH-in: tx.value carries the ETH" does not hold of a swap over several pools, whose value
  is 0 (`prepare_uniswap_swap.ts:721`).

Met while modelling, and not run:

- "No broadcast occurred" (`send_transaction.ts:347`) is said of a cancelled handle while a send
  of it waits for the wallet, or after one whose answer was lost.
- Two `pair_ledger_live_start` calls both pass the guard of the one handle
  (`session-manager.ts:308`), because it is read before two awaits and set after them.
- The account store is marked loaded before it is read (`non-evm-account-store.ts:207`, against 271), so that
  after a read error the next save overwrites the file; `btc-multisig-store.ts:223` counts an
  unreadable file as empty, "NOT deleted", and does the same.
- The search for coins "returns the best subset" (`btc-coin-select.ts:181`); it returns the first that matches.
- "Fresh" change addresses (`change-index.ts:12`) come out of a cache of addresses
  (`esplora-client.ts:269`).
- A payment in bitcoin whose broadcast answer was lost stays previewed, and every retry is
  rejected by the nodes with `BROADCAST_FAILED`.
- A handle cancelled while the device signs a payment is still broadcast.
- `prepare_btc_send` and `prepare_litecoin_native_send` spend from the addresses of the Ledger that is plugged
  in, and do not compare it with the account that was paired.
- `prepare_litecoin_native_send` hands the forfeited dust to the fee, "disclosed in PREPARE RECEIPT", which
  does not mention it.
- `finalize_btc_psbt` says ">= threshold", and its library refuses more than the threshold.
- Signing a PSBT the user has already signed fails after the device approved.
- A multisig wallet registered again under its name between the preview and the send is signed with
  under its new descriptor; registering it without the device drops its HMAC.
- `prepare_uniswap_v3_mint` documents its prices in the pool's order of the tokens (line 99), and inverts them when the
  caller's order is the other (345-357): the property `AsAsked` follows the comment there, in the caller's order.
- `submit_safe_tx_signature` explains a 404 by the missing proposal, but
  `prepare_safe_tx_propose` posts nothing; `v` = 31 or 32 is "accepted" and then refused by
  the recovery; the nonce "matches Tx Service nonce" (`prepare_safe_tx_approve.ts:433`) and is not compared.
- A Solana blockhash lives about a minute and its handle fifteen: a preview refuses it late.
  `prepare_solana_nonce_init` makes a transaction that needs a second signature and cannot be sent.
- The receipt of `prepare_solana_lifi_swap` promises that the preview refuses another
  recipient, without that condition; "Solana to EVM" makes a transaction on the EVM chain.
- SunSwap's own deadline of ten minutes is shorter than its handle's fifteen, and a high
  price impact is refused with another code than documented (`clients/sunswap.ts:386`).
- TRON answers a signature by another key with "unplugged or wrong app", though the cause is
  that the paired account was paired again, or `from` named another.
- `get_morpho_positions` makes a controller for its timeout per market and gives it to no request.
- The first supply of a Comet collateral is refused by `simulate_position_change` as "not a configured collateral".

## Proofs

tlapm checks eight modules, for any number of handles, calls, tokens, accounts and bounds, from
the named assumptions of the modules (that `None` is no member of the other sets, what a
shape or a request is, that bounds are numbers). No invariant that says something is inductive as it stands; what had to be added
is the argument for why the code is correct.

`SendPipelineProofs`: `TypeCorrect`, `SignsWhatWasPreviewed`, `SignsOnlyAllowed`,
`SucceedsOnce`, `AnswersTruly`, `RetriesPayOnce`, the action property `DemoSigns`, and
`Implements`: `Spec => Contract`, the refinement of `HandleContract`.
That a signed request carries a
previewed nonce needs to know, of a handle that is merely
previewed, that its pin was made by a preview still in the history (`RecordInv`); of a
preview that is suspended, that its target was vetted (`PreviewCallInv`); of a send at
each pc, which of its fields were captured from that pin (`SendCallInv`). That a token
identifies one preview is `TokenInv`, from the freshness of minted tokens, and it
turns equal tokens into equal nonces for `RetryPaysOnce`. `OneSuccess` needs
`SuccessInv`: a recorded success leaves its handle sent or gone, so that
no later transition to sent can succeed.

That a denial is true (`AnswersTruly`) is that what was signed is not with a node before `NodeAccepts`, at each
exit on the way there.

`SafeFlowProofs`: `TypeCorrect`, `Executes`, `SentPosted`, `PostsSeen`.
`CallInv` says what a call knows at each await: that an answer on its way has what this
process posted before, that an execution about to be prepared suffices for the Safe it read,
that a post which returned is with the service. `MatchInv` says that the handle a submission found is one of
its transaction; `IssuedInv`, that the signatures of an issued execution suffice for the
Safe that was read; `ToldInv`, that what this process posted, under whichever spelling, is with the service.

`LendingProofs`: `IntentsAreKept`, `RepayingMaxClears`, `WithdrawingMaxFits`,
`QuietReceiptsAreApproved`, from `LendingInvariance`; `ScanTypeCorrect`, `ScansHideNothing`;
`SimTypeCorrect`, `SimulationsAreReached`; and, for
the tools side by side, `ListsHideNothing` and `ToolsReachWhatTheyShow`.
While a call or its transaction is on its way (`Going`), `AmountsOK` relates the transaction to
the request and the reads, `IntentOK` its operation to the sign of the Comet position,
`SharesOK` the shares that were read to the position, `NoteOK` the absent note to the allowance.
None of these needs more than that an account's own moves are excluded, with two exceptions.
`PriceOK`: a share is worth no less than by the totals of the read, for a deposit pays in full for
the shares it mints, a withdrawal takes no more than its shares are worth, and interest adds
assets alone; so the assets that "max" came to still cost no more shares than the account has
(`MaxStillFits`). `DebtsOK`: the debt of the market has a bound, so that the unlimited approval
which the code asks for covers a repayment after any interest (`DebtIsBounded`). Both are about products
of variables divided with a remainder.
Of a scan, `WindowOK` and `ChunksOK` say that the
cursor covers the window without a gap, wherever chunks end and blocks come in: every event
of an item between the window's start and the cursor is found. `RowOK` is about each item: a
row that was filled is what the item holds, unless it moved without an event; an item the
window names was found.
Of a simulation, `SimInv` says that an answer is the health of what was read, and of what the change makes of it;
that a Comet account owes nothing but the base, and has none of it while it does (`CometOk`).
The code's sum over all assets is the contract's over the collateral because what is left out weighs nothing
(`SameTotal`, `HealthIsStanding`). The projected account is the one that the contract makes, but for a
loan of a Comet's base, which first takes what was supplied and so owes less than was shown (`ProjectsComet`,
`ReachesProjected`). An account in eMode is backed by no less than by the reserves' thresholds, asset by asset (`EModeWidens`). A health above the limit of the warning stays above one when the
account is no worse (`OutOfDanger`).

`WalletProofs`, of the pairing: `PairingTypeCorrect`, `GuardsHonestly`, `HandlesStayOpen`, `ReportsApproved`. The
guard is honest because whoever holds the slot or a handle can still end (`GuardOK`), which what is
known of a call at each pc preserves (`CallsOK`); a reported account was approved because the
selection of a session is one of its accounts and goes with it (`SessionsOK`), and a session
has accounts only once its call was approved (`ApprovalsOK`).

Of the file of accounts: `AccountTypeCorrect`, `StaysWhole`, `AnswersLast`. Per process (`ProcessOK`), a temporary
file between its writing and its renaming holds exactly that process's memory, and the answer
comes after the renaming; over processes, one that is `fresh` has in memory all that was
told (`ToldIn`) and what others have written and not yet answered (`WrittenIn`), so that its
next write loses nothing.

`ChainProofs`: `ChainInvariance`, `HandlesPayOnce`, `SentIsTaken`, `ShownAccountPays`,
`TronOffersLiveTransactions`, `LimitsBind`. That a handle is executed once cannot be seen from `landed` alone: `Once`
adds that what was executed carries the block of the handle, or that the number of the
handle is below the account's, which only grows. So a second submission of the same record fails the
chain's own check. `TakenOK` says that what a node took of a handle is its transaction, signed by its account,
whatever becomes of it; `CallOK` that a call which was taken has it among that, so that
its answer may call the handle sent; `HeldOK` that a TRON record expires before its transaction, which needs
that `Extension` is at least `TTL` (`TronAssumption`) and that every encoder ends with it.
`LimitsBind` has an invariant of its own, `LimitInvariance`: the transaction of a swap or of a limited
call carries the bound of the price it was prepared at, from its preparation on, and what was
executed was kept to it. The bound is rounded once, which gives away less than one unit. It is assumed that a
tool belongs to one family, that pools hold both tokens, and that amounts and
tolerances which parse are numbers.

`BitcoinProofs`, of multisig wallets and payments: `CosigningInvariance`, `HmacsStayWithPolicies`, `PaymentsAreToldTruly`, `ScansFindUsed`, and the
action properties `SignaturesComeFromSends` and `CombiningLosesNothing`, of `PaySpec`, the
composition of `Cosigning` and `BitcoinPay`. The uses do not meet (`ExchangeOK`, `CallOK`): one that signs PSBTs has
no paying call, one that pays no exchange with the Ledger, so that a handle that becomes
sent does so in one way. `HandleOK` says that a handle which was told is sent for as long as it is held, and so is
not told again; `CallOK`, that a call which heard of a success has its
transaction with the network. `Matches` has to hold of the file and of memory, since a failed save leaves
the two apart. Combining keeps what both PSBTs had because what is merged is a union per
input (`MergedSigs`). Of a scan under way (`ScanGood`): every
address before its next index was told used or unused, the last of them, as many as it counts, were told
unused, and no gap was passed; a batch keeps that (`ScanGoesOn`), and so does whatever is paid, kept or
evicted between two batches, because the record of what a scan was told is its own. When it ends after a gap, the
addresses it counts are the used ones before the first gap, if none that is used was told to be unused (`ScanIsRight`). The instance has one Ledger; the theorems hold for several.

Of the tools that build a transaction (`BitcoinSpec`): `BitcoinSendTypeCorrect`, `FeesPayTheRate`, `SendsSpendConfirmed`,
`BumpsReplace`, from `BitcoinInv`. What was made is good of the transactions there were (`GoodIn`), and
stays so because transactions keep all but their status and a confirmed one stays confirmed (`Grows`):
this lets a row of a cache that said "confirmed", however old, be spent (`RowsIn`, `MaySpend`, which sets apart the coins
that the caller named), and a bump be judged by the
original as it was read (`Same`). A selection is good (`SelectionIsGood`) whichever way it was made. There is a first match, and a last coin of
those that are needed, because the order of the search and that of the coins are total on a finite set
(`BeforeOrders`, `LargerOrders`, `FirstExists`); no two coins have an outpoint in common (`Apart`, `KnownAre`). A fee rounded up
covers its size (`CeilCovers`), one estimated with a change output covers the transaction without it
(`PaysWithout`), and a rate that is a satoshi per vbyte above the old one gives a fee that is (`BumpIsGood`). A transaction has three
outputs at most, and the sums of outputs are taken apart one by one (`SumOverTake`). It is assumed that the coins of the
beginning are finitely many, with ids of their own, and that amounts and rates are numbers.

`TradeProofs`: `TradeInvariance`, `ChecksLast`, `SwapsDeliver`, `ToolsDoAsAsked`. Of a call and its
transaction, `TxOK` says what the transaction names of what was asked, and `Pending` what holds until it
executes: each comparison the tool made still holds as long as its own part of the chain is not in
`moved` (`GateOK`, `PositionOK`, `LevelOK`), and a quote that was read is what its pool pays (`QuotesOK`).
`EndsWell` is what remains once it executed. A mint costs no more than was named because liquidity is rounded down
twice on its way from the amounts and the amounts once on their way back (`UsedFits`), and a price
snaps to a tick within half a spacing and half a tick of it, which bounds the inverse of the tick
against the inverse of the price as well (`SnapsNear`). That a decimal amount is read exactly in the token's units
(`UnitsAreExact`) is an induction over the number of places, for any number of decimals. It is assumed that prices
rise with their ticks (`SqrtAssumption`) and that requests which were parsed hold numbers; a range whose snapped
ends have no price is left out (the code's arithmetic throws on it, `uniswap-tick.ts:93`).

`NumberLemmas` is what these share. Products and quotients of variables are beyond the solver, which has to be
shown the steps `Floor`, `Times`, `Cancels` and `Divides`. The library's induction theorems take an
operator, which no prover here can instantiate; `Induction` is of a set of numbers, from the library's
`WFMin` on well-founded relations. From it follow the laws of sums over a finite set, which the
community modules define as folds (`SumsExist`, `SumsTake`, `SumsSkip`).

The proofs have one lemma per group of actions and
one step per conjunct that the action can disturb.

Every invariant and every action property that a passing run checks has a theorem. Only model-checked: liveness
(`PairingSettles`) and what the operators of `CoinSelect` answer on the coins of the instances;
fairness and ENABLED are out of the prover's reach.

## Not modelled

- Capability requests, notices, the price cache and the portfolio: counters and read-only
  aggregation, of which nothing that is signed depends.
- In `SendPipeline`, the refusals of the preview that depend on the prepared bytes only: the
  bridge recipient (which `WalletTools` has) and the chain name. They add exits without effect.
- The fingerprint recheck in `send_transaction`: it compares data nothing reassigns.
- The caps `amount0Max` and `amount1Max` of `prepare_uniswap_v3_collect`: the model collects everything.
- Gas, fees and the demo simulation's result: nothing branches on them.
- `session_update`, which the code does not listen to, and `cachedSessionTopic` and
  `activeChainIdByTopic`, which it writes and does not read.
- The device dialogue before a pairing is saved; opening and closing the HID handle.
- Hazards that are known and in no property: a device that never answers; a slot cleared by a pairing that
  overlapped with its own (`session-manager.ts:431`); a handle gone before the first wait for it (523); handles that nobody looks up
  stay in memory (`handle-store.ts:1488`); an account list that the wallet changes under a live session (`session-manager.ts:823`);
  the accounts of another process overwritten by one that loaded before (`non-evm-account-store.ts:282`), of which
  `AnsweredIsDurable` excludes what was raced.
- Encoders, hashes, text blocks, HTTP clients, the setup wizard, the tables of
  addresses: no state, or byte-level detail.

## Plan

1. The device family of `SendPipeline` refined by `ChainSends` and `BitcoinPay`.
2. The sliding window of capability requests, and the notices.
