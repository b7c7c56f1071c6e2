---------------------------- MODULE SendPipeline ----------------------------
(***************************************************************************)
(* prepare -> preview_send -> send_transaction.                             *)
(*                                                                         *)
(* The MCP server runs every tool call as an async handler and serialises   *)
(* none of them: two calls interleave wherever one awaits.  A call is a     *)
(* record in `calls` that keeps its pc (the await it is suspended at) and   *)
(* the locals it carries across awaits; the code between two awaits is one  *)
(* action.  A call runs once, and its record stays as the history of what   *)
(* it did.                                                                  *)
(*                                                                         *)
(* The calls share the handle store, the WalletConnect session and, through *)
(* the nodes they ask, the chain.  An EVM transaction is signed AND         *)
(* broadcast by the paired wallet, which answers late, never, or through a  *)
(* relay that loses the answer; a transaction of the other families is      *)
(* signed on the USB device and broadcast by the server.                    *)
(***************************************************************************)
EXTENDS HandleStore

CONSTANTS
    Calls,      \* tool calls of one behaviour
    Accounts,   \* EVM accounts: of the paired wallet, or demo personas
    MaxTime,    \* bound of the clock
    MaxNonce    \* bound of the nonces a node reports

ASSUME PipelineAssumption ==
    /\ MaxTime \in Nat
    /\ MaxNonce \in Nat
    /\ None \notin Accounts
    /\ Shapes \subseteq [kind : {"evm", "device", "safe"},
                        target : {"native", "listed", "unlisted"},
                        ack : BOOLEAN,
                        from : Accounts \cup {None}]

VARIABLES
    calls,      \* Calls -> Call
    demo,       \* isDemoMode(): fixed while the process lives
    persona,    \* the active EVM persona, and whether the other family has one
    active,     \* selected account of the live WalletConnect session, None without one
    usb,        \* an account of the USB device is paired
    pool,       \* transactions the network has received
    mined,      \* those of them included in a block
    minedNonce  \* next nonce each account's next block takes

walletVars == <<demo, persona, active, usb>>
chainVars == <<pool, mined, minedNonce>>
vars == <<storeVars, calls, walletVars, chainVars>>

\* One transaction: what identifies its bytes.  A handle of another family has
\* its sender, fees and blockhash or inputs inside the prepared bytes, so it
\* carries sentinels here.
Tx == [h : Handles, from : Accounts \cup {None}, nonce : Nat]

Ops == {"none", "preview", "send", "cancel"}

PCs == {"idle", "pstatus", "pnonce", "psim", "pcommit", "status", "wallet",
        "opening", "device", "broadcast", "accepted", "done"}

\* What becomes of the request to sign: "signed" is a signature the server holds,
\* "out" a transaction the network has received.
Reqs == {"none", "pending", "rejected", "signed", "out"}

Results ==
    {"none", "previewed", "sent", "cancelled", "simulated", "lost",
     "HANDLE_NOT_FOUND", "HANDLE_EXPIRED", "WRONG_HANDLE_KIND", "PREVIEW_REQUIRED",
     "WRONG_STATUS", "PREVIEW_TOKEN_MISMATCH", "DISPATCH_TARGET_REFUSED",
     "SIMULATION_REFUSED", "RPC_ERROR", "WALLET_NOT_PAIRED", "WRONG_MODE",
     "LEDGER_REJECTED", "LEDGER_NOT_CONNECTED", "APP_NOT_OPEN", "BROADCAST_FAILED",
     "INTERNAL_ERROR", "UNRECORDED"}

Call ==
    [op    : Ops,
     pc    : PCs,
     h     : Handles \cup {None},
     tok   : Tokens \cup {None},       \* token minted, or presented
     from  : Accounts \cup {None},     \* sender read from the session or persona
     nonce : Nat,                      \* nonce read from the node, or pinned
     req   : Reqs,
     res   : Results]

IdleCall ==
    [op |-> "none", pc |-> "idle", h |-> None, tok |-> None, from |-> None,
     nonce |-> 0, req |-> "none", res |-> "none"]

TxOf(c) == [h |-> calls[c].h, from |-> calls[c].from, nonce |-> calls[c].nonce]

\* Tokens minted so far; get_tx_verification shows the caller any of them.
Minted == {calls[c].tok : c \in {d \in Calls : calls[d].op = "preview"}} \ {None}

Finish(c, res) == calls' = [calls EXCEPT ![c].pc = "done", ![c].res = res]

\* A call that answers without suspending once.
Answer(c, op, h, res) ==
    calls' = [calls EXCEPT ![c] = [IdleCall EXCEPT !.op = op, !.pc = "done",
                                                   !.h = h, !.res = res]]

-----------------------------------------------------------------------------
(* Preparing and looking                                                    *)

\* resolveFrom, and the account checks of the other families: the sender is the
\* persona, an account of the session, or a paired device account.
Preparable(shape) ==
    CASE shape.kind = "device" -> IF demo THEN persona.device ELSE usb
      [] shape.kind # "device" /\ demo ->
           persona.evm # None /\ shape.from \in {None, persona.evm}
      [] OTHER -> active # None

\* Any of the prepare_* tools, at the end of its checks.
Prepare(h, shape) ==
    /\ Preparable(shape)
    /\ CreateHandle(h, shape)
    /\ UNCHANGED <<now, calls, walletVars, chainVars>>

\* get_tx_verification and the other readers: a lookup, with its deletion.
Verify(h) ==
    /\ store' = Looked(h)
    /\ store' # store
    /\ UNCHANGED <<issued, now, calls, walletVars, chainVars>>

-----------------------------------------------------------------------------
(* preview_send                                                             *)

\* Layer 0.5: the target must be on the allowlist, unless the transaction has
\* no data or (EVM only) its handle carries an acknowledgement.
Refused(shape) ==
    /\ shape.target = "unlisted"
    /\ ~(shape.kind = "evm" /\ shape.ack)

\* Mutant: the target is not looked at.
PreviewGuardOpen(h) ==
    IF Lookup(h) # "ok" THEN Lookup(h)
    ELSE IF issued[h].kind = "safe" THEN "WRONG_HANDLE_KIND"
    ELSE IF issued[h].kind = "evm" /\ Terminal(h) THEN "WRONG_STATUS"
    ELSE IF issued[h].kind = "evm" /\ demo /\ persona.evm = None THEN "WRONG_MODE"
    ELSE "ok"

\* What the code before the first await answers, "ok" when it goes on.  Only
\* the EVM branch looks at the status this early.
PreviewGuard(h) ==
    LET shape == issued[h] IN
    IF Lookup(h) # "ok" THEN Lookup(h)
    ELSE IF shape.kind = "safe" THEN "WRONG_HANDLE_KIND"
    ELSE IF Refused(shape) THEN "DISPATCH_TARGET_REFUSED"
    ELSE IF shape.kind = "evm" /\ Terminal(h) THEN "WRONG_STATUS"
    ELSE IF shape.kind = "evm" /\ demo /\ persona.evm = None THEN "WRONG_MODE"
    ELSE "ok"

PreviewFirstAwait(h) ==
    IF issued[h].kind = "device" THEN "psim" ELSE IF demo THEN "pnonce" ELSE "pstatus"

PreviewRefuse(c, h) ==
    /\ calls[c].pc = "idle"
    /\ PreviewGuard(h) # "ok"
    /\ store' = Looked(h)
    /\ Answer(c, "preview", h, PreviewGuard(h))
    /\ UNCHANGED <<issued, now, walletVars, chainVars>>

PreviewStart(c, h) ==
    /\ calls[c].pc = "idle"
    /\ PreviewGuard(h) = "ok"
    /\ calls' = [calls EXCEPT ![c] =
                   [IdleCall EXCEPT !.op = "preview", !.h = h,
                                    !.pc = PreviewFirstAwait(h),
                                    !.from = IF PreviewFirstAwait(h) = "pnonce"
                                             THEN persona.evm ELSE None]]
    /\ UNCHANGED <<storeVars, walletVars, chainVars>>

\* `await getStatus()`
PreviewStatus(c) ==
    /\ calls[c].pc = "pstatus"
    /\ IF active # None
       THEN calls' = [calls EXCEPT ![c].pc = "pnonce", ![c].from = active]
       ELSE Finish(c, "WALLET_NOT_PAIRED")
    /\ UNCHANGED <<storeVars, walletVars, chainVars>>

\* The nonce a node reports for the block tag "pending": the first one that is
\* neither mined nor taken by a transaction it has received.
PendingNonce(a, n) ==
    LET taken == {t.nonce : t \in {u \in pool : u.from = a}} IN
    /\ n >= minedNonce[a]
    /\ n \notin taken
    /\ \A m \in minedNonce[a] .. n : m = n \/ m \in taken

\* Mutant: the nonce is the last one used, not the next one.
PreviewNonceOffByOne(c) ==
    /\ calls[c].pc = "pnonce"
    /\ \E n \in 0 .. MaxNonce :
         /\ PendingNonce(calls[c].from, n)
         /\ calls' = [calls EXCEPT ![c].pc = "pcommit", ![c].nonce = n - 1]
    /\ UNCHANGED <<storeVars, walletVars, chainVars>>

\* The node's answer to getTransactionCount; the call resumes only when the fee
\* and gas estimates have arrived too.
PreviewNonce(c) ==
    /\ calls[c].pc = "pnonce"
    /\ \E n \in 0 .. MaxNonce :
         /\ PendingNonce(calls[c].from, n)
         /\ calls' = [calls EXCEPT ![c].pc = "pcommit", ![c].nonce = n]
    /\ UNCHANGED <<storeVars, walletVars, chainVars>>

PreviewRpcError(c) ==
    /\ calls[c].pc \in {"pnonce", "pcommit"}
    /\ issued[calls[c].h].kind = "evm"
    /\ Finish(c, "RPC_ERROR")
    /\ UNCHANGED <<storeVars, walletVars, chainVars>>

\* Layer 0.7 of the other families: a simulation that must succeed.
PreviewSimulate(c) ==
    /\ calls[c].pc = "psim"
    /\ \/ calls' = [calls EXCEPT ![c].pc = "pcommit"]
       \/ Finish(c, "SIMULATION_REFUSED")
    /\ UNCHANGED <<storeVars, walletVars, chainVars>>

\* Mutant: previewing again may leave an earlier token in force.
PreviewCommitOldToken(c) ==
    LET h == calls[c].h IN
    /\ calls[c].pc = "pcommit"
    /\ \E t \in Tokens :
         /\ TransitionToPreviewed(h, [token |-> t, nonce |-> calls[c].nonce])
         /\ IF PreviewOutcome(h) = "ok"
            THEN calls' = [calls EXCEPT ![c].pc = "done", ![c].tok = t, ![c].res = "previewed"]
            ELSE Finish(c, PreviewOutcome(h))
    /\ UNCHANGED <<issued, now, walletVars, chainVars>>

\* The token is minted and pinned with the nonce.  The code that renders the
\* preview awaits some more and may throw: the handle is previewed all the same.
PreviewCommit(c) ==
    LET h == calls[c].h IN
    /\ calls[c].pc = "pcommit"
    /\ \E t \in Tokens \ Minted :
         /\ TransitionToPreviewed(h, [token |-> t, nonce |-> calls[c].nonce])
         /\ IF PreviewOutcome(h) = "ok"
            THEN \E res \in {"previewed", "INTERNAL_ERROR"} :
                   calls' = [calls EXCEPT ![c].pc = "done", ![c].tok = t, ![c].res = res]
            ELSE Finish(c, PreviewOutcome(h))
    /\ UNCHANGED <<issued, now, walletVars, chainVars>>

-----------------------------------------------------------------------------
(* send_transaction                                                         *)

\* The guards both decisions pass, in their order.
HandleGuard(h) ==
    IF Lookup(h) # "ok" THEN Lookup(h)
    ELSE IF issued[h].kind = "safe" THEN "WRONG_HANDLE_KIND"
    ELSE IF store[h].status = "prepared" THEN "PREVIEW_REQUIRED"
    ELSE IF Terminal(h) THEN "WRONG_STATUS"
    ELSE "ok"

\* Mutants: the token is not compared; demo mode is not looked at.
SendGuardAnyToken(h, tok) ==
    IF HandleGuard(h) # "ok" THEN HandleGuard(h)
    ELSE IF demo THEN "simulated"
    ELSE IF issued[h].kind = "device" /\ ~usb THEN "WALLET_NOT_PAIRED"
    ELSE "ok"

SendGuardNoDemo(h, tok) ==
    IF HandleGuard(h) # "ok" THEN HandleGuard(h)
    ELSE IF tok # store[h].pinned.token THEN "PREVIEW_TOKEN_MISMATCH"
    ELSE IF issued[h].kind = "device" /\ ~usb THEN "WALLET_NOT_PAIRED"
    ELSE "ok"

\* What the code before the first await answers to the decision "send".  The
\* fingerprint compared here is recomputed from a transaction no code reassigns.
SendGuard(h, tok) ==
    LET family == issued[h].kind IN
    IF HandleGuard(h) # "ok" THEN HandleGuard(h)
    ELSE IF tok # store[h].pinned.token THEN "PREVIEW_TOKEN_MISMATCH"
    ELSE IF demo
    THEN IF (family = "evm" /\ persona.evm = None) \/ (family = "device" /\ ~persona.device)
         THEN "WRONG_MODE" ELSE "simulated"
    ELSE IF family = "device" /\ ~usb THEN "WALLET_NOT_PAIRED"
    ELSE "ok"

\* The decision "cancel": it needs no token and suspends nowhere.
Cancel(c, h) ==
    /\ calls[c].pc = "idle"
    /\ IF HandleGuard(h) = "ok"
       THEN /\ TransitionToCancelled(h)
            /\ Answer(c, "cancel", h, "cancelled")
       ELSE /\ store' = Looked(h)
            /\ Answer(c, "cancel", h, HandleGuard(h))
    /\ UNCHANGED <<issued, now, walletVars, chainVars>>

SendRefuse(c, h, tok) ==
    /\ calls[c].pc = "idle"
    /\ SendGuard(h, tok) # "ok"
    /\ store' = Looked(h)
    /\ Answer(c, "send", h, SendGuard(h, tok))
    /\ UNCHANGED <<issued, now, walletVars, chainVars>>

\* The pinned nonce is captured here and carried across every later await.
SendStart(c, h, tok) ==
    LET family == issued[h].kind IN
    /\ calls[c].pc = "idle"
    /\ SendGuard(h, tok) = "ok"
    /\ calls' = [calls EXCEPT ![c] =
                   [IdleCall EXCEPT !.op = "send", !.h = h, !.tok = tok,
                                    !.nonce = store[h].pinned.nonce,
                                    !.pc = IF family = "evm" THEN "status" ELSE "opening"]]
    /\ UNCHANGED <<storeVars, walletVars, chainVars>>

\* Mutant: the nonce is asked again when sending.
SendStatusFreshNonce(c) ==
    /\ calls[c].pc = "status"
    /\ IF active # None
       THEN \E n \in 0 .. MaxNonce :
              /\ PendingNonce(active, n)
              /\ calls' = [calls EXCEPT ![c].pc = "wallet", ![c].from = active,
                                        ![c].nonce = n, ![c].req = "pending"]
       ELSE Finish(c, "WALLET_NOT_PAIRED")
    /\ UNCHANGED <<storeVars, walletVars, chainVars>>

\* getStatus and the session topic, then the eth_sendTransaction request.  The
\* sender is the account active NOW, whichever one was previewed.  Either of the
\* two awaits before the request may throw.
SendStatus(c) ==
    /\ calls[c].pc = "status"
    /\ \/ /\ active # None
          /\ calls' = [calls EXCEPT ![c].pc = "wallet", ![c].from = active,
                                    ![c].req = "pending"]
       \/ active = None /\ Finish(c, "WALLET_NOT_PAIRED")
       \/ Finish(c, "INTERNAL_ERROR")
    /\ UNCHANGED <<storeVars, walletVars, chainVars>>

\* transitionToSent once the network answered with a hash: when it fails the
\* transaction is out all the same, and the handle does not say so.  The call
\* answers INTERNAL_ERROR with a text of its own, here UNRECORDED.
Record(c) ==
    LET h == calls[c].h IN
    /\ TransitionToSent(h)
    /\ Finish(c, IF SentOutcome(h) = "ok" THEN "sent" ELSE "UNRECORDED")

SendReply(c) ==
    /\ calls[c].pc = "wallet"
    /\ calls[c].req = "out"
    /\ Record(c)
    /\ UNCHANGED <<issued, now, walletVars, chainVars>>

SendRejected(c) ==
    /\ calls[c].pc = "wallet"
    /\ calls[c].req = "rejected"
    /\ Finish(c, "LEDGER_REJECTED")
    /\ UNCHANGED <<storeVars, walletVars, chainVars>>

\* Mutant: every failure of the request is called a rejection.
SendFailsAsRejection(c) ==
    /\ calls[c].pc = "wallet"
    /\ Finish(c, "LEDGER_REJECTED")
    /\ UNCHANGED <<storeVars, walletVars, chainVars>>

\* The request fails for any other reason: the session is gone, the relay or
\* the request timed out, the wallet's node refused.  The wallet may have it.
SendFails(c) ==
    /\ calls[c].pc = "wallet"
    /\ Finish(c, "BROADCAST_FAILED")
    /\ UNCHANGED <<storeVars, walletVars, chainVars>>

\* The other families: what comes before the user is asked may fail, from the account
\* that is no longer the one prepared for (Solana) or a node that is not reached
\* (Bittensor) to the transport and the app, which TRON and Bittensor call a rejection
\* when it is not open;
OpenDevice(c) ==
    /\ calls[c].pc = "opening"
    /\ \/ calls' = [calls EXCEPT ![c].pc = "device", ![c].req = "pending"]
       \/ \E res \in {"LEDGER_NOT_CONNECTED", "APP_NOT_OPEN", "LEDGER_REJECTED",
                     "INTERNAL_ERROR", "BROADCAST_FAILED"} : Finish(c, res)
    /\ UNCHANGED <<storeVars, walletVars, chainVars>>

\* the device signs or not, and a signature may be of the wrong length (Bittensor) or
\* not fit the transaction (Solana, Bittensor); nothing ends the wait for it;
DeviceAnswers(c) ==
    LET Answers(pc, req, res) ==
            calls' = [calls EXCEPT ![c].pc = pc, ![c].req = req, ![c].res = res]
    IN  /\ calls[c].pc = "device"
        /\ \/ Answers("broadcast", "signed", "none")
           \/ \E res \in {"LEDGER_REJECTED", "INTERNAL_ERROR"} : Answers("done", "signed", res)
           \/ \E res \in {"LEDGER_REJECTED", "LEDGER_NOT_CONNECTED", "INTERNAL_ERROR"} :
                  Answers("done", "rejected", res)
        /\ UNCHANGED <<storeVars, walletVars, chainVars>>

\* the node takes the signed bytes,
NodeAccepts(c) ==
    /\ calls[c].pc = "broadcast"
    /\ calls' = [calls EXCEPT ![c].pc = "accepted", ![c].req = "out"]
    /\ pool' = pool \cup {TxOf(c)}
    /\ UNCHANGED <<storeVars, walletVars, mined, minedNonce>>

\* or finds that the signature is not the account's (TRON's SIGERROR),
SignatureRefused(c) ==
    /\ calls[c].pc = "broadcast"
    /\ Finish(c, "LEDGER_REJECTED")
    /\ UNCHANGED <<storeVars, walletVars, chainVars>>

\* and its answer arrives, or an error instead, from before it or from after.
BroadcastReply(c) ==
    /\ calls[c].pc = "accepted"
    /\ Record(c)
    /\ UNCHANGED <<issued, now, walletVars, chainVars>>

BroadcastError(c) ==
    /\ calls[c].pc \in {"broadcast", "accepted"}
    /\ Finish(c, "BROADCAST_FAILED")
    /\ UNCHANGED <<storeVars, walletVars, chainVars>>

-----------------------------------------------------------------------------
(* The wallet, the chain, the user and the process                          *)

\* The user confirms on the device and the wallet broadcasts; the call that
\* asked may be long gone.
WalletApprove(c) ==
    /\ calls[c].req = "pending"
    /\ calls[c].from # None
    /\ calls[c].nonce >= minedNonce[calls[c].from]
    /\ calls' = [calls EXCEPT ![c].req = "out"]
    /\ pool' = pool \cup {TxOf(c)}
    /\ UNCHANGED <<storeVars, walletVars, mined, minedNonce>>

WalletReject(c) ==
    /\ calls[c].req = "pending"
    /\ calls[c].from # None
    /\ calls' = [calls EXCEPT ![c].req = "rejected"]
    /\ UNCHANGED <<storeVars, walletVars, chainVars>>

\* A block takes at most one transaction of each (sender, nonce).
Mine(t) ==
    /\ t \in pool
    /\ t.from # None
    /\ t.nonce = minedNonce[t.from]
    /\ mined' = mined \cup {t}
    /\ minedNonce' = [minedNonce EXCEPT ![t.from] = @ + 1]
    /\ UNCHANGED <<storeVars, calls, walletVars, pool>>

\* Pairing, set_active_account, disconnecting, session_delete.
SelectAccount(a) ==
    /\ a # active
    /\ active' = a
    /\ UNCHANGED <<storeVars, calls, demo, persona, usb, chainVars>>

PairUsb ==
    /\ usb' = ~usb
    /\ UNCHANGED <<storeVars, calls, demo, persona, active, chainVars>>

\* set_demo_wallet: refuses outside demo mode.
SetDemoWallet ==
    /\ demo
    /\ \/ \E a \in Accounts : persona' = [persona EXCEPT !.evm = a]
       \/ persona' = [persona EXCEPT !.device = TRUE]
    /\ UNCHANGED <<storeVars, calls, demo, active, usb, chainVars>>

Tick ==
    /\ now < MaxTime
    /\ now' = now + 1
    /\ UNCHANGED <<store, issued, calls, walletVars, chainVars>>

NoPersona == [evm |-> None, device |-> FALSE]

\* The process dies and starts again: handles and unanswered calls are gone, a
\* signing request already delivered is not.
Restart ==
    /\ StoreLost
    /\ calls' = [c \in Calls |->
                   IF calls[c].pc \in {"idle", "done"} THEN calls[c]
                   ELSE [calls[c] EXCEPT !.pc = "done", !.res = "lost"]]
    /\ demo' \in BOOLEAN
    /\ persona' = NoPersona
    /\ active' \in {active, None}
    /\ UNCHANGED <<issued, now, usb, chainVars>>

Init ==
    /\ StoreInit
    /\ calls = [c \in Calls |-> IdleCall]
    /\ demo \in BOOLEAN
    /\ persona = NoPersona
    /\ active = None
    /\ usb = FALSE
    /\ pool = {}
    /\ mined = {}
    /\ minedNonce = [a \in Accounts |-> 0]

\* Every step a call takes after its first await.
Resume(c) ==
    \/ PreviewStatus(c) \/ PreviewNonce(c) \/ PreviewRpcError(c)
    \/ PreviewSimulate(c) \/ PreviewCommit(c)
    \/ SendStatus(c) \/ SendReply(c) \/ SendRejected(c) \/ SendFails(c)
    \/ OpenDevice(c) \/ DeviceAnswers(c)
    \/ NodeAccepts(c) \/ SignatureRefused(c) \/ BroadcastReply(c) \/ BroadcastError(c)

Begin(c) ==
    \E h \in Handles :
        /\ issued[h] # None
        /\ \/ PreviewRefuse(c, h)
           \/ PreviewStart(c, h)
           \/ Cancel(c, h)
           \/ \E tok \in Minted \cup {None} : SendRefuse(c, h, tok) \/ SendStart(c, h, tok)

Environment ==
    \/ \E c \in Calls : WalletApprove(c) \/ WalletReject(c)
    \/ \E t \in pool : Mine(t)
    \/ \E a \in Accounts \cup {None} : SelectAccount(a)
    \/ PairUsb
    \/ SetDemoWallet
    \/ Tick
    \/ Restart

Next ==
    \/ \E h \in Handles, shape \in Shapes : Prepare(h, shape)
    \/ \E h \in Handles : Verify(h)
    \/ \E c \in Calls : Begin(c) \/ Resume(c)
    \/ Environment

Spec == Init /\ [][Next]_vars

-----------------------------------------------------------------------------
(* Properties                                                               *)

TypeOK ==
    /\ store \in [Handles -> HandleRecord \cup {None}]
    /\ issued \in [Handles -> Shapes \cup {None}]
    /\ now \in Nat
    /\ calls \in [Calls -> Call]
    /\ demo \in BOOLEAN
    /\ persona \in [evm : Accounts \cup {None}, device : BOOLEAN]
    /\ active \in Accounts \cup {None}
    /\ usb \in BOOLEAN
    /\ pool \subseteq Tx
    /\ mined \subseteq pool
    /\ minedNonce \in [Accounts -> Nat]

Sends == {c \in Calls : calls[c].op = "send"}

\* Previews that pinned their token.
Pinned == {c \in Calls : calls[c].op = "preview" /\ calls[c].tok # None}

Asked == {c \in Sends : calls[c].req # "none"}

Out == {c \in Sends : calls[c].req = "out"}

\* Every request a wallet or device is asked to sign carries the nonce that one
\* preview of the same handle pinned under the very token the call presented,
\* though other previews may have re-pinned the handle since (send_transaction
\* captures `pinned` before its awaits).
SignedWhatWasPreviewed ==
    \A c \in Asked : \E p \in Pinned :
        /\ calls[p].h = calls[c].h
        /\ calls[p].tok = calls[c].tok
        /\ calls[p].nonce = calls[c].nonce

\* A send_transaction repeated with the same token after a lost answer cannot
\* make the same account pay twice: the nonce is pinned, never read again.
RetryPaysOnce ==
    \A c, d \in Out :
        /\ calls[c].tok = calls[d].tok
        /\ calls[c].from = calls[d].from
        /\ {TxOf(c), TxOf(d)} \subseteq mined
        => TxOf(c) = TxOf(d)

\* At most one call per handle reports a broadcast as recorded, though several
\* may have had theirs confirmed by the wallet at once.
OneSuccess ==
    \A c, d \in Sends :
        calls[c].res = "sent" /\ calls[d].res = "sent" /\ calls[c].h = calls[d].h => c = d

\* What send_transaction answers is true of its own request: a reported broadcast is
\* on the network; a rejection, a device that is not there or an internal error, from
\* whichever of its exits, before the request was made or after the device signed,
\* means that nothing of this call is on the network or can still get there; and a
\* refusal or a simulation means that no signer was asked.
AnswerTrue(c) ==
    LET Denials   == {"LEDGER_REJECTED", "LEDGER_NOT_CONNECTED", "APP_NOT_OPEN",
                      "INTERNAL_ERROR"}
        Broadcast == {"sent", "UNRECORDED"}
        Unknown   == {"BROADCAST_FAILED", "lost"}
    IN  calls[c].pc = "done" =>
            /\ calls[c].res \in Broadcast => calls[c].req = "out" /\ TxOf(c) \in pool
            /\ calls[c].res \in Denials => calls[c].req \notin {"pending", "out"}
            /\ calls[c].res \notin Broadcast \cup Denials \cup Unknown => calls[c].req = "none"

AnswersAreTrue == \A c \in Sends : AnswerTrue(c)

\* No transaction reaches a signer unless its target passed the preview's
\* allowlist, whatever is re-previewed or cancelled around it.
OnlyAllowedSigned ==
    \A c \in Asked : ~Refused(issued[calls[c].h]) /\ issued[calls[c].h].kind # "safe"

\* In demo mode no call ever asks a wallet or device to sign.
DemoNeverSigns ==
    [][\A c \in Calls : demo /\ calls[c].req = "none" => calls'[c].req = "none"]_vars

\* The pipeline keeps the handle's contract (module HandleContract).
lifeOf == [h \in Handles |-> IF issued[h] = None THEN "absent"
                             ELSE IF store[h] = None THEN "gone"
                             ELSE store[h].status]

HC == INSTANCE HandleContract WITH
        st <- lifeOf,
        shown <- {calls[c].h : c \in Pinned},
        out <- {t.h : t \in pool}

Contract == HC!HCSpec

\* A handle that passed the preview's checks on its target.
Vetted(h) == /\ issued[h] # None
             /\ ~Refused(issued[h])
             /\ issued[h].kind # "safe"

\* A preview pinned (tok, nonce) for handle h.
PinnedAs(h, tok, nonce) ==
    \E p \in Pinned : calls[p].h = h /\ calls[p].tok = tok /\ calls[p].nonce = nonce

\* What a record of the store relies on.
RecordInv ==
    \A h \in Handles : Held(h) =>
        /\ issued[h] # None
        /\ store[h].status = "previewed" =>
             /\ Vetted(h)
             /\ store[h].pinned # None
             /\ PinnedAs(h, store[h].pinned.token, store[h].pinned.nonce)

\* What a preview relies on while it is suspended, and leaves behind.
PreviewCallInv(c) ==
    /\ calls[c].pc \in {"pstatus", "pnonce", "psim", "pcommit"} =>
         /\ calls[c].op = "preview"
         /\ calls[c].h # None
         /\ calls[c].tok = None
         /\ Vetted(calls[c].h)
    /\ calls[c].pc = "pnonce" => calls[c].from # None
    /\ calls[c].op = "preview" => calls[c].req = "none"
    /\ c \in Pinned => calls[c].pc = "done" /\ calls[c].h # None

PreviewInv == \A c \in Calls : PreviewCallInv(c)

\* Tokens are fresh when minted.
TokenInv == \A p, q \in Pinned : calls[p].tok = calls[q].tok => p = q

\* What a send relies on from its guards to its end.
SendCallInv(c) ==
    /\ calls[c].pc \in {"status", "wallet", "opening", "device", "broadcast", "accepted"}
       \/ calls[c].req # "none" =>
         /\ calls[c].op = "send"
         /\ calls[c].h # None
         /\ calls[c].tok # None
         /\ Vetted(calls[c].h)
         /\ PinnedAs(calls[c].h, calls[c].tok, calls[c].nonce)
    /\ calls[c].pc \in {"idle", "status", "opening"} => calls[c].req = "none"
    /\ calls[c].pc = "wallet" => calls[c].req # "none" /\ calls[c].from # None
    /\ calls[c].pc = "opening" => calls[c].from = None
    /\ calls[c].pc = "device" => calls[c].req = "pending" /\ calls[c].from = None
    /\ calls[c].pc = "broadcast" => calls[c].req = "signed" /\ calls[c].from = None
    /\ calls[c].pc = "accepted" => calls[c].req = "out" /\ calls[c].from = None
    /\ calls[c].req = "out" => TxOf(c) \in pool
    /\ calls[c].pc # "done" => calls[c].res = "none"

SendInv == \A c \in Calls : SendCallInv(c)

\* A recorded broadcast leaves its handle sent, or forgotten.
SuccessInv ==
    \A c \in Sends : calls[c].res = "sent" =>
        /\ calls[c].h # None
        /\ issued[calls[c].h] # None
        /\ Held(calls[c].h) => store[calls[c].h].status = "sent"

\* The inductive invariant.
IInv ==
    /\ TypeOK
    /\ RecordInv
    /\ PreviewInv
    /\ TokenInv
    /\ SendInv
    /\ SuccessInv
    /\ OneSuccess
    /\ AnswersAreTrue

\* prepare_native_send.ts:93, "Pass `from` when the user wants to act from a
\* non-default approved account": the wallet is asked to sign for the account that
\* was named when the handle was prepared.
SenderIsPrepared ==
    \A c \in Asked :
        issued[calls[c].h].from # None => calls[c].from = issued[calls[c].h].from
=============================================================================
