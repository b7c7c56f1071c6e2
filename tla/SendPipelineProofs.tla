------------------------- MODULE SendPipelineProofs -------------------------
(***************************************************************************)
(* What TLAPS proves of SendPipeline, for every set of handles, tokens,     *)
(* calls, accounts and shapes and every TTL.                                *)
(***************************************************************************)
EXTENDS SendPipeline, TLAPS

\* The transitions of the store keep its type, whatever their outcome.
LEMMA LookedType ==
    ASSUME TypeOK, NEW h \in Handles
    PROVE  Looked(h) \in [Handles -> HandleRecord \cup {None}]
  BY DEF TypeOK, Looked

\* Pinning a preview keeps the type of the store.
LEMMA PreviewedType ==
    ASSUME TypeOK, NEW h \in Handles, NEW pin \in PreviewPinned,
           TransitionToPreviewed(h, pin)
    PROVE  store' \in [Handles -> HandleRecord \cup {None}]
<1>1. CASE PreviewOutcome(h) = "ok"
  <2>1. Held(h) /\ store[h] \in HandleRecord
    BY <1>1 DEF PreviewOutcome, Lookup, TypeOK, Held
  <2>2. [store[h] EXCEPT !.status = "previewed", !.pinned = pin] \in HandleRecord
    BY <2>1 DEF HandleRecord
  <2> QED BY <1>1, <2>2 DEF TransitionToPreviewed, TypeOK
<1> QED BY <1>1, LookedType DEF TransitionToPreviewed

\* So do the two transitions that end a handle.
LEMMA EndedType ==
    ASSUME TypeOK, NEW h \in Handles, TransitionToSent(h) \/ TransitionToCancelled(h)
    PROVE  store' \in [Handles -> HandleRecord \cup {None}]
<1>1. ASSUME Held(h), NEW s \in {"sent", "cancelled"}
      PROVE  [store[h] EXCEPT !.status = s] \in HandleRecord
  <2>1. store[h] \in HandleRecord
    BY <1>1 DEF TypeOK, Held
  <2> QED BY <2>1, <1>1 DEF HandleRecord
<1>2. CASE store' = Looked(h)
  BY <1>2, LookedType
<1>3. ASSUME Held(h), NEW s \in {"sent", "cancelled"},
             store' = [store EXCEPT ![h].status = s]
      PROVE  store' \in [Handles -> HandleRecord \cup {None}]
  BY <1>1, <1>3 DEF TypeOK
<1>4. \/ store' = Looked(h)
      \/ Held(h) /\ store' = [store EXCEPT ![h].status = "sent"]
      \/ Held(h) /\ store' = [store EXCEPT ![h].status = "cancelled"]
  BY DEF TransitionToSent, TransitionToCancelled, SentOutcome, CancelOutcome, Lookup
<1> QED BY <1>2, <1>3, <1>4

\* The constants of a call's fields, so that the sets stay folded elsewhere.
LEMMA Names ==
    /\ "none" \in Ops /\ "preview" \in Ops /\ "send" \in Ops /\ "cancel" \in Ops
    /\ "idle" \in PCs /\ "pstatus" \in PCs /\ "pnonce" \in PCs /\ "psim" \in PCs
    /\ "pcommit" \in PCs /\ "status" \in PCs /\ "wallet" \in PCs /\ "device" \in PCs
    /\ "opening" \in PCs
    /\ "broadcast" \in PCs /\ "accepted" \in PCs /\ "done" \in PCs
    /\ "none" \in Reqs /\ "pending" \in Reqs /\ "signed" \in Reqs /\ "out" \in Reqs
    /\ "rejected" \in Reqs
    /\ "none" \in Results /\ "previewed" \in Results
    /\ "sent" \in Results /\ "cancelled" \in Results
    /\ "simulated" \in Results /\ "lost" \in Results
    /\ "HANDLE_NOT_FOUND" \in Results /\ "HANDLE_EXPIRED" \in Results
    /\ "WRONG_HANDLE_KIND" \in Results /\ "PREVIEW_REQUIRED" \in Results
    /\ "WRONG_STATUS" \in Results /\ "PREVIEW_TOKEN_MISMATCH" \in Results
    /\ "DISPATCH_TARGET_REFUSED" \in Results /\ "SIMULATION_REFUSED" \in Results
    /\ "RPC_ERROR" \in Results /\ "WALLET_NOT_PAIRED" \in Results
    /\ "WRONG_MODE" \in Results /\ "LEDGER_REJECTED" \in Results
    /\ "LEDGER_NOT_CONNECTED" \in Results /\ "APP_NOT_OPEN" \in Results
    /\ "BROADCAST_FAILED" \in Results
    /\ "INTERNAL_ERROR" \in Results /\ "UNRECORDED" \in Results
  BY DEF Ops, PCs, Reqs, Results

\* A call is a record of Call.
LEMMA CallIn == ASSUME TypeOK, NEW c \in Calls PROVE calls[c] \in Call
  BY DEF TypeOK

\* Ending a call keeps the type of the calls.
LEMMA FinishType ==
    ASSUME TypeOK, NEW c \in Calls, NEW res \in Results, Finish(c, res)
    PROVE  calls' \in [Calls -> Call]
<1>1. calls[c] \in Call
  BY CallIn
<1> QED BY <1>1, Names DEF TypeOK, Call, Finish

\* So does answering at once.
LEMMA AnswerType ==
    ASSUME TypeOK, NEW c \in Calls, NEW h \in Handles, NEW op \in Ops, NEW res \in Results,
           Answer(c, op, h, res)
    PROVE  calls' \in [Calls -> Call]
<1>1. [IdleCall EXCEPT !.op = op, !.pc = "done", !.h = h, !.res = res] \in Call
  BY Names DEF Call, IdleCall
<1> QED BY <1>1 DEF TypeOK, Answer

\* What the guards and the transitions answer is a result, or "ok".
LEMMA GuardResults ==
    ASSUME NEW h \in Handles, NEW tok
    PROVE  /\ PreviewGuard(h) \in Results \cup {"ok"}
           /\ HandleGuard(h) \in Results \cup {"ok"}
           /\ SendGuard(h, tok) \in Results \cup {"ok"}
           /\ PreviewOutcome(h) \in Results \cup {"ok"}
           /\ SentOutcome(h) \in Results \cup {"ok"}
<1>1. Lookup(h) \in {"ok", "HANDLE_NOT_FOUND", "HANDLE_EXPIRED"}
  BY DEF Lookup
<1>2. HandleGuard(h) \in Results \cup {"ok"}
  BY <1>1, Names DEF HandleGuard
<1>3. PreviewGuard(h) \in Results \cup {"ok"}
  BY <1>1, Names DEF PreviewGuard
<1>4. SendGuard(h, tok) \in Results \cup {"ok"}
  BY <1>2, Names DEF SendGuard
<1> QED BY <1>1, <1>2, <1>3, <1>4, Names DEF PreviewOutcome, SentOutcome

\* A send that passed its guards works on a vetted handle and its pinned token.
LEMMA SendGuardOk ==
    ASSUME TypeOK, RecordInv, NEW h \in Handles, NEW tok, SendGuard(h, tok) = "ok"
    PROVE  /\ Held(h)
           /\ store[h].status = "previewed"
           /\ Vetted(h)
           /\ store[h].pinned \in PreviewPinned
           /\ tok = store[h].pinned.token
           /\ tok \in Tokens
           /\ store[h].pinned.nonce \in Nat
           /\ ~demo
           /\ PinnedAs(h, tok, store[h].pinned.nonce)
<1>1. /\ Held(h)
      /\ store[h].status \notin {"prepared", "sent", "cancelled"}
      /\ tok = store[h].pinned.token
      /\ ~demo
  BY DEF SendGuard, HandleGuard, Lookup, Terminal
<1>2. store[h] \in HandleRecord
  BY <1>1 DEF TypeOK, Held
<1>3. store[h].status = "previewed"
  BY <1>1, <1>2 DEF HandleRecord
<1>4. store[h].pinned # None /\ Vetted(h) /\ PinnedAs(h, store[h].pinned.token, store[h].pinned.nonce)
  BY <1>1, <1>3 DEF RecordInv
<1>5. store[h].pinned \in PreviewPinned
  BY <1>2, <1>4 DEF HandleRecord
<1>6. store[h].pinned.token \in Tokens /\ store[h].pinned.nonce \in Nat
  BY <1>5 DEF PreviewPinned
<1> QED BY <1>1, <1>3, <1>4, <1>5, <1>6

\* Minted tokens are tokens.
LEMMA MintedType == ASSUME TypeOK PROVE Minted \subseteq Tokens
  BY CallIn DEF Minted, Call

\* Every step changes the calls to calls.
LEMMA CallsType ==
    ASSUME TypeOK, RecordInv, PreviewInv, SendInv, Next
    PROVE  calls' \in [Calls -> Call]
<1>1. ASSUME NEW c \in Calls, NEW h \in Handles,
             \/ PreviewRefuse(c, h)
             \/ Cancel(c, h)
             \/ \E tok \in Minted \cup {None} : SendRefuse(c, h, tok)
      PROVE  calls' \in [Calls -> Call]
  BY <1>1, GuardResults, AnswerType, Names DEF PreviewRefuse, Cancel, SendRefuse
<1>2. ASSUME NEW c \in Calls, NEW h \in Handles, PreviewStart(c, h)
      PROVE  calls' \in [Calls -> Call]
  <2>1. PreviewFirstAwait(h) \in PCs /\ persona.evm \in Accounts \cup {None}
    BY Names DEF PreviewFirstAwait, TypeOK
  <2>2. [IdleCall EXCEPT !.op = "preview", !.h = h, !.pc = PreviewFirstAwait(h),
                         !.from = IF PreviewFirstAwait(h) = "pnonce"
                                  THEN persona.evm ELSE None] \in Call
    BY <2>1, Names DEF Call, IdleCall
  <2> QED BY <1>2, <2>2 DEF PreviewStart, TypeOK
<1>3. ASSUME NEW c \in Calls, NEW h \in Handles, NEW tok \in Minted \cup {None},
             SendStart(c, h, tok)
      PROVE  calls' \in [Calls -> Call]
  <2>1. tok \in Tokens /\ store[h].pinned.nonce \in Nat
    BY <1>3, SendGuardOk DEF SendStart
  <2>2. [IdleCall EXCEPT !.op = "send", !.h = h, !.tok = tok,
                         !.nonce = store[h].pinned.nonce,
                         !.pc = IF issued[h].kind = "evm" THEN "status" ELSE "opening"] \in Call
    BY <2>1, Names DEF Call, IdleCall
  <2> QED BY <1>3, <2>2 DEF SendStart, TypeOK
<1>4. ASSUME NEW c \in Calls, Resume(c) PROVE calls' \in [Calls -> Call]
  <2>1. calls[c] \in Call
    BY CallIn
  <2>2. \A res \in Results : Finish(c, res) => calls' \in [Calls -> Call]
    BY FinishType
  <2>3. CASE PreviewStatus(c)
    BY <2>1, <2>2, <2>3, Names DEF PreviewStatus, TypeOK, Call
  <2>4. CASE PreviewNonce(c)
    <3>1. PICK n \in 0 .. MaxNonce :
            calls' = [calls EXCEPT ![c].pc = "pcommit", ![c].nonce = n]
      BY <2>4 DEF PreviewNonce
    <3>2. n \in Nat
      BY PipelineAssumption
    <3> QED BY <2>1, <3>1, <3>2, Names DEF TypeOK, Call
  <2>5. CASE PreviewRpcError(c)
    BY <2>2, <2>5, Names DEF PreviewRpcError
  <2>6. CASE PreviewSimulate(c)
    BY <2>1, <2>2, <2>6, Names DEF PreviewSimulate, TypeOK, Call
  <2>7. CASE PreviewCommit(c)
    <3>1. PICK t \in Tokens \ Minted :
            IF PreviewOutcome(calls[c].h) = "ok"
            THEN \E res \in {"previewed", "INTERNAL_ERROR"} :
                   calls' = [calls EXCEPT ![c].pc = "done", ![c].tok = t, ![c].res = res]
            ELSE Finish(c, PreviewOutcome(calls[c].h))
      BY <2>7 DEF PreviewCommit
    <3>2. CASE PreviewOutcome(calls[c].h) = "ok"
      <4>1. PICK res \in {"previewed", "INTERNAL_ERROR"} :
              calls' = [calls EXCEPT ![c].pc = "done", ![c].tok = t, ![c].res = res]
        BY <3>1, <3>2
      <4>2. res \in Results
        BY Names
      <4>3. [calls[c] EXCEPT !.pc = "done", !.tok = t, !.res = res] \in Call
        BY <2>1, <4>2, Names DEF Call
      <4> QED BY <4>1, <4>3 DEF TypeOK
    <3>3. CASE PreviewOutcome(calls[c].h) # "ok"
      <4>1. calls[c].h \in Handles
        BY <2>1, <2>7 DEF PreviewCommit, PreviewInv, PreviewCallInv, Call
      <4>2. PreviewOutcome(calls[c].h) \in Results
        BY <3>3, <4>1, GuardResults
      <4>3. Finish(c, PreviewOutcome(calls[c].h))
        BY <3>1, <3>3
      <4> QED BY <4>2, <4>3, FinishType
    <3> QED BY <3>2, <3>3
  <2>8. CASE SendStatus(c)
    BY <2>1, <2>2, <2>8, Names DEF SendStatus, TypeOK, Call
  <2>9. CASE SendReply(c) \/ BroadcastReply(c)
    BY <2>2, <2>9, Names DEF SendReply, BroadcastReply, Record
  <2>10. CASE SendRejected(c) \/ SendFails(c) \/ BroadcastError(c) \/ SignatureRefused(c)
    BY <2>2, <2>10, Names DEF SendRejected, SendFails, BroadcastError, SignatureRefused
  <2>11. CASE OpenDevice(c)
    BY <2>1, <2>2, <2>11, Names DEF OpenDevice, TypeOK, Call
  <2>13. CASE DeviceAnswers(c)
    <3>1. PICK pc \in PCs, req \in Reqs, res \in Results :
            calls' = [calls EXCEPT ![c].pc = pc, ![c].req = req, ![c].res = res]
      BY <2>13, Names DEF DeviceAnswers
    <3>2. [calls[c] EXCEPT !.pc = pc, !.req = req, !.res = res] \in Call
      BY <2>1 DEF Call
    <3> QED BY <3>1, <3>2 DEF TypeOK
  <2>12. CASE NodeAccepts(c)
    BY <2>1, <2>12, Names DEF NodeAccepts, TypeOK, Call
  <2> QED BY <1>4, <2>3, <2>4, <2>5, <2>6, <2>7, <2>8, <2>9, <2>10, <2>11, <2>12,
           <2>13 DEF Resume
<1>5. ASSUME NEW c \in Calls, WalletApprove(c) \/ WalletReject(c)
      PROVE  calls' \in [Calls -> Call]
  <2>1. calls[c] \in Call
    BY CallIn
  <2>2. \A r \in Reqs : [calls[c] EXCEPT !.req = r] \in Call
    BY <2>1 DEF Call
  <2>3. \E r \in Reqs : calls' = [calls EXCEPT ![c].req = r]
    BY <1>5, Names DEF WalletApprove, WalletReject
  <2> QED BY <2>2, <2>3 DEF TypeOK
<1>6. CASE Restart
  <2>1. ASSUME NEW c \in Calls PROVE [calls[c] EXCEPT !.pc = "done", !.res = "lost"] \in Call
    <3>1. calls[c] \in Call
      BY CallIn
    <3> QED BY <3>1, Names DEF Call
  <2> QED BY <1>6, <2>1, CallIn DEF Restart
<1>7. CASE UNCHANGED calls
  BY <1>7 DEF TypeOK
<1>8. \/ UNCHANGED calls
      \/ Restart
      \/ \E c \in Calls : WalletApprove(c) \/ WalletReject(c) \/ Begin(c) \/ Resume(c)
  BY DEF Next, Environment, Prepare, Verify, Mine, SelectAccount, PairUsb, SetDemoWallet, Tick
<1> QED BY <1>1, <1>2, <1>3, <1>4, <1>5, <1>6, <1>7, <1>8 DEF Begin

\* Every step changes the store to a store.
LEMMA StoreType ==
    ASSUME TypeOK, PreviewInv, SendInv, Next
    PROVE  store' \in [Handles -> HandleRecord \cup {None}]
<1>1. ASSUME NEW h \in Handles, store' = Looked(h)
      PROVE  store' \in [Handles -> HandleRecord \cup {None}]
  BY <1>1, LookedType
<1>2. ASSUME NEW h \in Handles, TransitionToSent(h) \/ TransitionToCancelled(h)
      PROVE  store' \in [Handles -> HandleRecord \cup {None}]
  BY <1>2, EndedType
<1>3. ASSUME NEW h \in Handles, NEW shape \in Shapes, Prepare(h, shape)
      PROVE  store' \in [Handles -> HandleRecord \cup {None}]
  <2>1. [status |-> "prepared", createdAt |-> now, pinned |-> None] \in HandleRecord
    BY DEF TypeOK, HandleRecord
  <2> QED BY <1>3, <2>1 DEF TypeOK, Prepare, CreateHandle
<1>4. ASSUME NEW c \in Calls, PreviewCommit(c)
      PROVE  store' \in [Handles -> HandleRecord \cup {None}]
  <2>1. calls[c].h \in Handles /\ calls[c].nonce \in Nat
    BY <1>4, CallIn DEF PreviewCommit, PreviewInv, PreviewCallInv, Call
  <2>2. PICK t \in Tokens :
          TransitionToPreviewed(calls[c].h, [token |-> t, nonce |-> calls[c].nonce])
    BY <1>4 DEF PreviewCommit
  <2>3. [token |-> t, nonce |-> calls[c].nonce] \in PreviewPinned
    BY <2>1 DEF PreviewPinned
  <2> QED BY <2>1, <2>2, <2>3, PreviewedType
<1>5. ASSUME NEW c \in Calls, SendReply(c) \/ BroadcastReply(c)
      PROVE  store' \in [Handles -> HandleRecord \cup {None}]
  <2>1. calls[c].h \in Handles
    BY <1>5, CallIn DEF SendReply, BroadcastReply, SendInv, SendCallInv, Call
  <2> QED BY <1>2, <1>5, <2>1 DEF SendReply, BroadcastReply, Record
<1>6. CASE StoreLost
  BY <1>6 DEF StoreLost
<1>7. CASE UNCHANGED store
  BY <1>7 DEF TypeOK
<1>8. ASSUME NEW c \in Calls, Resume(c), ~PreviewCommit(c), ~SendReply(c), ~BroadcastReply(c)
      PROVE  UNCHANGED store
  BY <1>8 DEF Resume, storeVars, PreviewStatus, PreviewNonce, PreviewRpcError, PreviewSimulate,
              SendStatus, SendRejected, SendFails,
              OpenDevice, DeviceAnswers, SignatureRefused, NodeAccepts, BroadcastError
<1>9. ASSUME NEW c \in Calls, Begin(c)
      PROVE  store' \in [Handles -> HandleRecord \cup {None}]
  BY <1>1, <1>2, <1>7, <1>9 DEF Begin, PreviewRefuse, PreviewStart, Cancel, SendRefuse, SendStart,
                                storeVars
<1>10. CASE Environment
  BY <1>6, <1>7, <1>10 DEF Environment, WalletApprove, WalletReject, Mine, SelectAccount,
                           PairUsb, SetDemoWallet, Tick, Restart, storeVars
<1> QED BY <1>1, <1>3, <1>4, <1>5, <1>7, <1>8, <1>9, <1>10 DEF Next, Verify

\* Every step keeps every type.
LEMMA TypeStep ==
    ASSUME TypeOK, RecordInv, PreviewInv, SendInv, [Next]_vars
    PROVE  TypeOK'
<1>1. CASE UNCHANGED vars
  BY <1>1 DEF TypeOK, vars, storeVars, walletVars, chainVars
<1>2. CASE Next
  <2>1. calls' \in [Calls -> Call] /\ store' \in [Handles -> HandleRecord \cup {None}]
    BY <1>2, CallsType, StoreType
  <2> DEFINE Rest == /\ issued' \in [Handles -> Shapes \cup {None}]
                     /\ now' \in Nat
                     /\ demo' \in BOOLEAN
                     /\ persona' \in [evm : Accounts \cup {None}, device : BOOLEAN]
                     /\ active' \in Accounts \cup {None}
                     /\ usb' \in BOOLEAN
                     /\ pool' \subseteq Tx
                     /\ mined' \subseteq pool'
                     /\ minedNonce' \in [Accounts -> Nat]
  <2> USE DEF storeVars, walletVars, chainVars
  <2>2. ASSUME NEW c \in Calls, Begin(c) \/ Resume(c), ~NodeAccepts(c) PROVE Rest
    BY <2>2 DEF TypeOK, Begin, Resume, PreviewRefuse, PreviewStart, Cancel, SendRefuse,
                SendStart, PreviewStatus, PreviewNonce, PreviewRpcError, PreviewSimulate,
                PreviewCommit, SendStatus, SendReply, SendRejected, SendFails,
                OpenDevice, DeviceAnswers, SignatureRefused,
                BroadcastReply, BroadcastError
  <2>3. ASSUME NEW c \in Calls, NodeAccepts(c) \/ WalletApprove(c) PROVE Rest
    <3>1. TxOf(c) \in Tx
      BY <2>3, CallIn DEF NodeAccepts, WalletApprove, SendInv, SendCallInv, TxOf, Tx, Call
    <3> QED BY <2>3, <3>1 DEF TypeOK, NodeAccepts, WalletApprove
  <2>4. ASSUME NEW t \in pool, Mine(t) PROVE Rest
    <3>1. t.from \in Accounts
      BY <2>4 DEF Mine, TypeOK, Tx
    <3> QED BY <2>4, <3>1 DEF TypeOK, Mine
  <2>5. ASSUME NEW h \in Handles, (\E shape \in Shapes : Prepare(h, shape)) \/ Verify(h)
        PROVE  Rest
    BY <2>5 DEF TypeOK, Prepare, CreateHandle, Verify
  <2>6. ASSUME Environment, ~(\E c \in Calls : WalletApprove(c)), ~(\E t \in pool : Mine(t))
        PROVE  Rest
    <3>1. CASE Restart
      <4>1. demo' \in BOOLEAN /\ active' \in Accounts \cup {None} /\ persona' = NoPersona
        BY <3>1 DEF TypeOK, Restart
      <4>2. NoPersona \in [evm : Accounts \cup {None}, device : BOOLEAN]
        BY DEF NoPersona
      <4>3. UNCHANGED <<issued, now, usb, pool, mined, minedNonce>>
        BY <3>1 DEF Restart
      <4>4. /\ issued \in [Handles -> Shapes \cup {None}] /\ now \in Nat /\ usb \in BOOLEAN
            /\ pool \subseteq Tx /\ mined \subseteq pool
            /\ minedNonce \in [Accounts -> Nat]
        BY DEF TypeOK
      <4> QED BY <4>1, <4>2, <4>3, <4>4, Zenon
    <3>2. CASE Tick
      BY <3>2 DEF TypeOK, Tick
    <3>3. CASE SetDemoWallet
      BY <3>3 DEF TypeOK, SetDemoWallet
    <3>4. CASE PairUsb \/ \E a \in Accounts \cup {None} : SelectAccount(a)
      BY <3>4 DEF TypeOK, PairUsb, SelectAccount
    <3>5. ASSUME NEW c \in Calls, WalletReject(c) PROVE Rest
      BY <3>5 DEF TypeOK, WalletReject
    <3> HIDE DEF Rest
    <3> QED BY <2>6, <3>1, <3>2, <3>3, <3>4, <3>5 DEF Environment
  <2> HIDE DEF Rest
  <2>7. Rest
    BY <1>2, <2>2, <2>3, <2>4, <2>5, <2>6 DEF Next, Environment
  <2> QED BY <2>1, <2>7 DEF TypeOK, Rest
<1> QED BY <1>1, <1>2

-----------------------------------------------------------------------------
(* What a step leaves alone                                                 *)

Acts(c) == Begin(c) \/ Resume(c) \/ WalletApprove(c) \/ WalletReject(c)

\* Unless the process restarts, at most one call changes.
LEMMA OneActs ==
    ASSUME TypeOK, Next, ~Restart, ~UNCHANGED calls
    PROVE  \E c \in Calls : Acts(c) /\ \A d \in Calls \ {c} : calls'[d] = calls[d]
<1>1. \E c \in Calls : Acts(c)
  BY DEF Next, Environment, Acts, Prepare, Verify, Mine, SelectAccount, PairUsb,
         SetDemoWallet, Tick
<1>2. ASSUME NEW c \in Calls, Begin(c), NEW d \in Calls \ {c} PROVE calls'[d] = calls[d]
  BY <1>2 DEF TypeOK, Begin, PreviewRefuse, PreviewStart, Cancel, SendRefuse, SendStart, Answer
<1>3. ASSUME NEW c \in Calls, Resume(c), NEW d \in Calls \ {c} PROVE calls'[d] = calls[d]
  BY <1>3 DEF TypeOK, Resume, PreviewStatus, PreviewNonce, PreviewRpcError, PreviewSimulate,
              PreviewCommit, SendStatus, SendReply, SendRejected, SendFails,
              OpenDevice, DeviceAnswers, SignatureRefused,
              NodeAccepts, BroadcastReply, BroadcastError, Record, Finish
<1>4. ASSUME NEW c \in Calls, WalletApprove(c) \/ WalletReject(c), NEW d \in Calls \ {c}
      PROVE  calls'[d] = calls[d]
  BY <1>4 DEF TypeOK, WalletApprove, WalletReject
<1> QED BY <1>1, <1>2, <1>3, <1>4 DEF Acts

\* A call that has ended moves no more, but for its request at the wallet.
LEMMA DoneStays ==
    ASSUME TypeOK, Next, NEW c \in Calls, calls[c].pc = "done", calls[c].req # "pending"
    PROVE  calls'[c] = calls[c]
<1>1. CASE Restart
  BY <1>1 DEF Restart
<1>2. ~Begin(c)
  BY DEF Begin, PreviewRefuse, PreviewStart, Cancel, SendRefuse, SendStart
<1>3. ~Resume(c)
  BY DEF Resume, PreviewStatus, PreviewNonce, PreviewRpcError, PreviewSimulate,
         PreviewCommit, SendStatus, SendReply, SendRejected, SendFails,
         OpenDevice, DeviceAnswers, SignatureRefused,
         NodeAccepts, BroadcastReply, BroadcastError
<1>4. ~WalletApprove(c) /\ ~WalletReject(c)
  BY DEF WalletApprove, WalletReject
<1> QED BY <1>1, <1>2, <1>3, <1>4, OneActs DEF Acts

\* What was prepared under a handle, and what was received, stay.
LEMMA Growing ==
    ASSUME TypeOK, [Next]_vars
    PROVE  /\ pool \subseteq pool'
           /\ \A h \in Handles : issued[h] # None => issued'[h] = issued[h]
<1> USE DEF storeVars, walletVars, chainVars
<1>1. CASE UNCHANGED vars
  BY <1>1 DEF vars
<1>2. ASSUME NEW c \in Calls, Acts(c) PROVE pool \subseteq pool' /\ issued' = issued
  BY <1>2 DEF Acts, Begin, PreviewRefuse, PreviewStart, Cancel, SendRefuse, SendStart,
              Resume, PreviewStatus, PreviewNonce, PreviewRpcError, PreviewSimulate,
              PreviewCommit, SendStatus, SendReply, SendRejected, SendFails,
              OpenDevice, DeviceAnswers, SignatureRefused,
              NodeAccepts, BroadcastReply, BroadcastError, WalletApprove, WalletReject
<1>3. ASSUME NEW h \in Handles, (\E shape \in Shapes : Prepare(h, shape)) \/ Verify(h)
      PROVE  pool \subseteq pool' /\ \A g \in Handles : issued[g] # None => issued'[g] = issued[g]
  BY <1>3 DEF Prepare, CreateHandle, Verify, TypeOK
<1>4. ASSUME Environment, ~(\E c \in Calls : Acts(c))
      PROVE  pool \subseteq pool' /\ issued' = issued
  BY <1>4 DEF Environment, Acts, Mine, SelectAccount, PairUsb, SetDemoWallet, Tick, Restart
<1>5. CASE Next
  BY <1>2, <1>3, <1>4, <1>5 DEF Next, Acts
<1> QED BY <1>1, <1>5

\* A preview that pinned a token keeps it, with its handle and nonce.
LEMMA PinnedStay ==
    ASSUME TypeOK, PreviewInv, [Next]_vars, NEW p \in Pinned
    PROVE  p \in Pinned' /\ calls'[p] = calls[p]
<1>1. /\ p \in Calls
      /\ calls[p].pc = "done"
      /\ calls[p].req = "none"
  BY DEF Pinned, PreviewInv, PreviewCallInv
<1>2. calls'[p] = calls[p]
  BY <1>1, DoneStays DEF vars
<1> QED BY <1>1, <1>2 DEF Pinned

\* A handle that passed the checks on its target keeps having passed them.
LEMMA VettedStays ==
    ASSUME TypeOK, [Next]_vars, NEW h \in Handles, Vetted(h)
    PROVE  Vetted(h)'
  BY Growing DEF Vetted, Refused

\* What a preview pinned stays pinned by it.
LEMMA PinnedAsStays ==
    ASSUME TypeOK, PreviewInv, [Next]_vars, NEW h, NEW tok, NEW nonce, PinnedAs(h, tok, nonce)
    PROVE  PinnedAs(h, tok, nonce)'
  BY PinnedStay DEF PinnedAs

-----------------------------------------------------------------------------
(* The invariant of one call                                                *)

CallInv(c) ==
    /\ PreviewCallInv(c)
    /\ SendCallInv(c)
    /\ calls[c].op = "send" => AnswerTrue(c)

CallsInv == \A c \in Calls : CallInv(c)

\* A step that leaves a call alone keeps its invariant.
LEMMA IdleCallInv ==
    ASSUME TypeOK, CallsInv, [Next]_vars, NEW c \in Calls, calls'[c] = calls[c]
    PROVE  CallInv(c)'
<1>1. calls[c] \in Call /\ PreviewInv
  BY CallIn DEF CallsInv, CallInv, PreviewInv
<1>2. calls[c].h # None => calls[c].h \in Handles
  BY <1>1 DEF Call
<1>3. calls[c].h # None /\ Vetted(calls[c].h)
      => /\ issued'[calls[c].h] # None
         /\ issued'[calls[c].h] = issued[calls[c].h]
  BY <1>2, Growing DEF Vetted
<1>4. PinnedAs(calls[c].h, calls[c].tok, calls[c].nonce)
      => \E p \in Pinned' : /\ calls'[p].h = calls[c].h
                            /\ calls'[p].tok = calls[c].tok
                            /\ calls'[p].nonce = calls[c].nonce
  BY <1>1, PinnedStay DEF PinnedAs
<1>5. pool \subseteq pool'
  BY Growing
<1>6. PreviewCallInv(c)'
  BY <1>3 DEF CallsInv, CallInv, PreviewCallInv, Vetted, Refused, Pinned
<1>7. SendCallInv(c)'
  BY <1>3, <1>4, <1>5 DEF CallsInv, CallInv, SendCallInv, Vetted, Refused, PinnedAs, TxOf
<1>8. calls'[c].op = "send" => AnswerTrue(c)'
  BY <1>5 DEF CallsInv, CallInv, AnswerTrue, TxOf
<1> QED BY <1>6, <1>7, <1>8 DEF CallInv

\* A restart ends the suspended calls where their invariant lets it.
LEMMA RestartCallInv ==
    ASSUME TypeOK, CallsInv, Restart, NEW c \in Calls PROVE CallInv(c)'
<1>1. CASE calls[c].pc \in {"idle", "done"}
  <2>1. calls'[c] = calls[c]
    BY <1>1 DEF Restart
  <2>2. [Next]_vars
    BY DEF Next, Environment
  <2> QED BY <2>1, <2>2, IdleCallInv
<1>2. CASE calls[c].pc \notin {"idle", "done"}
  <2>1. calls[c] \in Call /\ PreviewInv
    BY CallIn DEF CallsInv, CallInv, PreviewInv
  <2>2. calls'[c] = [calls[c] EXCEPT !.pc = "done", !.res = "lost"]
    BY <1>2 DEF Restart
  <2>3. /\ calls'[c].pc = "done" /\ calls'[c].res = "lost"
        /\ calls'[c].op = calls[c].op /\ calls'[c].h = calls[c].h
        /\ calls'[c].tok = calls[c].tok /\ calls'[c].from = calls[c].from
        /\ calls'[c].nonce = calls[c].nonce /\ calls'[c].req = calls[c].req
    BY <2>1, <2>2 DEF Call
  <2>4. UNCHANGED <<issued, pool>> /\ [Next]_vars
    BY DEF Restart, chainVars, Next, Environment
  <2>5. PinnedAs(calls[c].h, calls[c].tok, calls[c].nonce)
        => \E p \in Pinned' : /\ calls'[p].h = calls[c].h
                              /\ calls'[p].tok = calls[c].tok
                              /\ calls'[p].nonce = calls[c].nonce
    BY <2>1, <2>4, PinnedStay DEF PinnedAs
  <2>6. PreviewCallInv(c)'
    BY <1>2, <2>1, <2>3, <2>4 DEF CallsInv, CallInv, PreviewCallInv, Pinned, Call, PCs
  <2>7. SendCallInv(c)'
    BY <1>2, <2>1, <2>3, <2>4, <2>5
       DEF CallsInv, CallInv, SendCallInv, Vetted, Refused, PinnedAs, TxOf
  <2> QED BY <2>3, <2>6, <2>7 DEF CallInv, AnswerTrue
<1> QED BY <1>1, <1>2

\* A call begins inside its invariant: the guards before the first await give it.
LEMMA BeginCallInv ==
    ASSUME TypeOK, RecordInv, CallsInv, NEW c \in Calls, Begin(c) PROVE CallInv(c)'
<1>1. [Next]_vars /\ PreviewInv
  BY DEF Next, CallsInv, CallInv, PreviewInv
<1>2. issued' = issued
  BY DEF Begin, PreviewRefuse, PreviewStart, Cancel, SendRefuse, SendStart, storeVars
<1>3. ASSUME NEW h \in Handles, NEW op \in {"preview", "send", "cancel"},
             NEW res \in Results \cup {"ok"}, res \notin {"sent", "UNRECORDED",
             "LEDGER_REJECTED", "LEDGER_NOT_CONNECTED", "INTERNAL_ERROR"},
             Answer(c, op, h, res)
      PROVE  CallInv(c)'
  BY <1>3 DEF TypeOK, Answer, IdleCall, CallInv, PreviewCallInv, SendCallInv, AnswerTrue, Pinned
<1>4. ASSUME NEW h \in Handles, PreviewStart(c, h) PROVE CallInv(c)'
  <2>1. Vetted(h)
    BY <1>4 DEF PreviewStart, PreviewGuard, Vetted, Lookup, RecordInv
  <2>2. /\ calls'[c].op = "preview" /\ calls'[c].h = h /\ calls'[c].tok = None
        /\ calls'[c].req = "none" /\ calls'[c].res = "none"
        /\ calls'[c].pc = PreviewFirstAwait(h)
        /\ calls'[c].from = IF PreviewFirstAwait(h) = "pnonce" THEN persona.evm ELSE None
    BY <1>4 DEF PreviewStart, IdleCall, TypeOK
  <2>3. PreviewFirstAwait(h) = "pnonce" => persona.evm # None
    BY <1>4, <2>1, PipelineAssumption DEF PreviewStart, PreviewFirstAwait, PreviewGuard, Vetted, TypeOK
  <2>4. PreviewFirstAwait(h) \in {"psim", "pnonce", "pstatus"}
    BY DEF PreviewFirstAwait
  <2> QED BY <1>2, <2>1, <2>2, <2>3, <2>4, NoneAssumption
          DEF CallInv, PreviewCallInv, SendCallInv, Vetted, Refused, Pinned
<1>5. ASSUME NEW h \in Handles, NEW tok \in Minted \cup {None}, SendStart(c, h, tok)
      PROVE  CallInv(c)'
  <2>1. Vetted(h) /\ tok \in Tokens /\ PinnedAs(h, tok, store[h].pinned.nonce)
    BY <1>5, SendGuardOk DEF SendStart
  <2>2. /\ calls'[c].op = "send" /\ calls'[c].h = h /\ calls'[c].tok = tok
        /\ calls'[c].nonce = store[h].pinned.nonce
        /\ calls'[c].from = None /\ calls'[c].res = "none"
        /\ \/ calls'[c].pc = "status" /\ calls'[c].req = "none"
           \/ calls'[c].pc = "opening" /\ calls'[c].req = "none"
    BY <1>5 DEF SendStart, IdleCall, TypeOK
  <2>3. \E p \in Pinned' : /\ calls'[p].h = h
                           /\ calls'[p].tok = tok
                           /\ calls'[p].nonce = store[h].pinned.nonce
    BY <1>1, <2>1, PinnedStay DEF PinnedAs
  <2>4. PreviewCallInv(c)'
    BY <2>2 DEF PreviewCallInv, Pinned
  <2>5. SendCallInv(c)'
    BY <1>2, <2>1, <2>2, <2>3, NoneAssumption DEF SendCallInv, Vetted, Refused, PinnedAs
  <2> QED BY <2>2, <2>4, <2>5 DEF CallInv, AnswerTrue
<1>6. ASSUME NEW h \in Handles, issued[h] # None, Cancel(c, h) PROVE CallInv(c)'
  BY <1>3, <1>6, Names DEF Cancel, HandleGuard, Lookup
<1>7. ASSUME NEW h \in Handles, PreviewRefuse(c, h) PROVE CallInv(c)'
  BY <1>3, <1>7, Names DEF PreviewRefuse, PreviewGuard, Lookup
<1>8. ASSUME NEW h \in Handles, NEW tok \in Minted \cup {None}, SendRefuse(c, h, tok)
      PROVE  CallInv(c)'
  BY <1>3, <1>8, Names DEF SendRefuse, SendGuard, HandleGuard, Lookup
<1> QED BY <1>4, <1>5, <1>6, <1>7, <1>8 DEF Begin

\* The preview's steps.
LEMMA PreviewStepCallInv ==
    ASSUME TypeOK, CallsInv, NEW c \in Calls, Resume(c),
           calls[c].pc \in {"pstatus", "pnonce", "psim", "pcommit"}
    PROVE  CallInv(c)'
<1>1. /\ calls[c] \in Call
      /\ calls[c].op = "preview" /\ calls[c].h \in Handles /\ calls[c].tok = None
      /\ calls[c].req = "none" /\ calls[c].res = "none" /\ Vetted(calls[c].h)
  BY CallIn DEF CallsInv, CallInv, PreviewCallInv, SendCallInv, Call
<1>2. issued' = issued
  BY DEF Resume, PreviewStatus, PreviewNonce, PreviewRpcError, PreviewSimulate, PreviewCommit,
         SendStatus, SendReply, SendRejected, SendFails,
         OpenDevice, DeviceAnswers, SignatureRefused, NodeAccepts,
         BroadcastReply, BroadcastError, storeVars
<1>3. /\ calls'[c].op = "preview" /\ calls'[c].h = calls[c].h /\ calls'[c].req = "none"
      /\ calls'[c].pc # "done" => calls'[c].tok = None /\ calls'[c].res = "none"
      /\ calls'[c].pc = "pnonce" => calls'[c].from # None
      /\ calls'[c].pc \in {"pnonce", "pcommit", "done"}
  <2>1. CASE PreviewStatus(c)
    BY <1>1, <2>1 DEF PreviewStatus, Finish, TypeOK, Call
  <2>2. CASE PreviewNonce(c)
    BY <1>1, <2>2 DEF PreviewNonce, TypeOK, Call
  <2>3. CASE PreviewRpcError(c)
    BY <1>1, <2>3 DEF PreviewRpcError, Finish, TypeOK, Call
  <2>4. CASE PreviewSimulate(c)
    BY <1>1, <2>4 DEF PreviewSimulate, Finish, TypeOK, Call
  <2>5. CASE PreviewCommit(c)
    BY <1>1, <2>5 DEF PreviewCommit, Finish, TypeOK, Call
  <2> QED BY <2>1, <2>2, <2>3, <2>4, <2>5
          DEF Resume, SendStatus, SendReply, SendRejected, SendFails,
              OpenDevice, DeviceAnswers, SignatureRefused, NodeAccepts,
              BroadcastReply, BroadcastError
<1> QED BY <1>1, <1>2, <1>3, NoneAssumption
        DEF CallInv, PreviewCallInv, SendCallInv, Vetted, Refused, Pinned

\* The steps of a send, and of the wallet it asked.
LEMMA SendStepCallInv ==
    ASSUME TypeOK, CallsInv, NEW c \in Calls,
           \/ /\ Resume(c)
              /\ calls[c].pc \in {"status", "wallet", "opening", "device", "broadcast",
                                  "accepted"}
           \/ WalletApprove(c)
           \/ WalletReject(c)
    PROVE  CallInv(c)'
<1>1. /\ calls[c] \in Call
      /\ calls[c].op = "send" /\ calls[c].h \in Handles /\ calls[c].tok # None
      /\ Vetted(calls[c].h)
      /\ PinnedAs(calls[c].h, calls[c].tok, calls[c].nonce)
  <2>1. calls[c].pc \in {"status", "wallet", "opening", "device", "broadcast", "accepted"}
        \/ calls[c].req # "none"
    BY DEF WalletApprove, WalletReject
  <2> QED BY <2>1, CallIn DEF CallsInv, CallInv, SendCallInv, Call
<1>2. issued' = issued /\ [Next]_vars /\ PreviewInv /\ pool \subseteq pool'
  BY Growing DEF Resume, PreviewStatus, PreviewNonce, PreviewRpcError, PreviewSimulate,
         PreviewCommit, SendStatus, SendReply, SendRejected, SendFails,
         OpenDevice, DeviceAnswers, SignatureRefused, NodeAccepts,
         BroadcastReply, BroadcastError, WalletApprove, WalletReject, storeVars, Next,
         Environment, CallsInv, CallInv, PreviewInv
<1>3. \E p \in Pinned' : /\ calls'[p].h = calls[c].h
                         /\ calls'[p].tok = calls[c].tok
                         /\ calls'[p].nonce = calls[c].nonce
  BY <1>1, <1>2, PinnedStay DEF PinnedAs
<1>4. ASSUME calls'[c].op = "send", calls'[c].h = calls[c].h, calls'[c].tok = calls[c].tok,
             calls'[c].nonce = calls[c].nonce,
             calls'[c].pc \in {"status", "wallet", "opening", "device", "broadcast", "accepted",
                              "done"},
             calls'[c].pc \in {"idle", "status", "opening"} => calls'[c].req = "none",
             calls'[c].pc = "wallet" => calls'[c].req # "none" /\ calls'[c].from # None,
             calls'[c].pc = "device" => calls'[c].req = "pending" /\ calls'[c].from = None,
             calls'[c].pc = "opening" => calls'[c].from = None,
             calls'[c].pc = "broadcast" => calls'[c].req = "signed" /\ calls'[c].from = None,
             calls'[c].pc = "accepted" => calls'[c].req = "out" /\ calls'[c].from = None,
             calls'[c].req = "out" => TxOf(c)' \in pool',
             calls'[c].pc # "done" => calls'[c].res = "none",
             AnswerTrue(c)'
      PROVE  CallInv(c)'
  <2>1. PreviewCallInv(c)'
    BY <1>4 DEF PreviewCallInv, Pinned
  <2>2. Vetted(calls[c].h)' /\ PinnedAs(calls[c].h, calls[c].tok, calls[c].nonce)'
    BY <1>1, <1>2, <1>3, <1>4 DEF Vetted, Refused, PinnedAs
  <2>3. calls'[c].h # None /\ calls'[c].tok # None
    BY <1>1, <1>4, NoneAssumption
  <2>4. SendCallInv(c)'
    BY <1>4, <2>2, <2>3 DEF SendCallInv
  <2> QED BY <1>4, <2>1, <2>4 DEF CallInv
<1>5. CASE SendStatus(c)
  <2>1. calls[c].res = "none" /\ calls[c].req = "none" /\ calls[c].pc = "status"
    BY <1>5 DEF SendStatus, CallsInv, CallInv, SendCallInv
  <2>2. CASE /\ active # None
             /\ calls' = [calls EXCEPT ![c].pc = "wallet", ![c].from = active,
                                       ![c].req = "pending"]
    BY <1>1, <1>4, <2>1, <2>2 DEF TypeOK, Call, AnswerTrue
  <2>3. ASSUME NEW res \in {"WALLET_NOT_PAIRED", "INTERNAL_ERROR"},
               calls' = [calls EXCEPT ![c].pc = "done", ![c].res = res]
        PROVE  CallInv(c)'
    BY <1>1, <1>4, <2>1, <2>3 DEF TypeOK, Call, AnswerTrue
  <2> QED BY <1>5, <2>2, <2>3 DEF SendStatus, Finish
<1>14. ASSUME NEW res \in Results, Finish(c, res), calls[c].req # "none", pool' = pool,
              res \in {"sent", "UNRECORDED"} => calls[c].req = "out",
              res = "LEDGER_REJECTED" => calls[c].req \in {"signed", "rejected"},
              res \in {"sent", "UNRECORDED", "LEDGER_REJECTED", "BROADCAST_FAILED"}
       PROVE  CallInv(c)'
  <2>1. calls'[c] = [calls[c] EXCEPT !.pc = "done", !.res = res] /\ TxOf(c)' = TxOf(c)
    BY <1>1, <1>14 DEF Finish, TypeOK, Call, TxOf
  <2>2. calls[c].req = "out" => TxOf(c) \in pool
    BY DEF CallsInv, CallInv, SendCallInv
  <2>3. AnswerTrue(c)'
    BY <1>1, <1>14, <2>1, <2>2 DEF AnswerTrue, Call
  <2> QED BY <1>1, <1>4, <1>14, <2>1, <2>2, <2>3 DEF Call
<1>6. CASE SendReply(c) \/ BroadcastReply(c)
  <2>1. calls[c].req = "out" /\ pool' = pool
    BY <1>6 DEF SendReply, BroadcastReply, chainVars, CallsInv, CallInv, SendCallInv
  <2>2. PICK res \in {"sent", "UNRECORDED"} : Finish(c, res)
    BY <1>6 DEF SendReply, BroadcastReply, Record
  <2> QED BY <1>14, <2>1, <2>2, Names
<1>7. CASE SendRejected(c)
  BY <1>7, <1>14, Names DEF SendRejected, chainVars
<1>8. CASE SendFails(c) \/ BroadcastError(c) \/ SignatureRefused(c)
  <2>1. /\ \/ Finish(c, "BROADCAST_FAILED")
           \/ Finish(c, "LEDGER_REJECTED") /\ calls[c].req = "signed"
        /\ calls[c].req # "none" /\ pool' = pool
    BY <1>8 DEF SendFails, BroadcastError, SignatureRefused, chainVars, CallsInv, CallInv,
                SendCallInv
  <2> QED BY <1>14, <2>1, Names
<1>9. CASE OpenDevice(c)
  <2>1. /\ calls[c].from = None /\ calls[c].pc = "opening" /\ calls[c].res = "none"
        /\ calls[c].req = "none"
    BY <1>9 DEF OpenDevice, CallsInv, CallInv, SendCallInv
  <2>2. CASE calls' = [calls EXCEPT ![c].pc = "device", ![c].req = "pending"]
    BY <1>1, <1>4, <2>1, <2>2 DEF TypeOK, Call, AnswerTrue
  <2>3. CASE \E res \in {"LEDGER_NOT_CONNECTED", "APP_NOT_OPEN", "LEDGER_REJECTED",
                         "INTERNAL_ERROR", "BROADCAST_FAILED"} : Finish(c, res)
    BY <1>1, <1>4, <2>1, <2>3 DEF Finish, TypeOK, Call, AnswerTrue
  <2> QED BY <1>9, <2>2, <2>3 DEF OpenDevice
<1>13. CASE DeviceAnswers(c)
  <2>1. calls[c].from = None /\ calls[c].pc = "device" /\ calls[c].res = "none"
    BY <1>13 DEF DeviceAnswers, CallsInv, CallInv, SendCallInv
  <2>2. CASE calls' = [calls EXCEPT ![c].pc = "broadcast", ![c].req = "signed",
                                    ![c].res = "none"]
    BY <1>1, <1>4, <2>1, <2>2 DEF TypeOK, Call, AnswerTrue
  <2>3. ASSUME NEW req \in {"signed", "rejected"},
               NEW res \in {"LEDGER_REJECTED", "LEDGER_NOT_CONNECTED", "INTERNAL_ERROR"},
               calls' = [calls EXCEPT ![c].pc = "done", ![c].req = req, ![c].res = res]
        PROVE  CallInv(c)'
    BY <1>1, <1>4, <2>1, <2>3 DEF TypeOK, Call, AnswerTrue
  <2> QED BY <1>13, <2>2, <2>3 DEF DeviceAnswers
<1>10. CASE NodeAccepts(c)
  BY <1>1, <1>4, <1>10
     DEF NodeAccepts, TypeOK, Call, TxOf, CallsInv, CallInv, SendCallInv, AnswerTrue
<1>11. CASE WalletApprove(c)
  <2>1. /\ calls' = [calls EXCEPT ![c].req = "out"]
        /\ calls[c].req = "pending"
        /\ pool' = pool \cup {TxOf(c)}
        /\ calls[c].pc \in {"wallet", "done"}
    BY <1>1, <1>11 DEF WalletApprove, CallsInv, CallInv, PreviewCallInv, SendCallInv, Call, PCs
  <2>2. calls'[c] = [calls[c] EXCEPT !.req = "out"] /\ TxOf(c)' = TxOf(c)
    BY <1>1, <2>1 DEF TypeOK, Call, TxOf
  <2>3. AnswerTrue(c)'
    BY <1>1, <2>1, <2>2 DEF AnswerTrue, CallsInv, CallInv, Call
  <2>4. calls[c].pc = "wallet" => calls[c].from # None /\ calls[c].res = "none"
    BY DEF CallsInv, CallInv, SendCallInv
  <2> QED BY <1>1, <1>4, <2>1, <2>2, <2>3, <2>4 DEF Call
<1>12. CASE WalletReject(c)
  <2>1. /\ calls' = [calls EXCEPT ![c].req = "rejected"]
        /\ calls[c].req = "pending"
        /\ pool' = pool
        /\ calls[c].pc \in {"wallet", "done"}
    BY <1>1, <1>12 DEF WalletReject, chainVars, CallsInv, CallInv, PreviewCallInv, SendCallInv,
                       Call, PCs
  <2>2. calls'[c] = [calls[c] EXCEPT !.req = "rejected"] /\ TxOf(c)' = TxOf(c)
    BY <1>1, <2>1 DEF TypeOK, Call, TxOf
  <2>3. AnswerTrue(c)'
    BY <1>1, <2>1, <2>2 DEF AnswerTrue, CallsInv, CallInv, Call
  <2>4. calls[c].pc = "wallet" => calls[c].from # None /\ calls[c].res = "none"
    BY DEF CallsInv, CallInv, SendCallInv
  <2> QED BY <1>1, <1>4, <2>1, <2>2, <2>3, <2>4 DEF Call
<1> QED BY <1>5, <1>6, <1>7, <1>8, <1>9, <1>10, <1>11, <1>12, <1>13
        DEF Resume, PreviewStatus, PreviewNonce, PreviewRpcError, PreviewSimulate, PreviewCommit

\* No step, of the call or of anyone else, breaks the invariant of a call.
LEMMA CallsInvStep ==
    ASSUME TypeOK, RecordInv, CallsInv, [Next]_vars PROVE CallsInv'
<1> SUFFICES ASSUME NEW d \in Calls PROVE CallInv(d)'
  BY DEF CallsInv
<1>1. CASE calls'[d] = calls[d]
  BY <1>1, IdleCallInv
<1>2. CASE Restart
  BY <1>2, RestartCallInv
<1>3. CASE calls'[d] # calls[d] /\ ~Restart
  <2>1. Acts(d)
    BY <1>3, OneActs DEF vars
  <2>2. CASE Begin(d)
    BY <2>2, BeginCallInv
  <2>3. CASE Resume(d)
    <3>1. calls[d].pc \in {"pstatus", "pnonce", "psim", "pcommit", "status", "wallet",
                           "opening", "device", "broadcast", "accepted"}
      BY <2>3 DEF Resume, PreviewStatus, PreviewNonce, PreviewRpcError, PreviewSimulate,
                  PreviewCommit, SendStatus, SendReply, SendRejected, SendFails,
                  OpenDevice, DeviceAnswers, SignatureRefused,
                  NodeAccepts, BroadcastReply, BroadcastError
    <3> QED BY <2>3, <3>1, PreviewStepCallInv, SendStepCallInv
  <2>4. CASE WalletApprove(d) \/ WalletReject(d)
    BY <2>4, SendStepCallInv
  <2> QED BY <2>1, <2>2, <2>3, <2>4 DEF Acts
<1> QED BY <1>1, <1>2, <1>3

-----------------------------------------------------------------------------
(* What a step does to the record of one handle                             *)

Created(h) ==
    /\ issued[h] = None
    /\ issued'[h] # None
    /\ store'[h] # None
    /\ store'[h].status = "prepared"

Repinned(c, h) ==
    /\ PreviewCommit(c)
    /\ calls[c].h = h
    /\ Held(h) /\ ~Terminal(h)
    /\ store'[h].status = "previewed"
    /\ c \in Pinned'
    /\ calls'[c].h = h
    /\ store'[h].pinned = [token |-> calls'[c].tok, nonce |-> calls'[c].nonce]

Recorded(c, h) ==
    /\ SendReply(c) \/ BroadcastReply(c)
    /\ calls[c].h = h
    /\ Held(h)
    /\ store[h].status = "previewed"
    /\ store'[h] # None
    /\ store'[h].status = "sent"

Cancelled(h) ==
    /\ Held(h)
    /\ store[h].status = "previewed"
    /\ store'[h] # None
    /\ store'[h].status = "cancelled"
    /\ UNCHANGED <<issued, pool>>

\* A lookup keeps every record or drops it.
LEMMA LookedAt ==
    ASSUME TypeOK, NEW h \in Handles, NEW g \in Handles, store' = Looked(g)
    PROVE  store'[h] \in {store[h], None}
  BY DEF TypeOK, Looked

\* A step keeps the record of a handle, drops it, or is one of the four writes.
LEMMA HandleStep ==
    ASSUME TypeOK, CallsInv, [Next]_vars, NEW h \in Handles
    PROVE  \/ store'[h] \in {store[h], None}
           \/ Created(h)
           \/ \E c \in Calls : Repinned(c, h) \/ Recorded(c, h)
           \/ Cancelled(h)
<1>1. ASSUME NEW g \in Handles, NEW shape \in Shapes, Prepare(g, shape)
      PROVE  store'[h] = store[h] \/ Created(h)
  <2>1. shape # None /\ [status |-> "prepared", createdAt |-> now, pinned |-> None] # None
    BY NoneAssumption DEF TypeOK, HandleRecord
  <2> QED BY <1>1, <2>1 DEF Prepare, CreateHandle, Created, TypeOK
<1>2. ASSUME NEW c \in Calls, PreviewCommit(c)
      PROVE  store'[h] \in {store[h], None} \/ Repinned(c, h)
  <2>1. calls[c] \in Call /\ calls[c].h \in Handles /\ calls[c].op = "preview"
    BY <1>2, CallIn DEF PreviewCommit, CallsInv, CallInv, PreviewCallInv, Call
  <2> DEFINE g == calls[c].h
  <2>2. CASE PreviewOutcome(g) = "ok"
    <3>1. PICK t \in Tokens \ Minted, res \in {"previewed", "INTERNAL_ERROR"} :
            /\ store' = [store EXCEPT ![g].status = "previewed",
                                      ![g].pinned = [token |-> t, nonce |-> calls[c].nonce]]
            /\ calls' = [calls EXCEPT ![c].pc = "done", ![c].tok = t, ![c].res = res]
      BY <1>2, <2>2 DEF PreviewCommit, TransitionToPreviewed
    <3>2. /\ calls'[c].op = "preview" /\ calls'[c].h = g
          /\ calls'[c].tok = t /\ calls'[c].nonce = calls[c].nonce
      BY <2>1, <3>1 DEF TypeOK, Call
    <3>3. t # None
      BY NoneAssumption
    <3>4. Held(g) /\ ~Terminal(g) /\ store[g] \in HandleRecord
      BY <2>1, <2>2 DEF PreviewOutcome, Lookup, TypeOK, Held
    <3>5. CASE h = g
      <4>1. /\ store'[h].status = "previewed"
            /\ store'[h].pinned = [token |-> t, nonce |-> calls[c].nonce]
        BY <2>1, <3>1, <3>4, <3>5 DEF TypeOK, HandleRecord
      <4> QED BY <1>2, <3>2, <3>3, <3>4, <3>5, <4>1 DEF Repinned, Pinned
    <3>6. CASE h # g
      BY <3>1, <3>6 DEF TypeOK
    <3> QED BY <3>5, <3>6
  <2>3. CASE PreviewOutcome(g) # "ok"
    BY <1>2, <2>1, <2>3, LookedAt DEF PreviewCommit, TransitionToPreviewed
  <2> QED BY <2>2, <2>3
<1>3. ASSUME NEW c \in Calls, SendReply(c) \/ BroadcastReply(c)
      PROVE  store'[h] \in {store[h], None} \/ Recorded(c, h)
  <2>1. calls[c] \in Call /\ calls[c].h \in Handles
    BY <1>3, CallIn DEF SendReply, BroadcastReply, CallsInv, CallInv, SendCallInv, Call
  <2>2. TransitionToSent(calls[c].h)
    BY <1>3 DEF SendReply, BroadcastReply, Record
  <2>3. CASE SentOutcome(calls[c].h) = "ok"
    <3>1. /\ store' = [store EXCEPT ![calls[c].h].status = "sent"]
          /\ Held(calls[c].h) /\ store[calls[c].h].status = "previewed"
          /\ store[calls[c].h] \in HandleRecord
      BY <2>1, <2>2, <2>3 DEF TransitionToSent, SentOutcome, Lookup, TypeOK, Held
    <3>2. [store[calls[c].h] EXCEPT !.status = "sent"] \in HandleRecord
      BY <3>1 DEF HandleRecord
    <3> QED BY <1>3, <2>1, <3>1, <3>2, NoneAssumption DEF Recorded, TypeOK, HandleRecord
  <2>4. CASE SentOutcome(calls[c].h) # "ok"
    BY <2>1, <2>2, <2>4, LookedAt DEF TransitionToSent
  <2> QED BY <2>3, <2>4
<1>4. ASSUME NEW c \in Calls, NEW g \in Handles, Cancel(c, g)
      PROVE  store'[h] \in {store[h], None} \/ Cancelled(h)
  <2>1. CASE HandleGuard(g) = "ok" /\ CancelOutcome(g) = "ok"
    <3>1. /\ store' = [store EXCEPT ![g].status = "cancelled"]
          /\ UNCHANGED <<issued, pool>>
          /\ Held(g) /\ store[g] \in HandleRecord
          /\ store[g].status \notin {"prepared", "sent", "cancelled"}
      BY <1>4, <2>1 DEF Cancel, TransitionToCancelled, HandleGuard, Lookup, Terminal, TypeOK,
                        Held, chainVars
    <3>2. [store[g] EXCEPT !.status = "cancelled"] \in HandleRecord
          /\ store[g].status = "previewed"
      BY <3>1 DEF HandleRecord
    <3> QED BY <3>1, <3>2, NoneAssumption DEF Cancelled, TypeOK, HandleRecord
  <2>2. CASE store' = Looked(g)
    BY <2>2, LookedAt
  <2> QED BY <1>4, <2>1, <2>2 DEF Cancel, TransitionToCancelled
<1>5. ASSUME NEW c \in Calls, Begin(c), ~(\E g \in Handles : Cancel(c, g))
      PROVE  store'[h] \in {store[h], None}
  BY <1>5, LookedAt DEF Begin, PreviewRefuse, PreviewStart, SendRefuse, SendStart, storeVars
<1>6. ASSUME NEW c \in Calls, Resume(c), ~PreviewCommit(c), ~SendReply(c), ~BroadcastReply(c)
      PROVE  store'[h] = store[h]
  BY <1>6 DEF Resume, storeVars, PreviewStatus, PreviewNonce, PreviewRpcError, PreviewSimulate,
              SendStatus, SendRejected, SendFails,
              OpenDevice, DeviceAnswers, SignatureRefused, NodeAccepts, BroadcastError
<1>7. CASE Environment
  BY <1>7 DEF Environment, WalletApprove, WalletReject, Mine, SelectAccount,
              PairUsb, SetDemoWallet, Tick, Restart, StoreLost, storeVars
<1>8. ASSUME NEW g \in Handles, Verify(g) PROVE store'[h] \in {store[h], None}
  BY <1>8, LookedAt DEF Verify
<1>9. CASE UNCHANGED vars
  BY <1>9 DEF vars, storeVars
<1> QED BY <1>1, <1>2, <1>3, <1>4, <1>5, <1>6, <1>7, <1>8, <1>9 DEF Next, Begin

-----------------------------------------------------------------------------
(* Records, tokens and successes                                            *)

\* A previewed record stays backed by a preview that pinned its token and nonce.
LEMMA RecordInvStep ==
    ASSUME TypeOK, TypeOK', RecordInv, CallsInv, [Next]_vars PROVE RecordInv'
<1> SUFFICES ASSUME NEW h \in Handles, store'[h] # None
             PROVE  /\ issued'[h] # None
                    /\ store'[h].status = "previewed" =>
                         /\ Vetted(h)'
                         /\ store'[h].pinned # None
                         /\ PinnedAs(h, store[h].pinned.token, store[h].pinned.nonce)'
  BY DEF RecordInv, Held
<1>1. PreviewInv
  BY DEF CallsInv, CallInv, PreviewInv
<1>2. CASE store'[h] = store[h]
  <2>1. issued[h] # None /\ issued'[h] # None
    BY <1>2, Growing DEF RecordInv, Held
  <2>2. ASSUME store[h].status = "previewed"
        PROVE  /\ Vetted(h)'
               /\ store'[h].pinned # None
               /\ PinnedAs(h, store[h].pinned.token, store[h].pinned.nonce)'
    <3>1. /\ Vetted(h) /\ store[h].pinned # None
          /\ PinnedAs(h, store[h].pinned.token, store[h].pinned.nonce)
      BY <1>2, <2>2 DEF RecordInv, Held
    <3>2. PICK p \in Pinned : /\ calls[p].h = h
                              /\ calls[p].tok = store[h].pinned.token
                              /\ calls[p].nonce = store[h].pinned.nonce
      BY <3>1 DEF PinnedAs
    <3>3. p \in Pinned' /\ calls'[p] = calls[p]
      BY <1>1, PinnedStay
    <3> QED BY <1>2, <3>1, <3>2, <3>3, VettedStays DEF PinnedAs
  <2> QED BY <1>2, <2>1, <2>2
<1>3. CASE Created(h)
  BY <1>3 DEF Created
<1>4. CASE \E c \in Calls : Repinned(c, h)
  <2>1. PICK c \in Calls : Repinned(c, h)
    BY <1>4
  <2>2. Vetted(h)
    BY <2>1 DEF Repinned, PreviewCommit, CallsInv, CallInv, PreviewCallInv
  <2>3. calls'[c].tok \in Tokens /\ calls'[c].nonce \in Nat /\ c \in Pinned'
    BY <2>1 DEF Repinned, Pinned, TypeOK, Call
  <2>4. store'[h].pinned \in PreviewPinned
    BY <2>1, <2>3 DEF Repinned, PreviewPinned
  <2>5. /\ calls'[c].h = h
        /\ calls'[c].tok = store'[h].pinned.token
        /\ calls'[c].nonce = store'[h].pinned.nonce
    BY <2>1 DEF Repinned
  <2>6. Vetted(h)' /\ issued'[h] # None
    BY <2>2, VettedStays DEF Vetted
  <2> QED BY <2>3, <2>4, <2>5, <2>6, NoneAssumption DEF PinnedAs
<1>5. CASE (\E c \in Calls : Recorded(c, h)) \/ Cancelled(h)
  BY <1>5, Growing DEF Recorded, Cancelled, RecordInv
<1> QED BY <1>2, <1>3, <1>4, <1>5, HandleStep

\* What an immediate answer leaves in the call.
LEMMA AnswerFields ==
    ASSUME TypeOK, NEW c \in Calls, NEW op, NEW h, NEW res, Answer(c, op, h, res)
    PROVE  /\ calls'[c].op = op /\ calls'[c].h = h
           /\ calls'[c].tok = None /\ calls'[c].res = res
  BY DEF Answer, IdleCall, TypeOK

\* What the steps of a call leave of its record.
LEMMA BeginKeeps ==
    ASSUME TypeOK, NEW c \in Calls, Begin(c)
    PROVE  /\ calls'[c].op = "preview" => calls'[c].tok = None
           /\ calls'[c].op = "send" => calls'[c].res # "sent"
<1>1. PICK h \in Handles : \/ PreviewRefuse(c, h) \/ PreviewStart(c, h) \/ Cancel(c, h)
                           \/ \E tok \in Minted \cup {None} :
                                SendRefuse(c, h, tok) \/ SendStart(c, h, tok)
  BY DEF Begin
<1>2. CASE PreviewRefuse(c, h)
  BY <1>2, AnswerFields DEF PreviewRefuse
<1>3. CASE Cancel(c, h)
  BY <1>3, AnswerFields DEF Cancel
<1>4. CASE PreviewStart(c, h)
  BY <1>4 DEF PreviewStart, IdleCall, TypeOK
<1>5. ASSUME NEW tok \in Minted \cup {None}, SendRefuse(c, h, tok)
      PROVE  calls'[c].op = "send" /\ calls'[c].res # "sent"
  <2>1. SendGuard(h, tok) # "sent"
    BY DEF SendGuard, HandleGuard, Lookup
  <2> QED BY <1>5, <2>1 DEF SendRefuse, Answer, IdleCall, TypeOK
<1>6. ASSUME NEW tok \in Minted \cup {None}, SendStart(c, h, tok)
      PROVE  calls'[c].op = "send" /\ calls'[c].res # "sent"
  BY <1>6 DEF SendStart, IdleCall, TypeOK
<1> QED BY <1>1, <1>2, <1>3, <1>5, <1>6, <1>4

\* What the steps after the first await leave of its record.
LEMMA ResumeKeeps ==
    ASSUME TypeOK, NEW c \in Calls, Resume(c)
    PROVE  /\ calls'[c].op = calls[c].op
           /\ calls'[c].h = calls[c].h
           /\ calls[c].pc # "done"
           /\ ~PreviewCommit(c) => calls'[c].tok = calls[c].tok
           /\ ~PreviewCommit(c) /\ ~SendReply(c) /\ ~BroadcastReply(c)
                => calls'[c].res # "sent" \/ calls'[c].res = calls[c].res
           /\ calls'[c].pc \notin {"status", "opening"}
           /\ calls[c].pc \notin {"status", "opening", "device", "broadcast"}
                => calls'[c].req = calls[c].req
<1>1. calls[c] \in Call
  BY CallIn
<1>2. CASE PreviewStatus(c)
  BY <1>1, <1>2 DEF PreviewStatus, Finish, TypeOK, Call
<1>3. CASE PreviewNonce(c)
  BY <1>1, <1>3 DEF PreviewNonce, TypeOK, Call
<1>4. CASE PreviewRpcError(c)
  BY <1>1, <1>4 DEF PreviewRpcError, Finish, TypeOK, Call
<1>5. CASE PreviewSimulate(c)
  BY <1>1, <1>5 DEF PreviewSimulate, Finish, TypeOK, Call
<1>6. CASE PreviewCommit(c)
  <2>1. PICK t \in Tokens \ Minted :
          \/ \E res \in {"previewed", "INTERNAL_ERROR"} :
               calls' = [calls EXCEPT ![c].pc = "done", ![c].tok = t, ![c].res = res]
          \/ Finish(c, PreviewOutcome(calls[c].h))
    BY <1>6 DEF PreviewCommit
  <2>2. /\ calls'[c].op = calls[c].op /\ calls'[c].h = calls[c].h
        /\ calls'[c].pc = "done" /\ calls'[c].req = calls[c].req
    BY <1>1, <2>1 DEF Finish, TypeOK, Call
  <2>3. calls[c].pc # "done"
    BY <1>6 DEF PreviewCommit
  <2> QED BY <1>6, <2>2, <2>3
<1>7. CASE SendStatus(c)
  BY <1>1, <1>7 DEF SendStatus, Finish, TypeOK, Call
<1>8. CASE SendReply(c) \/ BroadcastReply(c)
  BY <1>1, <1>8 DEF SendReply, BroadcastReply, Record, Finish, TypeOK, Call
<1>9. CASE SendRejected(c) \/ SendFails(c)
  BY <1>1, <1>9 DEF SendRejected, SendFails, Finish, TypeOK, Call
<1>10. CASE OpenDevice(c)
  BY <1>1, <1>10 DEF OpenDevice, Finish, TypeOK, Call
<1>12. CASE DeviceAnswers(c)
  BY <1>1, <1>12 DEF DeviceAnswers, TypeOK, Call
<1>13. CASE SignatureRefused(c)
  BY <1>1, <1>13 DEF SignatureRefused, Finish, TypeOK, Call
<1>11. CASE NodeAccepts(c) \/ BroadcastError(c)
  BY <1>1, <1>11 DEF NodeAccepts, BroadcastError, Finish, TypeOK, Call
<1> QED BY <1>2, <1>3, <1>4, <1>5, <1>6, <1>7, <1>8, <1>9, <1>10, <1>11, <1>12,
         <1>13 DEF Resume

\* Committing a preview ends the call.
LEMMA CommitEnds ==
    ASSUME TypeOK, NEW c \in Calls, PreviewCommit(c)
    PROVE  calls'[c].pc = "done" /\ calls[c].pc # "done"
<1>1. calls[c] \in Call
  BY CallIn
<1>2. PICK t \in Tokens \ Minted :
        \/ \E res \in {"previewed", "INTERNAL_ERROR"} :
             calls' = [calls EXCEPT ![c].pc = "done", ![c].tok = t, ![c].res = res]
        \/ Finish(c, PreviewOutcome(calls[c].h))
  BY DEF PreviewCommit
<1>3. calls'[c].pc = "done"
  BY <1>1, <1>2 DEF Finish, TypeOK, Call
<1> QED BY <1>3 DEF PreviewCommit

\* The wallet's decision changes the request of the call and nothing else of it.
LEMMA WalletKeeps ==
    ASSUME TypeOK, NEW c \in Calls, WalletApprove(c) \/ WalletReject(c)
    PROVE  /\ calls'[c].op = calls[c].op /\ calls'[c].h = calls[c].h
           /\ calls'[c].tok = calls[c].tok /\ calls'[c].res = calls[c].res
           /\ calls'[c].pc = calls[c].pc
<1>1. calls[c] \in Call
  BY CallIn
<1>2. CASE WalletApprove(c)
  BY <1>1, <1>2 DEF WalletApprove, TypeOK, Call
<1>3. CASE WalletReject(c)
  BY <1>1, <1>3 DEF WalletReject, TypeOK, Call
<1> QED BY <1>2, <1>3

\* Only committing a preview pins a token, and it pins a fresh one.
LEMMA NewPin ==
    ASSUME TypeOK, CallsInv, [Next]_vars, NEW p \in Pinned', p \notin Pinned
    PROVE  /\ calls'[p].tok \notin Minted
           /\ \A q \in Pinned' : q # p => q \in Pinned
           /\ PreviewCommit(p)
<1>1. p \in Calls /\ calls'[p].op = "preview" /\ calls'[p].tok # None
  BY DEF Pinned
<1>2. calls[p] \in Call
  BY <1>1, CallIn
<1>3. ASSUME Restart PROVE FALSE
  <2>1. calls'[p] = calls[p] \/ calls'[p] = [calls[p] EXCEPT !.pc = "done", !.res = "lost"]
    BY <1>1, <1>3 DEF Restart
  <2>2. calls'[p].op = calls[p].op /\ calls'[p].tok = calls[p].tok
    BY <1>2, <2>1 DEF Call
  <2>3. calls[p].op # "preview" \/ calls[p].tok = None
    BY <1>1 DEF Pinned
  <2> QED BY <1>1, <2>2, <2>3
<1>4. calls'[p] # calls[p]
  BY <1>1 DEF Pinned
<1>5. Acts(p) /\ \A d \in Calls \ {p} : calls'[d] = calls[d]
  BY <1>1, <1>3, <1>4, OneActs DEF vars
<1>6. ~Begin(p)
  BY <1>1, BeginKeeps
<1>7. ~WalletApprove(p) /\ ~WalletReject(p)
  BY <1>1, WalletKeeps DEF Pinned
<1>8. ASSUME Resume(p), ~PreviewCommit(p) PROVE FALSE
  BY <1>1, <1>8, ResumeKeeps DEF Pinned
<1>9. PreviewCommit(p)
  BY <1>5, <1>6, <1>7, <1>8 DEF Acts
<1>10. calls'[p].tok \in Tokens \ Minted
  <2>1. PICK t \in Tokens \ Minted :
          \/ \E res \in {"previewed", "INTERNAL_ERROR"} :
               calls' = [calls EXCEPT ![p].pc = "done", ![p].tok = t, ![p].res = res]
          \/ Finish(p, PreviewOutcome(calls[p].h))
    BY <1>9 DEF PreviewCommit
  <2>2. calls'[p].tok = t \/ calls'[p].tok = calls[p].tok
    BY <1>1, <1>2, <2>1 DEF Finish, TypeOK, Call
  <2>3. calls[p].op = "preview" /\ calls[p].tok = None
    BY <1>1, <1>9 DEF PreviewCommit, CallsInv, CallInv, PreviewCallInv
  <2> QED BY <1>1, <2>2, <2>3
<1> QED BY <1>5, <1>9, <1>10 DEF Pinned

\* Tokens of two previews stay different.
LEMMA TokenInvStep ==
    ASSUME TypeOK, CallsInv, TokenInv, [Next]_vars PROVE TokenInv'
<1> SUFFICES ASSUME NEW p \in Pinned', NEW q \in Pinned', calls'[p].tok = calls'[q].tok
             PROVE  p = q
  BY DEF TokenInv
<1>1. PreviewInv
  BY DEF CallsInv, CallInv, PreviewInv
<1>2. \A r \in Pinned : calls'[r] = calls[r] /\ calls[r].tok \in Minted
  BY <1>1, PinnedStay DEF Pinned, Minted
<1>3. CASE p \in Pinned /\ q \in Pinned
  BY <1>2, <1>3 DEF TokenInv
<1>4. CASE p \notin Pinned
  BY <1>2, <1>4, NewPin
<1>5. CASE q \notin Pinned
  BY <1>2, <1>5, NewPin
<1> QED BY <1>3, <1>4, <1>5

\* A send says "sent" only when it found its handle previewed.
LEMMA NewSuccess ==
    ASSUME TypeOK, CallsInv, [Next]_vars, NEW c \in Calls,
           calls'[c].op = "send", calls'[c].res = "sent"
    PROVE  \/ /\ calls[c].op = "send" /\ calls[c].res = "sent"
              /\ calls'[c].h = calls[c].h
           \/ /\ calls[c].op = "send" /\ calls'[c].h = calls[c].h
              /\ calls[c].h \in Handles /\ Vetted(calls[c].h)
              /\ TransitionToSent(calls[c].h) /\ SentOutcome(calls[c].h) = "ok"
              /\ \A d \in Calls \ {c} : calls'[d] = calls[d]
<1>1. calls[c] \in Call
  BY CallIn
<1>2. CASE calls'[c] = calls[c]
  BY <1>2
<1>3. CASE calls'[c] # calls[c]
  <2>1. ~Restart
    BY <1>1, <1>3 DEF Restart, Call
  <2>2. Acts(c) /\ \A d \in Calls \ {c} : calls'[d] = calls[d]
    BY <1>3, <2>1, OneActs DEF vars
  <2>3. CASE WalletApprove(c) \/ WalletReject(c)
    BY <2>3, WalletKeeps
  <2>4. ~Begin(c)
    BY BeginKeeps
  <2>5. CASE SendReply(c) \/ BroadcastReply(c)
    <3>1. calls[c].op = "send" /\ calls[c].h \in Handles /\ Vetted(calls[c].h)
      BY <1>1, <2>5 DEF SendReply, BroadcastReply, CallsInv, CallInv, SendCallInv, Call
    <3>2. TransitionToSent(calls[c].h)
          /\ Finish(c, IF SentOutcome(calls[c].h) = "ok" THEN "sent" ELSE "UNRECORDED")
      BY <2>5 DEF SendReply, BroadcastReply, Record
    <3>3. calls'[c].h = calls[c].h /\ SentOutcome(calls[c].h) = "ok"
      BY <1>1, <3>2 DEF Finish, TypeOK, Call
    <3> QED BY <2>2, <3>1, <3>2, <3>3
  <2>6. ASSUME Resume(c), ~SendReply(c), ~BroadcastReply(c) PROVE FALSE
    <3>1. calls[c].pc # "done" /\ calls[c].op = "send"
      BY <2>6, ResumeKeeps
    <3>2. calls[c].res = "none"
      BY <3>1 DEF CallsInv, CallInv, SendCallInv
    <3>3. ~PreviewCommit(c)
      BY <3>1 DEF PreviewCommit, CallsInv, CallInv, PreviewCallInv
    <3> QED BY <2>6, <3>2, <3>3, ResumeKeeps
  <2> QED BY <2>2, <2>3, <2>4, <2>5, <2>6 DEF Acts
<1> QED BY <1>2, <1>3

\* A recorded broadcast stays the only one of its handle, and the handle sent.
LEMMA SuccessStep ==
    ASSUME TypeOK, CallsInv, SuccessInv, OneSuccess, [Next]_vars
    PROVE  SuccessInv' /\ OneSuccess'
<1>1. ASSUME NEW c \in Calls, calls'[c].op = "send", calls'[c].res = "sent"
      PROVE  /\ calls'[c].h # None
             /\ issued'[calls'[c].h] # None
             /\ store'[calls'[c].h] # None => store'[calls'[c].h].status = "sent"
  <2>1. CASE calls[c].op = "send" /\ calls[c].res = "sent" /\ calls'[c].h = calls[c].h
    <3> DEFINE h == calls[c].h
    <3>1. /\ h # None /\ issued[h] # None
          /\ store[h] # None => store[h].status = "sent"
      BY <2>1 DEF SuccessInv, Sends, Held
    <3>2. h \in Handles
      BY <3>1, CallIn DEF Call
    <3>3. issued'[h] # None
      BY <3>1, <3>2, Growing
    <3>4. store'[h] # None => store'[h].status = "sent"
      BY <3>1, <3>2, HandleStep DEF Created, Repinned, Recorded, Cancelled, Held, Terminal
    <3> QED BY <2>1, <3>1, <3>3, <3>4
  <2>2. CASE /\ calls[c].op = "send" /\ calls'[c].h = calls[c].h
             /\ calls[c].h \in Handles /\ Vetted(calls[c].h)
             /\ TransitionToSent(calls[c].h) /\ SentOutcome(calls[c].h) = "ok"
    <3> DEFINE h == calls[c].h
    <3>1. store[h] \in HandleRecord /\ store' = [store EXCEPT ![h].status = "sent"]
      BY <2>2 DEF TransitionToSent, SentOutcome, Lookup, TypeOK, Held
    <3>2. store'[h].status = "sent"
      BY <2>2, <3>1 DEF TypeOK, HandleRecord
    <3>3. h # None /\ issued'[h] # None
      BY <2>2, NoneAssumption, Growing DEF Vetted
    <3> QED BY <2>2, <3>2, <3>3
  <2> QED BY <1>1, <2>1, <2>2, NewSuccess
<1>2. ASSUME NEW c \in Calls, NEW d \in Calls, c # d,
             calls'[c].op = "send", calls'[c].res = "sent",
             calls'[d].op = "send", calls'[d].res = "sent", calls'[c].h = calls'[d].h,
             ~(calls[c].op = "send" /\ calls[c].res = "sent")
      PROVE  FALSE
  <2>1. /\ calls'[c].h = calls[c].h /\ calls[c].h \in Handles
        /\ SentOutcome(calls[c].h) = "ok"
        /\ calls'[d] = calls[d]
    BY <1>2, NewSuccess
  <2>2. Held(calls[c].h) /\ store[calls[c].h].status = "previewed"
    BY <2>1 DEF SentOutcome, Lookup
  <2>3. Held(calls[d].h) => store[calls[d].h].status = "sent"
    BY <1>2, <2>1 DEF SuccessInv, Sends
  <2> QED BY <1>2, <2>1, <2>2, <2>3
<1>3. SuccessInv'
  BY <1>1 DEF SuccessInv, Sends, Held
<1>4. OneSuccess'
  <2> SUFFICES ASSUME NEW c \in Calls, NEW d \in Calls, c # d,
             calls'[c].op = "send", calls'[c].res = "sent",
             calls'[d].op = "send", calls'[d].res = "sent", calls'[c].h = calls'[d].h
      PROVE  FALSE
    BY DEF OneSuccess, Sends
  <2>1. /\ calls[c].op = "send" /\ calls[c].res = "sent"
        /\ calls[d].op = "send" /\ calls[d].res = "sent"
    BY <1>2
  <2>2. calls'[c].h = calls[c].h /\ calls'[d].h = calls[d].h
    <3>1. Held(calls[c].h) => store[calls[c].h].status = "sent"
      BY <2>1 DEF SuccessInv, Sends
    <3>2. Held(calls[d].h) => store[calls[d].h].status = "sent"
      BY <2>1 DEF SuccessInv, Sends
    <3> QED BY <3>1, <3>2, NewSuccess
  <2> QED BY <2>1, <2>2 DEF OneSuccess, Sends
<1> QED BY <1>3, <1>4

-----------------------------------------------------------------------------
(* The theorems                                                             *)

\* The calls' invariant gathers three parts of IInv.
LEMMA CallsInvIs == CallsInv <=> PreviewInv /\ SendInv /\ AnswersAreTrue
  BY DEF CallsInv, CallInv, PreviewInv, SendInv, AnswersAreTrue, Sends

\* The inductive invariant holds at first,
LEMMA InitIInv == Init => IInv
<1> SUFFICES ASSUME Init PROVE IInv
  OBVIOUS
<1> USE DEF Init, StoreInit
<1>1. IdleCall \in Call /\ calls = [c \in Calls |-> IdleCall]
  BY Names DEF IdleCall, Call
<1>2. /\ IdleCall.op = "none" /\ IdleCall.pc = "idle" /\ IdleCall.req = "none"
      /\ IdleCall.res = "none" /\ IdleCall.from = None
  BY DEF IdleCall
<1>3. TypeOK
  BY <1>1 DEF TypeOK, NoPersona
<1>4. CallsInv
  BY <1>1, <1>2 DEF CallsInv, CallInv, PreviewCallInv, SendCallInv, Pinned
<1>5. RecordInv
  BY DEF RecordInv, Held
<1>6. TokenInv /\ SuccessInv /\ OneSuccess
  BY <1>1, <1>2 DEF TokenInv, Pinned, SuccessInv, Sends, OneSuccess
<1> QED BY <1>3, <1>4, <1>5, <1>6, CallsInvIs DEF IInv

\* and every step keeps it.
LEMMA IInvStep == IInv /\ [Next]_vars => IInv'
<1> SUFFICES ASSUME IInv, [Next]_vars PROVE IInv'
  OBVIOUS
<1>1. /\ TypeOK /\ RecordInv /\ PreviewInv /\ TokenInv /\ SendInv /\ SuccessInv
      /\ OneSuccess /\ AnswersAreTrue
  BY DEF IInv
<1>2. CallsInv
  BY <1>1, CallsInvIs
<1>3. TypeOK'
  BY <1>1, TypeStep
<1>4. CallsInv'
  BY <1>1, <1>2, CallsInvStep
<1>5. PreviewInv' /\ SendInv' /\ AnswersAreTrue'
  BY <1>4, CallsInvIs, PTL
<1>6. RecordInv'
  BY <1>1, <1>2, <1>3, RecordInvStep
<1>7. TokenInv'
  BY <1>1, <1>2, TokenInvStep
<1>8. SuccessInv' /\ OneSuccess'
  BY <1>1, <1>2, SuccessStep
<1> QED BY <1>3, <1>5, <1>6, <1>7, <1>8 DEF IInv

\* The inductive invariant holds in every reachable state: what each suspended
\* call relies on stays true whatever the other calls, the wallet, the chain and
\* the process do meanwhile.
THEOREM Inductive == Spec => []IInv
  BY InitIInv, IInvStep, PTL DEF Spec

\* The store, the calls and the chain keep their types.
THEOREM TypeCorrect == Spec => []TypeOK
<1>1. IInv => TypeOK
  BY DEF IInv
<1> QED BY <1>1, Inductive, PTL

\* What a signer is asked to sign was pinned, nonce and all, by a preview of the
\* same handle under the token the call presented.
THEOREM SignsWhatWasPreviewed == Spec => []SignedWhatWasPreviewed
<1>1. IInv => SignedWhatWasPreviewed
  BY DEF IInv, SendInv, SendCallInv, SignedWhatWasPreviewed, Asked, Sends, PinnedAs
<1> QED BY <1>1, Inductive, PTL

\* Nothing whose target the preview would refuse reaches a signer.
THEOREM SignsOnlyAllowed == Spec => []OnlyAllowedSigned
<1>1. IInv => OnlyAllowedSigned
  BY DEF IInv, SendInv, SendCallInv, OnlyAllowedSigned, Asked, Sends, Vetted
<1> QED BY <1>1, Inductive, PTL

\* At most one call per handle reports its broadcast as recorded.
THEOREM SucceedsOnce == Spec => []OneSuccess
<1>1. IInv => OneSuccess
  BY DEF IInv
<1> QED BY <1>1, Inductive, PTL

\* What send_transaction answers about its own request is true.
THEOREM AnswersTruly == Spec => []AnswersAreTrue
<1>1. IInv => AnswersAreTrue
  BY DEF IInv
<1> QED BY <1>1, Inductive, PTL

\* Retrying a send with its token never pays twice from one account: a token is
\* pinned once, with one nonce, and the nonce travels with the token.
THEOREM RetriesPayOnce == Spec => []RetryPaysOnce
<1>1. ASSUME IInv PROVE RetryPaysOnce
  <2> SUFFICES ASSUME NEW c \in Out, NEW d \in Out,
                      calls[c].tok = calls[d].tok, calls[c].from = calls[d].from
               PROVE  TxOf(c) = TxOf(d)
    BY DEF RetryPaysOnce
  <2>1. /\ PinnedAs(calls[c].h, calls[c].tok, calls[c].nonce)
        /\ PinnedAs(calls[d].h, calls[d].tok, calls[d].nonce)
    BY <1>1 DEF IInv, SendInv, SendCallInv, Out, Sends
  <2>2. PICK p \in Pinned : /\ calls[p].h = calls[c].h /\ calls[p].tok = calls[c].tok
                            /\ calls[p].nonce = calls[c].nonce
    BY <2>1 DEF PinnedAs
  <2>3. PICK q \in Pinned : /\ calls[q].h = calls[d].h /\ calls[q].tok = calls[d].tok
                            /\ calls[q].nonce = calls[d].nonce
    BY <2>1 DEF PinnedAs
  <2>4. p = q
    BY <1>1, <2>2, <2>3 DEF IInv, TokenInv
  <2> QED BY <2>2, <2>3, <2>4 DEF TxOf
<1> QED BY <1>1, Inductive, PTL

\* A send suspended before its request is one of a process outside demo mode.
DemoInv == \A c \in Calls : calls[c].pc \in {"status", "opening"} => ~demo

\* The mode is fixed while the process lives, and only a send outside it gets that far.
LEMMA DemoInvStep == ASSUME IInv, DemoInv, [Next]_vars PROVE DemoInv'
<1> USE DEF walletVars
<1>1. TypeOK
  BY DEF IInv
<1>2. CASE UNCHANGED vars
  BY <1>2 DEF vars, DemoInv
<1>3. CASE Restart
  <2> SUFFICES ASSUME NEW c \in Calls PROVE calls'[c].pc \notin {"status", "opening"}
    BY DEF DemoInv
  <2>1. calls[c] \in Call
    BY <1>1, CallIn
  <2>2. \/ calls'[c] = calls[c] /\ calls[c].pc \in {"idle", "done"}
        \/ calls'[c] = [calls[c] EXCEPT !.pc = "done", !.res = "lost"]
    BY <1>3 DEF Restart
  <2> QED BY <2>1, <2>2 DEF Call
<1>4. CASE Next /\ ~Restart
  <2>1. demo' = demo
    <3>1. ASSUME NEW c \in Calls, Acts(c) PROVE demo' = demo
      BY <3>1 DEF Acts, Begin, PreviewRefuse, PreviewStart, Cancel, SendRefuse, SendStart,
                  Resume, PreviewStatus, PreviewNonce, PreviewRpcError, PreviewSimulate,
                  PreviewCommit, SendStatus, SendReply, SendRejected, SendFails,
                  OpenDevice, DeviceAnswers, SignatureRefused,
                  NodeAccepts, BroadcastReply, BroadcastError, WalletApprove, WalletReject
    <3> QED BY <1>4, <3>1 DEF Next, Acts, Environment, Prepare, Verify, Mine, SelectAccount,
                              PairUsb, SetDemoWallet, Tick
  <2> SUFFICES ASSUME NEW c \in Calls, calls'[c].pc \in {"status", "opening"}
      PROVE  ~demo
    BY <2>1 DEF DemoInv
  <2>2. calls[c] \in Call
    BY <1>1, CallIn
  <2>3. CASE calls'[c] = calls[c]
    BY <2>3 DEF DemoInv
  <2>4. CASE \E h \in Handles, tok \in Minted \cup {None} : SendStart(c, h, tok)
    <3>1. PICK h \in Handles, tok \in Minted \cup {None} : SendStart(c, h, tok)
      BY <2>4
    <3> QED BY <3>1 DEF SendStart, SendGuard, HandleGuard, Lookup
  <2>5. ASSUME Acts(c), ~(\E h \in Handles, tok \in Minted \cup {None} : SendStart(c, h, tok))
        PROVE  \/ calls'[c].pc \notin {"status", "opening"}
               \/ calls[c].pc \in {"status", "opening"}
    <3>1. CASE Begin(c)
      <4>1. PICK h \in Handles : \/ PreviewRefuse(c, h) \/ PreviewStart(c, h) \/ Cancel(c, h)
                                 \/ \E tok \in Minted \cup {None} : SendRefuse(c, h, tok)
        BY <2>5, <3>1 DEF Begin
      <4>2. CASE PreviewStart(c, h)
        BY <1>1, <4>2 DEF PreviewStart, PreviewFirstAwait, IdleCall, TypeOK
      <4>3. ASSUME NEW op, NEW res, Answer(c, op, h, res) PROVE calls'[c].pc = "done"
        BY <1>1, <4>3 DEF Answer, IdleCall, TypeOK
      <4> QED BY <4>1, <4>2, <4>3 DEF PreviewRefuse, Cancel, SendRefuse
    <3>2. CASE Resume(c) \/ WalletApprove(c) \/ WalletReject(c)
      BY <1>1, <3>2, ResumeKeeps, WalletKeeps
    <3> QED BY <2>5, <3>1, <3>2 DEF Acts
  <2> QED BY <1>1, <1>4, <2>3, <2>4, <2>5, OneActs DEF DemoInv
<1> QED BY <1>2, <1>3, <1>4

\* One step of a process in demo mode asks no signer.
LEMMA DemoSignsNothing ==
    ASSUME IInv, DemoInv, [Next]_vars, NEW c \in Calls, demo, calls[c].req = "none"
    PROVE  calls'[c].req = "none"
<1>1. TypeOK /\ calls[c] \in Call
  BY CallIn DEF IInv
<1>2. CASE calls'[c] = calls[c]
  BY <1>2
<1>3. CASE Restart
  <2>1. calls'[c] = calls[c] \/ calls'[c] = [calls[c] EXCEPT !.pc = "done", !.res = "lost"]
    BY <1>3 DEF Restart
  <2> QED BY <1>1, <2>1 DEF Call
<1>4. CASE Begin(c)
  <2>1. PICK h \in Handles : \/ PreviewRefuse(c, h) \/ PreviewStart(c, h) \/ Cancel(c, h)
                             \/ \E tok \in Minted \cup {None} :
                                  SendRefuse(c, h, tok) \/ SendStart(c, h, tok)
    BY <1>4 DEF Begin
  <2>2. CASE PreviewStart(c, h)
    BY <1>1, <2>2 DEF PreviewStart, IdleCall, TypeOK
  <2>3. ASSUME NEW op, NEW res, Answer(c, op, h, res) PROVE calls'[c].req = "none"
    BY <1>1, <2>3 DEF Answer, IdleCall, TypeOK
  <2>4. ASSUME NEW tok \in Minted \cup {None}, SendStart(c, h, tok) PROVE FALSE
    BY <2>4 DEF SendStart, SendGuard, HandleGuard, Lookup
  <2> QED BY <2>1, <2>2, <2>3, <2>4 DEF PreviewRefuse, Cancel, SendRefuse
<1>5. CASE Resume(c)
  <2>1. calls[c].pc \notin {"status", "opening", "device", "broadcast"}
    BY DEF DemoInv, IInv, SendInv, SendCallInv
  <2> QED BY <1>1, <1>5, <2>1, ResumeKeeps
<1>6. ~WalletApprove(c) /\ ~WalletReject(c)
  BY DEF WalletApprove, WalletReject
<1> QED BY <1>1, <1>2, <1>3, <1>4, <1>5, <1>6, OneActs DEF Acts, vars

\* In demo mode no call asks a signer, not even one that began before: the mode
\* changes only with the process, and calls do not survive it.
THEOREM DemoSigns == Spec => DemoNeverSigns
<1>1. Init => DemoInv
  BY DEF Init, DemoInv, IdleCall
<1>2. IInv /\ DemoInv /\ [Next]_vars => DemoInv'
  BY DemoInvStep
<1>3. IInv /\ DemoInv /\ [Next]_vars
      => [\A c \in Calls : demo /\ calls[c].req = "none" => calls'[c].req = "none"]_vars
  BY DemoSignsNothing
<1> QED BY <1>1, <1>2, <1>3, Inductive, PTL DEF Spec, DemoNeverSigns

-----------------------------------------------------------------------------
(* The contract                                                             *)

Shown == {calls[c].h : c \in Pinned}
Published == {t.h : t \in pool}

\* Whatever reaches the network was shown before.
LEMMA NewInPool ==
    ASSUME IInv, [Next]_vars
    PROVE  \/ UNCHANGED pool
           \/ /\ \E c \in Calls : /\ pool' = pool \cup {TxOf(c)}
                                  /\ calls[c].h \in Shown
                                  /\ NodeAccepts(c) \/ WalletApprove(c)
              /\ UNCHANGED <<issued, store>>
<1> USE DEF storeVars, walletVars, chainVars
<1>1. ASSUME NEW c \in Calls, NodeAccepts(c) \/ WalletApprove(c)
      PROVE  /\ pool' = pool \cup {TxOf(c)}
             /\ calls[c].h \in Shown
             /\ UNCHANGED <<issued, store>>
  <2>1. PinnedAs(calls[c].h, calls[c].tok, calls[c].nonce)
    BY <1>1 DEF NodeAccepts, WalletApprove, IInv, SendInv, SendCallInv
  <2> QED BY <1>1, <2>1 DEF NodeAccepts, WalletApprove, PinnedAs, Shown
<1>2. ASSUME NEW c \in Calls, Begin(c) \/ Resume(c) \/ WalletReject(c), ~NodeAccepts(c)
      PROVE  UNCHANGED pool
  BY <1>2 DEF Begin, PreviewRefuse, PreviewStart, Cancel, SendRefuse, SendStart,
              Resume, PreviewStatus, PreviewNonce, PreviewRpcError, PreviewSimulate,
              PreviewCommit, SendStatus, SendReply, SendRejected, SendFails,
              OpenDevice, DeviceAnswers, SignatureRefused,
              BroadcastReply, BroadcastError, WalletReject
<1>3. CASE UNCHANGED vars
  BY <1>3 DEF vars
<1> QED BY <1>1, <1>2, <1>3 DEF Next, Environment, Prepare, Verify, Mine, SelectAccount, PairUsb,
                            SetDemoWallet, Tick, Restart

\* A handle joins the shown ones only by a committed preview of it.
LEMMA ShownStep ==
    ASSUME IInv, [Next]_vars
    PROVE  \/ Shown' = Shown
           \/ \E c \in Calls : PreviewCommit(c) /\ Shown' = Shown \cup {calls[c].h}
<1>1. TypeOK /\ CallsInv /\ PreviewInv
  BY CallsInvIs DEF IInv
<1>2. \A p \in Pinned : p \in Pinned' /\ calls'[p] = calls[p]
  BY <1>1, PinnedStay
<1>3. CASE \E p \in Pinned' : p \notin Pinned
  <2>1. PICK p \in Pinned' : p \notin Pinned
    BY <1>3
  <2>2. PreviewCommit(p) /\ \A q \in Pinned' : q # p => q \in Pinned
    BY <1>1, <2>1, NewPin
  <2>3. p \in Calls /\ calls'[p].h = calls[p].h
    BY <1>1, <2>1, <2>2, ResumeKeeps DEF Pinned, Resume
  <2>4. Shown' = Shown \cup {calls[p].h}
    BY <1>2, <2>1, <2>2, <2>3 DEF Shown
  <2> QED BY <2>2, <2>3, <2>4
<1>4. CASE Pinned' \subseteq Pinned
  BY <1>2, <1>4 DEF Shown
<1> QED BY <1>3, <1>4

\* Expiry, restarts and everything that leaves the store alone.
LEMMA ForgetStep ==
    ASSUME IInv, UNCHANGED <<issued, pool>>, Shown' = Shown,
           \A h \in Handles : store'[h] \in {store[h], None}
    PROVE  HC!HCNext
<1> DEFINE gone == {h \in Handles : store'[h] = None}
<1>1. ASSUME NEW h \in Handles, issued[h] # None PROVE lifeOf[h] # "absent"
  <2>1. store[h] # None => store[h].status # "absent"
    BY DEF IInv, TypeOK, HandleRecord
  <2> QED BY <1>1, <2>1 DEF lifeOf
<1>2. lifeOf' = [h \in Handles |-> IF h \in gone /\ lifeOf[h] # "absent" THEN "gone"
                                  ELSE lifeOf[h]]
  BY <1>1 DEF lifeOf
<1>3. gone \in SUBSET Handles
  OBVIOUS
<1>4. HC!HCForget(gone)
  BY <1>2 DEF HC!HCForget, Shown
<1> QED BY <1>3, <1>4 DEF HC!HCNext

\* A committed preview is the contract's preview, or finds its handle gone.
LEMMA ContractCommit ==
    ASSUME IInv, [Next]_vars, NEW c \in Calls, PreviewCommit(c)
    PROVE  HC!HCNext \/ UNCHANGED HC!hcVars
<1>1. TypeOK /\ CallsInv /\ RecordInv /\ calls[c] \in Call
  BY CallsInvIs, CallIn DEF IInv
<1>2. calls[c].h \in Handles
  BY <1>1 DEF PreviewCommit, CallsInv, CallInv, PreviewCallInv, Call
<1>3. PICK g \in Handles : g = calls[c].h
  BY <1>2
<1>4. UNCHANGED <<issued, pool>>
  BY DEF PreviewCommit, chainVars
<1>5. CASE PreviewOutcome(g) = "ok"
  <2>1. Held(g) /\ store[g] \in HandleRecord /\ store[g].status \in {"prepared", "previewed"}
    BY <1>1, <1>4, <1>5 DEF PreviewOutcome, Lookup, Terminal, Held, TypeOK, HandleRecord
  <2>2. PICK t \in Tokens \ Minted, res \in {"previewed", "INTERNAL_ERROR"} :
          /\ store' = [store EXCEPT ![g].status = "previewed",
                                    ![g].pinned = [token |-> t, nonce |-> calls[c].nonce]]
          /\ calls' = [calls EXCEPT ![c].pc = "done", ![c].tok = t, ![c].res = res]
    BY <1>5, <1>3 DEF PreviewCommit, TransitionToPreviewed
  <2>3. issued[g] # None
    BY <1>1, <1>4, <2>1 DEF RecordInv
  <2>4. c \in Pinned' /\ calls'[c].h = g
    BY <1>1, <1>3, <2>2, NoneAssumption DEF PreviewCommit, CallsInv, CallInv, PreviewCallInv, Pinned,
                                      TypeOK, Call
  <2>5. Shown' = Shown \cup {g}
    <3>1. g \in Shown'
      BY <2>4 DEF Shown
    <3>2. ASSUME NEW d \in Calls, PreviewCommit(d), Shown' = Shown \cup {calls[d].h}
          PROVE  calls[d].h = g
      <4>1. calls'[d].pc = "done" /\ calls[d].pc # "done"
        BY <1>1, <3>2, CommitEnds
      <4>2. d # c => calls'[d] = calls[d]
        BY <1>1, <2>2 DEF TypeOK
      <4> QED BY <1>3, <4>1, <4>2
    <3> QED BY <3>1, <3>2, ShownStep
  <2>6. ASSUME NEW h \in Handles, h # g PROVE store'[h] = store[h]
    BY <1>1, <2>2, <2>6 DEF TypeOK
  <2>7. store'[g] # None /\ store'[g].status = "previewed"
    <3>1. [token |-> t, nonce |-> calls[c].nonce] \in PreviewPinned
      BY <1>1 DEF PreviewPinned, Call
    <3>2. store'[g] = [store[g] EXCEPT !.status = "previewed",
                                       !.pinned = [token |-> t, nonce |-> calls[c].nonce]]
      BY <1>1, <1>4, <2>2 DEF TypeOK
    <3>3. store'[g] \in HandleRecord
      BY <2>1, <3>1, <3>2 DEF HandleRecord
    <3> QED BY <2>1, <3>2, <3>3, NoneAssumption DEF HandleRecord
  <2>8. lifeOf' = [lifeOf EXCEPT ![g] = "previewed"]
    BY <1>4, <2>3, <2>6, <2>7 DEF lifeOf
  <2>9. lifeOf[g] \in {"prepared", "previewed"}
    BY <1>4, <2>1, <2>3 DEF lifeOf, Held
  <2>10. HC!HCPreview(g)
    BY <1>4, <2>5, <2>8, <2>9 DEF HC!HCPreview, Shown
  <2> QED BY <1>4, <2>10 DEF HC!HCNext
<1>6. CASE PreviewOutcome(g) # "ok"
  <2>1. \A h \in Handles : store'[h] \in {store[h], None}
    BY <1>1, <1>3, <1>6, LookedAt DEF PreviewCommit, TransitionToPreviewed
  <2>2. Shown' = Shown
    <3>1. PICK u \in Tokens \ Minted : Finish(c, PreviewOutcome(g))
      BY <1>6, <1>3 DEF PreviewCommit
    <3>2. \A d \in Calls : /\ calls'[d].op = calls[d].op /\ calls'[d].h = calls[d].h
                           /\ calls'[d].tok = calls[d].tok
      <4>1. ASSUME NEW d \in Calls
            PROVE  /\ calls'[d].op = calls[d].op /\ calls'[d].h = calls[d].h
                   /\ calls'[d].tok = calls[d].tok
        <5>1. calls[d] \in Call
          BY <1>1, CallIn
        <5> QED BY <1>1, <3>1, <5>1 DEF Finish, TypeOK, Call
      <4> QED BY <4>1
    <3> QED BY <3>2 DEF Shown, Pinned
  <2> QED BY <1>4, <2>1, <2>2, ForgetStep
<1> QED BY <1>5, <1>6

\* The two endings of a previewed handle.
LEMMA ContractEnd ==
    ASSUME IInv, NEW g \in Handles, Shown' = Shown, UNCHANGED <<issued, pool>>,
           Held(g), store[g].status = "previewed",
           \/ /\ store' = [store EXCEPT ![g].status = "sent"]
              /\ g \in Published
           \/ store' = [store EXCEPT ![g].status = "cancelled"]
    PROVE  HC!HCNext
<1>1. TypeOK /\ RecordInv /\ store[g] \in HandleRecord /\ issued[g] # None
  BY DEF IInv, TypeOK, RecordInv, Held
<1>2. ASSUME NEW s \in {"sent", "cancelled"}, store' = [store EXCEPT ![g].status = s]
      PROVE  lifeOf' = [lifeOf EXCEPT ![g] = s]
  <2>1. store'[g] = [store[g] EXCEPT !.status = s]
    BY <1>1, <1>2 DEF TypeOK
  <2>2. store'[g] \in HandleRecord /\ store'[g].status = s
    BY <1>1, <1>2, <2>1 DEF HandleRecord
  <2>3. store'[g] # None
    BY <2>2, NoneAssumption
  <2>4. \A h \in Handles : h # g => store'[h] = store[h]
    BY <1>1, <1>2 DEF TypeOK
  <2> QED BY <1>1, <2>2, <2>3, <2>4 DEF lifeOf
<1>3. lifeOf[g] = "previewed"
  BY <1>1 DEF lifeOf, Held
<1>4. CASE store' = [store EXCEPT ![g].status = "sent"] /\ g \in Published
  <2>1. HC!HCSend(g)
    BY <1>2, <1>3, <1>4 DEF HC!HCSend, Shown, Published
  <2> QED BY <2>1 DEF HC!HCNext
<1>5. CASE store' = [store EXCEPT ![g].status = "cancelled"]
  <2>1. HC!HCCancel(g)
    BY <1>2, <1>3, <1>5 DEF HC!HCCancel, Shown
  <2> QED BY <2>1 DEF HC!HCNext
<1> QED BY <1>4, <1>5

\* Every step of the pipeline is one of the contract's, or changes nothing of it.
LEMMA ContractStep ==
    ASSUME IInv, IInv', [Next]_vars PROVE HC!HCNext \/ UNCHANGED HC!hcVars
<1> USE DEF storeVars, walletVars, chainVars
<1>1. TypeOK /\ CallsInv /\ PreviewInv
  BY CallsInvIs DEF IInv
<1>2. CASE \E c \in Calls : PreviewCommit(c)
  BY <1>2, ContractCommit
<1>3. CASE ~(\E c \in Calls : PreviewCommit(c))
  <2>1. Shown' = Shown
    BY <1>3, ShownStep
  <2>2. ASSUME NEW c \in Calls, pool' = pool \cup {TxOf(c)}, calls[c].h \in Shown,
               UNCHANGED <<issued, store>>
        PROVE  HC!HCNext
    <3>1. PICK g \in Handles : g = calls[c].h
      <4>1. PICK p \in Pinned : calls[p].h = calls[c].h
        BY <2>2 DEF Shown
      <4> QED BY <1>1, <4>1, CallIn DEF Pinned, PreviewInv, PreviewCallInv, Call
    <3>2. Published' = Published \cup {g}
      <4>1. TxOf(c).h = g
        BY <3>1 DEF TxOf
      <4> HIDE DEF TxOf
      <4> QED BY <2>2, <4>1 DEF Published
    <3>3. HC!HCPublish(g)
      BY <2>1, <2>2, <3>1, <3>2 DEF HC!HCPublish, Shown, Published, lifeOf
    <3> QED BY <3>3 DEF HC!HCNext
  <2>3. CASE UNCHANGED pool
    <3>1. ASSUME NEW h \in Handles, NEW shape \in Shapes, Prepare(h, shape)
          PROVE  HC!HCNext
      <4>1. shape # None /\ [status |-> "prepared", createdAt |-> now, pinned |-> None] # None
        BY <1>1, NoneAssumption DEF TypeOK, HandleRecord
      <4>2. /\ issued[h] = None
            /\ issued' = [issued EXCEPT ![h] = shape]
            /\ store' = [store EXCEPT ![h] = [status |-> "prepared", createdAt |-> now,
                                              pinned |-> None]]
        BY <3>1 DEF Prepare, CreateHandle
      <4>3. lifeOf[h] = "absent"
        BY <4>2 DEF lifeOf
      <4>4. lifeOf' = [lifeOf EXCEPT ![h] = "prepared"]
        BY <1>1, <4>1, <4>2 DEF lifeOf, TypeOK
      <4>5. HC!HCPrepare(h)
        BY <2>1, <2>3, <4>3, <4>4 DEF HC!HCPrepare, Shown
      <4> QED BY <4>5 DEF HC!HCNext
    <3>2. ASSUME NEW c \in Calls, SendReply(c) \/ BroadcastReply(c) PROVE HC!HCNext
      <4> DEFINE g == calls[c].h
      <4>1. /\ g \in Handles /\ TransitionToSent(g) /\ TxOf(c) \in pool
            /\ UNCHANGED <<issued, pool>>
        BY <1>1, <3>2, CallIn DEF SendReply, BroadcastReply, Record, CallsInv, CallInv,
                                  SendCallInv, Call
      <4>2. CASE SentOutcome(g) = "ok"
        <5>1. /\ Held(g) /\ store[g].status = "previewed"
              /\ store' = [store EXCEPT ![g].status = "sent"]
          BY <4>1, <4>2 DEF SentOutcome, Lookup, TransitionToSent
        <5>2. g \in Published
          BY <4>1 DEF Published, TxOf
        <5> QED BY <2>1, <4>1, <5>1, <5>2, ContractEnd
      <4>3. CASE SentOutcome(g) # "ok"
        BY <1>1, <2>1, <4>1, <4>3, LookedAt, ForgetStep DEF TransitionToSent
      <4> QED BY <4>2, <4>3
    <3>3. ASSUME NEW c \in Calls, NEW g \in Handles, Cancel(c, g) PROVE HC!HCNext
      <4>1. UNCHANGED <<issued, pool>>
        BY <3>3 DEF Cancel
      <4>2. CASE store' = Looked(g)
        BY <1>1, <2>1, <4>1, <4>2, LookedAt, ForgetStep
      <4>3. CASE store' # Looked(g)
        <5>1. /\ Held(g) /\ store[g].status \notin {"prepared", "sent", "cancelled"}
              /\ store' = [store EXCEPT ![g].status = "cancelled"]
          BY <3>3, <4>3 DEF Cancel, TransitionToCancelled, HandleGuard, Lookup, Terminal
        <5>2. store[g].status = "previewed"
          BY <1>1, <5>1 DEF TypeOK, HandleRecord, Held
        <5> QED BY <2>1, <4>1, <5>1, <5>2, ContractEnd
      <4> QED BY <4>2, <4>3
    <3>4. ASSUME NEW c \in Calls, Begin(c), ~(\E g \in Handles : Cancel(c, g))
          PROVE  HC!HCNext
      <4>1. UNCHANGED <<issued, pool>>
            /\ (UNCHANGED store \/ \E g \in Handles : store' = Looked(g))
        BY <3>4 DEF Begin, PreviewRefuse, PreviewStart, SendRefuse, SendStart
      <4> QED BY <1>1, <2>1, <4>1, LookedAt, ForgetStep
    <3>5. ASSUME NEW c \in Calls, Resume(c), ~SendReply(c), ~BroadcastReply(c)
          PROVE  HC!HCNext
      <4>1. UNCHANGED <<issued, store>>
        BY <1>3, <3>5 DEF Resume, PreviewStatus, PreviewNonce, PreviewRpcError, PreviewSimulate,
                          SendStatus, SendRejected, SendFails,
                          OpenDevice, DeviceAnswers, SignatureRefused, NodeAccepts,
                          BroadcastError
      <4> QED BY <2>1, <2>3, <4>1, ForgetStep
    <3>6. ASSUME NEW h \in Handles, Verify(h) PROVE HC!HCNext
      <4>1. store' = Looked(h) /\ UNCHANGED issued
        BY <3>6 DEF Verify
      <4> QED BY <1>1, <2>1, <2>3, <4>1, LookedAt, ForgetStep
    <3>7. CASE Environment
      <4>1. UNCHANGED issued /\ \A h \in Handles : store'[h] \in {store[h], None}
        BY <3>7 DEF Environment, WalletApprove, WalletReject, Mine, SelectAccount, PairUsb,
                    SetDemoWallet, Tick, Restart, StoreLost
      <4> QED BY <2>1, <2>3, <4>1, ForgetStep
    <3>8. CASE UNCHANGED vars
      BY <2>1, <2>3, <3>8, ForgetStep DEF vars
    <3> QED BY <3>1, <3>2, <3>3, <3>4, <3>5, <3>6, <3>7, <3>8 DEF Next
  <2> QED BY <2>2, <2>3, NewInPool
<1> QED BY <1>2, <1>3

\* Every behaviour of the pipeline is one the handle's contract allows.
THEOREM Implements == Spec => Contract
<1>1. Init => HC!HCInit
  <2> SUFFICES ASSUME Init PROVE HC!HCInit
    OBVIOUS
  <2>1. lifeOf = [h \in Handles |-> "absent"]
    BY DEF Init, StoreInit, lifeOf
  <2>2. Pinned = {} /\ pool = {}
    BY DEF Init, Pinned, IdleCall
  <2> QED BY <2>1, <2>2 DEF HC!HCInit
<1>2. IInv /\ IInv' /\ [Next]_vars => [HC!HCNext]_HC!hcVars
  BY ContractStep
<1> QED BY <1>1, <1>2, Inductive, PTL DEF Spec, Contract, HC!HCSpec
=============================================================================
