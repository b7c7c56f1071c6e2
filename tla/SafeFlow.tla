------------------------------ MODULE SafeFlow ------------------------------
(***************************************************************************)
(* Signing for a Safe: prepare_safe_tx_propose, prepare_safe_tx_approve,    *)
(* prepare_safe_tx_execute, submit_safe_tx_signature and                    *)
(* get_safe_transaction, over the handle store, the client of the Safe      *)
(* transaction service with its cache and its limit of requests, the        *)
(* service itself and the Safes on chain, which other owners use too.       *)
(*                                                                         *)
(* A SafeTx is a Safe, a payload and a nonce, and its hash is the SafeTx;   *)
(* what a caller gives is a spelling of it.  A step ends where the code     *)
(* awaits.  An execution is previewed, signed and sent in one step:         *)
(* SendPipeline is about those.                                             *)
(***************************************************************************)
EXTENDS HandleStore, FiniteSets, FiniteSetsExt, Sequences

CONSTANTS
    Calls,      \* tool calls under way at a time
    Signers,    \* accounts that sign
    Paired,     \* accounts of the session
    Confirmations, \* signatures of a SafeTx that there may be
    Safes,      \* on one chain
    Configs,    \* owners and threshold of each Safe, in the order it takes them
    Payloads,   \* what a SafeTx does
    MaxNonce,   \* bound of the nonce of a Safe
    Spellings,  \* of a hash: which of its letters are capitals
    Lower,      \* the spelling without capitals
    Asked,      \* the requests that callers make
    Limit,      \* PER_SESSION_CALL_LIMIT
    MaxTime     \* bound of the clock

\* A Safe may be past the last SafeTx considered.
Txs == [safe : Safes, payload : Payloads, nonce : 0..MaxNonce - 1]

\* safeTxCache is keyed by the hash as it was given.
Keys == Txs \X Spellings

ASSUME SafeAssumption ==
    /\ Paired \subseteq Signers /\ MaxNonce \in Nat /\ Limit \in Nat /\ MaxTime \in Nat
    \* ECDSA, or of a contract, of eth_sign or pre-approved.
    /\ Confirmations \subseteq [by : Signers, mode : {"ecdsa", "other"}]
    /\ \A s \in Safes : /\ Configs[s] \in Seq([owners : SUBSET Signers, threshold : Nat])
                        /\ Configs[s] # <<>>
    /\ Lower \in Spellings
    /\ Handles \subseteq Nat /\ IsFiniteSet(Signers) /\ Tokens # {}

VARIABLES
    safe,       \* the Safes on chain: which configuration, which nonce
    service,    \* the transaction service: what it holds of each SafeTx
    cache,      \* safeTxCache
    count,      \* agentSessionCallCount
    calls,      \* the calls
    told        \* whose confirmations this process was told are posted, by the keys dropped

vars == <<safe, service, cache, count, calls, told, storeVars>>

-----------------------------------------------------------------------------
(* The Safes and the service                                                *)

\* What is read of a Safe.
Readings == UNION {[of : {s}, config : 1..Len(Configs[s]), nonce : 0..MaxNonce] : s \in Safes}

Owners(s) == Configs[s.of][s.config].owners
Threshold(s) == Configs[s.of][s.config].threshold

\* What the client hears of a SafeTx; "none" where nothing is kept.
Answer(kind, confs) == [kind |-> kind, confs |-> confs]
Answers == [kind : {"none", "ok", "not-found", "error"}, confs : SUBSET Confirmations]

By(confs) == {c.by : c \in confs}

\* execTransaction goes through: it is a SafeTx of this Safe (of another's, the
\* signatures are of another hash), it is its turn, and the signatures are ECDSA
\* signatures of as many owners as it takes.
Succeeds(s, t, confs) ==
    /\ s.of = t.safe
    /\ s.nonce = t.nonce
    /\ Cardinality(By(confs)) >= Threshold(s)
    /\ \A c \in confs : c.mode = "ecdsa" /\ c.by \in Owners(s)

-----------------------------------------------------------------------------
(* A call                                                                   *)

\* A Safe and, but for "propose", a hash, which may be that of a SafeTx of another Safe.
Requests ==
    [tool : {"propose"}, safe : Safes, payload : Payloads, from : Paired] \cup
    [tool : {"approve", "execute"}, safe : Safes, tx : Txs, as : Spellings, from : Paired] \cup
    [tool : {"get"}, tx : Txs, as : Spellings] \cup
    [tool : {"submit"}, safe : Safes, tx : Txs, as : Spellings, sig : Confirmations]

Key(r) == <<r.tx, r.as>>

\* Where a call is: what it waits for, or "idle".
PCs == {"idle", "lookup", "asked", "answered", "chain", "recover", "posting", "posted"}

Call == [pc : PCs, req : Requests \cup {None}, read : Answers, safe : Readings \cup {None},
         handle : Handles \cup {None}]

\* What a handle stands for: the SafeTx, the signatures and the Safe that was read.
Prepared == [as : {"propose", "approve", "execute"}, tx : Txs, confs : SUBSET Confirmations,
             read : Readings]

ASSUME PreparedAssumption == Prepared \subseteq Shapes /\ None \notin Requests /\ Asked \subseteq Requests

NoCall == [pc |-> "idle", req |-> None, read |-> Answer("none", {}), safe |-> None, handle |-> None]

Init ==
    /\ StoreInit
    /\ safe = [s \in Safes |-> [of |-> s, config |-> 1, nonce |-> 0]]
    /\ service = [t \in Txs |-> Answer("not-found", {})]
    /\ cache = [k \in Keys |-> Answer("none", {})]
    /\ count = 0
    /\ calls = [c \in Calls |-> NoCall]
    /\ told = [k \in Keys |-> {}]

At(c, pc) == calls[c].pc = pc
Goto(c, pc) == calls' = [calls EXCEPT ![c].pc = pc]
End(c) == calls' = [calls EXCEPT ![c] = NoCall]

Free == {h \in Handles : issued[h] = None}
NextHandle == Min(Free)

Prepare(c, shape) == Free # {} /\ CreateHandle(NextHandle, shape) /\ End(c) /\ UNCHANGED now

\* submit_safe_tx_signature takes an ECDSA signature that recovers to an account of
\* the session.
Submittable(sig) == sig.mode = "ecdsa" /\ sig.by \in Paired

Ask(c) ==
    /\ At(c, "idle")
    /\ Cardinality(Free) > Cardinality({d \in Calls : ~At(d, "idle")})
    /\ \E r \in Asked :
         /\ r.tool = "submit" => Submittable(r.sig)
         /\ calls' = [calls EXCEPT ![c] =
                        [NoCall EXCEPT !.req = r,
                                       !.pc = IF r.tool \in {"propose", "submit"} THEN "chain" ELSE "lookup"]]
    /\ UNCHANGED <<safe, service, cache, count, told, storeVars>>

\* The handles of a SafeTx, whatever their age and status, first made first; however the
\* hash is spelled.
findHandlesBySafeTxHash(s, t) ==
    {h \in Handles : Held(h) /\ issued[h].as # "execute" /\ issued[h].read.of = s /\ issued[h].tx = t}

FirstMatch(s, t) ==
    IF findHandlesBySafeTxHash(s, t) = {} THEN None ELSE Min(findHandlesBySafeTxHash(s, t))

\* The decision "cancel": the first handle is cancelled, if it can be.
CancelSignature ==
    /\ \E s \in Safes, t \in Txs :
         FirstMatch(s, t) # None /\ TransitionToCancelled(FirstMatch(s, t))
    /\ UNCHANGED <<safe, service, cache, count, calls, told, issued, now>>

-----------------------------------------------------------------------------
(* getMultisigTransaction                                                   *)

\* Mutant: one request too many.
UnderLimitOff == count <= Limit

UnderLimit == count < Limit

\* Whatever is found in the cache is taken, failures too.
After(c, answer) ==
    calls' = [calls EXCEPT ![c] =
                IF answer.kind = "ok" /\ calls[c].req.tool # "get"
                THEN [@ EXCEPT !.pc = "chain", !.read = answer]
                ELSE NoCall]

LookUp(c) ==
    /\ At(c, "lookup")
    /\ LET hit == cache[Key(calls[c].req)] IN
       \/ hit.kind # "none" /\ After(c, hit) /\ UNCHANGED count
       \/ hit.kind = "none" /\ ~UnderLimit /\ End(c) /\ UNCHANGED count
       \/ hit.kind = "none" /\ UnderLimit /\ count' = count + 1 /\ Goto(c, "asked")
    /\ UNCHANGED <<safe, service, cache, told, storeVars>>

\* The service looks; its answer is on the way, or the request fails or times out.
ServiceAnswers(c) ==
    /\ At(c, "asked")
    /\ \E answer \in {service[calls[c].req.tx], Answer("error", {})} :
         calls' = [calls EXCEPT ![c].pc = "answered", ![c].read = answer]
    /\ UNCHANGED <<safe, service, cache, count, told, storeVars>>

AnswerArrives(c) ==
    /\ At(c, "answered")
    /\ cache' = [cache EXCEPT ![Key(calls[c].req)] = calls[c].read]
    /\ After(c, calls[c].read)
    /\ UNCHANGED <<safe, service, count, told, storeVars>>

-----------------------------------------------------------------------------
(* getOnchainSafeInfo, and what follows it                                   *)

\* Mutant: the signatures are counted, not looked at.
ExecutableByCount(s, t, confs) ==
    s.nonce = t.nonce /\ Cardinality(confs) >= Threshold(s)

\* prepare_safe_tx_execute takes a SafeTx whose turn it is, with enough signatures, each
\* of a mode it knows and, for the hash that was given, of an account that is an owner.
\* That the SafeTx is one of this Safe is not looked at.
Executable(s, t, confs) ==
    /\ s.nonce = t.nonce
    /\ Cardinality(confs) >= Threshold(s)
    /\ \A c \in confs : c.mode = "ecdsa" /\ c.by \in Owners(s)

Shape(as, t, confs, s) == [as |-> as, tx |-> t, confs |-> confs, read |-> s]

\* The Safe cannot be read, or is of a version that is not supported.
ChainFails(c) ==
    /\ At(c, "chain") /\ End(c)
    /\ UNCHANGED <<safe, service, cache, count, told, storeVars>>

Propose(c) ==
    /\ At(c, "chain") /\ calls[c].req.tool = "propose"
    /\ LET r == calls[c].req
           s == safe[r.safe]
       IN /\ s.nonce < MaxNonce
          /\ IF r.from \in Owners(s)
             THEN Prepare(c, Shape("propose", [safe |-> r.safe, payload |-> r.payload,
                                               nonce |-> s.nonce], {}, s))
             ELSE End(c) /\ UNCHANGED storeVars
    /\ UNCHANGED <<safe, service, cache, count, told>>

\* The hash is computed anew for this Safe, which refuses a SafeTx of another; the nonce
\* of the Safe is not looked at.
Approve(c) ==
    /\ At(c, "chain") /\ calls[c].req.tool = "approve"
    /\ LET r == calls[c].req
           s == safe[r.safe]
       IN IF r.from \in Owners(s) /\ r.tx.safe = r.safe
          THEN Prepare(c, Shape("approve", r.tx, {}, s))
          ELSE End(c) /\ UNCHANGED storeVars
    /\ UNCHANGED <<safe, service, cache, count, told>>

Execute(c) ==
    /\ At(c, "chain") /\ calls[c].req.tool = "execute"
    /\ LET r == calls[c].req
           s == safe[r.safe]
       IN IF r.from \in Owners(s) /\ Executable(s, r.tx, calls[c].read.confs)
          THEN calls' = [calls EXCEPT ![c].pc = "recover", ![c].safe = s]
          ELSE End(c)
    /\ UNCHANGED <<safe, service, cache, count, told, storeVars>>

\* The signatures are recovered one by one, with an await for each.
Recovered(c) ==
    /\ At(c, "recover")
    /\ Prepare(c, Shape("execute", calls[c].req.tx, calls[c].read.confs, calls[c].safe))
    /\ UNCHANGED <<safe, service, cache, count, told>>

\* The signer is an owner; the handle is found before the signature is posted.
Submit(c) ==
    /\ At(c, "chain") /\ calls[c].req.tool = "submit"
    /\ LET r == calls[c].req IN
       IF r.sig.by \in Owners(safe[r.safe]) /\ UnderLimit
       THEN /\ count' = count + 1
            /\ calls' = [calls EXCEPT ![c].pc = "posting", ![c].handle = FirstMatch(r.safe, r.tx)]
       ELSE End(c) /\ UNCHANGED count
    /\ UNCHANGED <<safe, service, cache, told, storeVars>>

-----------------------------------------------------------------------------
(* postSignature                                                            *)

\* The service answers 201, 200 for a confirmation it has, 404 for a SafeTx it has not;
\* or the request does not reach it.
ServiceTakes(c) ==
    /\ At(c, "posting")
    /\ LET t == calls[c].req.tx
           sig == calls[c].req.sig
           Says(kind) == calls' = [calls EXCEPT ![c].pc = "posted", ![c].read = Answer(kind, {})]
       IN \/ Says("error") /\ UNCHANGED service
          \/ service[t].kind = "not-found" /\ Says("not-found") /\ UNCHANGED service
          \/ service[t].kind = "ok" /\ sig.by \in By(service[t].confs) /\ Says("ok") /\ UNCHANGED service
          \/ /\ service[t].kind = "ok" /\ sig.by \notin By(service[t].confs)
             /\ service' = [service EXCEPT ![t].confs = @ \cup {sig}]
             /\ Says("ok")
    /\ UNCHANGED <<safe, cache, count, told, storeVars>>

\* Mutant: the entry in lower case is kept.
KeepEntry(k) == [cache EXCEPT ![k] = Answer("none", {})]

\* The entries of the hash as it is spelled, and in lower case.
DropEntry(k) == [cache EXCEPT ![k] = Answer("none", {}), ![<<k[1], Lower>>] = Answer("none", {})]

\* Mutant: whatever the answer, the signature counts as posted.
AcceptsAny(kind) == kind \in {"ok", "not-found", "error"}

Accepted(kind) == kind = "ok"

Bridge == [token |-> CHOOSE t \in Tokens : TRUE, nonce |-> 0]

\* A read by the same key that has been answered and has not arrived.
ReadUnderWay(k) == \E d \in Calls : At(d, "answered") /\ Key(calls[d].req) = k

\* The handle goes through "previewed" to "sent", if it still can; what becomes of it
\* does not change the answer.
PostReturns(c) ==
    /\ At(c, "posted")
    /\ LET key == Key(calls[c].req)
           h == calls[c].handle
       IN \/ /\ Accepted(calls[c].read.kind)
             /\ cache' = DropEntry(key)
             /\ told' = [k \in Keys |->
                           IF k \in {key, <<key[1], Lower>>} /\ ~ReadUnderWay(k)
                           THEN told[k] \cup {calls[c].req.sig.by} ELSE told[k]]
             /\ store' = IF h = None THEN store
                         ELSE IF PreviewOutcome(h) = "ok"
                         THEN [store EXCEPT ![h].status = "sent", ![h].pinned = Bridge]
                         ELSE Looked(h)
          \/ UNCHANGED <<cache, told, store>>
    /\ End(c)
    /\ UNCHANGED <<safe, service, count, issued, now>>

-----------------------------------------------------------------------------
(* The rest of the world                                                     *)

\* An owner proposes or confirms in another wallet.
OwnerConfirms ==
    /\ \E t \in Txs, sig \in Confirmations :
         /\ sig.by \in Owners(safe[t.safe]) /\ t.nonce >= safe[t.safe].nonce
         /\ sig.by \notin By(service[t].confs)
         /\ service' = [service EXCEPT ![t] = Answer("ok", @.confs \cup {sig})]
    /\ UNCHANGED <<safe, cache, count, calls, told, storeVars>>

\* A SafeTx is executed by someone else; or a module, or a SafeTx, changes the owners.
OwnerExecutes ==
    /\ \E t \in Txs :
         LET s == safe[t.safe] IN
         /\ t.nonce = s.nonce
         /\ Cardinality(By(service[t].confs) \cap Owners(s)) >= Threshold(s)
         /\ s.nonce < MaxNonce
         /\ safe' = [safe EXCEPT ![t.safe].nonce = @ + 1]
    /\ UNCHANGED <<service, cache, count, calls, told, storeVars>>

OwnersChange ==
    /\ \E s \in Safes :
         /\ safe[s].config < Len(Configs[s])
         /\ \E nonce \in {safe[s].nonce, safe[s].nonce + 1} \cap (0..MaxNonce) :
              safe' = [safe EXCEPT ![s] = [of |-> s, config |-> @.config + 1, nonce |-> nonce]]
    /\ UNCHANGED <<service, cache, count, calls, told, storeVars>>

\* A prepared execution is sent, and goes through or reverts.
ExecutionSent ==
    /\ \E h \in Handles :
         /\ Held(h) /\ issued[h].as = "execute" /\ PreviewOutcome(h) = "ok"
         /\ store' = [store EXCEPT ![h].status = "sent", ![h].pinned = Bridge]
         /\ LET s == issued[h].read.of IN
            /\ safe[s].nonce < MaxNonce
            /\ safe' = IF Succeeds(safe[s], issued[h].tx, issued[h].confs)
                       THEN [safe EXCEPT ![s].nonce = @ + 1] ELSE safe
    /\ UNCHANGED <<service, cache, count, calls, told, issued, now>>

Tick ==
    /\ now < MaxTime /\ now' = now + 1
    /\ UNCHANGED <<safe, service, cache, count, calls, told, store, issued>>

\* The process ends and another begins: its memory is gone, requests are not undone.
Restart ==
    /\ StoreLost
    /\ cache' = [k \in Keys |-> Answer("none", {})]
    /\ count' = 0
    /\ calls' = [c \in Calls |-> NoCall]
    /\ told' = [k \in Keys |-> {}]
    /\ UNCHANGED <<safe, service, issued, now>>

Next ==
    \/ \E c \in Calls : Ask(c)
    \/ CancelSignature
    \/ \E c \in Calls : LookUp(c)
    \/ \E c \in Calls : ServiceAnswers(c)
    \/ \E c \in Calls : AnswerArrives(c)
    \/ \E c \in Calls : ChainFails(c)
    \/ \E c \in Calls : Propose(c)
    \/ \E c \in Calls : Approve(c)
    \/ \E c \in Calls : Execute(c)
    \/ \E c \in Calls : Recovered(c)
    \/ \E c \in Calls : Submit(c)
    \/ \E c \in Calls : ServiceTakes(c)
    \/ \E c \in Calls : PostReturns(c)
    \/ OwnerConfirms \/ OwnerExecutes \/ OwnersChange \/ ExecutionSent \/ Tick \/ Restart

Spec == Init /\ [][Next]_vars

-----------------------------------------------------------------------------
(* Properties                                                               *)

(* Every value is one the program can hold; the session never asks the service   *)
(* more often than it may.                                                       *)
TypeOK ==
    /\ safe \in [Safes -> Readings] /\ \A s \in Safes : safe[s].of = s
    /\ service \in [Txs -> Answers] /\ cache \in [Keys -> Answers] /\ told \in [Keys -> SUBSET Paired]
    /\ count \in 0..Limit
    /\ calls \in [Calls -> Call]
    /\ store \in [Handles -> HandleRecord \cup {None}]
    /\ issued \in [Handles -> Prepared \cup {None}]
    /\ now \in Nat

(* An execution is prepared from signatures of one moment, out of the cache, and  *)
(* owners of another: unless the Safe changes after it was read it goes through, if   *)
(* the SafeTx is one of that Safe.  One of another Safe, which this tool takes too when *)
(* the nonces agree and its signers are owners of both, never does.                     *)
PreparedExecutes ==
    \A h \in Handles :
       IF issued[h] = None THEN TRUE
       ELSE LET s == issued[h].read.of IN
            issued[h].as = "execute" /\ issued[h].read = safe[s]
               => (Succeeds(safe[s], issued[h].tx, issued[h].confs) <=> issued[h].tx.safe = s)

(* A handle that is called sent stands for a confirmation that the service holds, *)
(* whatever was cancelled, expired, posted twice or prepared twice meanwhile.     *)
SentMeansPosted ==
    \A h \in Handles :
       IF ~Held(h) THEN TRUE
       ELSE store[h].status = "sent" /\ issued[h].as # "execute"
               => By(service[issued[h].tx].confs) \cap Paired # {}

(* Comment of postSignature: the cache entry is dropped "so subsequent             *)
(* getMultisigTransaction reads pick up the new confirmation".  Those do that spell *)
(* the hash in lower case or as the post spelled it, unless a read so spelled was on *)
(* its way back when the signature was posted.                                       *)
PostedIsSeen ==
    \A k \in Keys : cache[k].kind \in {"ok", "not-found"} => told[k] \subseteq By(cache[k].confs)
=============================================================================
