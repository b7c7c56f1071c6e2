--------------------------- MODULE SafeFlowProofs ---------------------------
(***************************************************************************)
(* What TLAPS proves of SafeFlow, for every set of calls, accounts,         *)
(* signatures, payloads, Safes and configurations of theirs, every spelling  *)
(* of a hash, every limit and TTL.                                          *)
(***************************************************************************)
EXTENDS SafeFlow, TLAPS, FiniteSetTheorems

(* What a call may rely on where it waits: the request it serves, the guard it    *)
(* passed, and what the service was seen to hold.                                 *)
CallOK(c) ==
    /\ ~At(c, "idle")
          => /\ calls[c].req \in Requests
             /\ calls[c].req.tool = "submit" => Submittable(calls[c].req.sig)
    /\ At(c, "lookup") \/ At(c, "asked") \/ At(c, "answered")
          => calls[c].req.tool \in {"approve", "execute", "get"}
    /\ At(c, "answered") /\ calls[c].read.kind # "error"
          => told[Key(calls[c].req)] \subseteq By(calls[c].read.confs)
    /\ At(c, "recover")
          => /\ calls[c].req.tool = "execute" /\ calls[c].safe \in Readings
             /\ Executable(calls[c].safe, calls[c].req.tx, calls[c].read.confs)
    /\ At(c, "posting") \/ At(c, "posted")
          => calls[c].req.tool = "submit"
    /\ At(c, "posted") /\ calls[c].read.kind = "ok"
          => calls[c].req.sig.by \in By(service[calls[c].req.tx].confs)

CallInv == \A c \in Calls : CallOK(c)

\* A call that posts has the handle of a signature of its own SafeTx.
MatchOK(c) ==
    LET h == calls[c].handle IN
    (At(c, "posting") \/ At(c, "posted")) /\ h # None
       => issued[h] # None /\ issued[h].as # "execute" /\ issued[h].tx = calls[c].req.tx

MatchInv == \A c \in Calls : MatchOK(c)

IssuedInv ==
    \A h \in Handles :
       /\ Held(h) => issued[h] # None
       /\ issued[h] # None
             => (issued[h].as = "execute" => Executable(issued[h].read, issued[h].tx, issued[h].confs))

ToldInv == \A k \in Keys : told[k] \subseteq By(service[k[1]].confs)

IInv == TypeOK /\ CallInv /\ MatchInv /\ IssuedInv /\ ToldInv /\ SentMeansPosted /\ PostedIsSeen

-----------------------------------------------------------------------------
(* Facts about the operators                                                *)

\* A set of handles that is not empty has a first one.
LEMMA FirstHandle ==
    ASSUME NEW S \in SUBSET Handles, S # {}
    PROVE  Min(S) \in S /\ \A h \in S : Min(S) <= h
<1> DEFINE Less == {p \in Nat \X Nat : p[1] < p[2]}
<1>1. Handles \subseteq Nat
  BY SafeAssumption
<1>2. IsWellFoundedOn(Less, Nat)
  BY NatLessThanWellFounded DEF OpToRel
<1>3. PICK h \in S : \A g \in S : ~(<<g, h>> \in Less)
  <2> HIDE DEF Less
  <2> QED BY <1>1, <1>2, WFMin
<1>4. ASSUME NEW g \in S PROVE h <= g
  <2>1. g \in Nat /\ h \in Nat
    BY <1>1
  <2>2. g < h => <<g, h>> \in Less
    BY <2>1
  <2> HIDE DEF Less
  <2> QED BY <2>1, <2>2, <1>3
<1> QED BY <1>4 DEF Min

\* Signatures that are all ECDSA are as many as their signers.
LEMMA SignersCounted ==
    ASSUME NEW confs \in SUBSET Confirmations, \A c \in confs : c.mode = "ecdsa"
    PROVE  /\ Cardinality(By(confs)) = Cardinality(confs)
           /\ Cardinality(confs) \in Nat
<1> DEFINE f == [c \in confs |-> c.by]
<1>1. Confirmations \subseteq [by : Signers, mode : {"ecdsa", "other"}]
  BY SafeAssumption
<1>2. \A c, d \in confs : c.by = d.by => c = d
  <2> SUFFICES ASSUME NEW c \in confs, NEW d \in confs, c.by = d.by PROVE c = d
    OBVIOUS
  <2>1. c = [by |-> c.by, mode |-> c.mode] /\ d = [by |-> d.by, mode |-> d.mode]
    BY <1>1
  <2> QED BY <2>1
<1>3. f \in Injection(confs, By(confs))
  BY <1>2 DEF Injection, IsInjective, By
<1>4. f \in Surjection(confs, By(confs))
  BY DEF Surjection, By
<1>5. By(confs) \in SUBSET Signers
  BY <1>1 DEF By
<1>6. IsFiniteSet(By(confs))
  BY <1>5, FS_Subset, SafeAssumption
<1>7. IsFiniteSet(confs) /\ Cardinality(confs) = Cardinality(By(confs))
  BY <1>3, <1>4, <1>6, FS_Injection
<1> QED BY <1>7, FS_CardinalityType

\* What a request of each tool holds.
LEMMA RequestFields ==
    ASSUME NEW r \in Requests
    PROVE  /\ r.tool \in {"propose", "approve", "execute", "get", "submit"}
           /\ r.tool = "propose" => r.payload \in Payloads
           /\ r.tool # "get" => r.safe \in Safes
           /\ r.tool \in {"approve", "execute", "get", "submit"}
                 => /\ r.tx \in Txs /\ r.as \in Spellings
                    /\ Key(r) \in Keys /\ Key(r)[1] = r.tx /\ <<r.tx, Lower>> \in Keys
           /\ r.tool = "submit" => r.sig \in Confirmations
<1>1. /\ r.tool \in {"propose", "approve", "execute", "get", "submit"}
      /\ r.tool = "propose" => r.payload \in Payloads
      /\ r.tool # "get" => r.safe \in Safes
      /\ r.tool \in {"approve", "execute", "get", "submit"} => r.tx \in Txs /\ r.as \in Spellings
      /\ r.tool = "submit" => r.sig \in Confirmations
  BY DEF Requests
<1> QED BY <1>1, SafeAssumption DEF Key, Keys

\* What was read of a Safe.
LEMMA ReadingFields ==
    ASSUME NEW r \in Readings
    PROVE  r.of \in Safes /\ r.config \in 1..Len(Configs[r.of]) /\ r.nonce \in 0..MaxNonce
<1>1. PICK s \in Safes : r \in [of : {s}, config : 1..Len(Configs[s]), nonce : 0..MaxNonce]
  BY DEF Readings
<1> QED BY <1>1

LEMMA ReadingIs ==
    ASSUME NEW s \in Safes, NEW config \in 1..Len(Configs[s]), NEW nonce \in 0..MaxNonce
    PROVE  [of |-> s, config |-> config, nonce |-> nonce] \in Readings
<1>1. [of |-> s, config |-> config, nonce |-> nonce]
         \in [of : {s}, config : 1..Len(Configs[s]), nonce : 0..MaxNonce]
  OBVIOUS
<1> QED BY <1>1 DEF Readings

\* What a Safe is at.
LEMMA SafeIs ==
    ASSUME TypeOK, NEW s \in Safes
    PROVE  /\ safe[s] = [of |-> s, config |-> safe[s].config, nonce |-> safe[s].nonce]
           /\ safe[s].config \in 1..Len(Configs[s]) /\ safe[s].nonce \in 0..MaxNonce
<1>1. safe[s] \in Readings /\ safe[s].of = s
  BY DEF TypeOK
<1>2. PICK x \in Safes : safe[s] \in [of : {x}, config : 1..Len(Configs[x]), nonce : 0..MaxNonce]
  BY <1>1 DEF Readings
<1>3. x = s
  BY <1>1, <1>2
<1> QED BY <1>2, <1>3

\* A Safe that moves on is still that Safe.
LEMMA SafeMoves ==
    ASSUME TypeOK, NEW s \in Safes, NEW config \in 1..Len(Configs[s]), NEW nonce \in 0..MaxNonce,
           safe' = [safe EXCEPT ![s] = [of |-> s, config |-> config, nonce |-> nonce]]
    PROVE  safe' \in [Safes -> Readings] /\ \A x \in Safes : safe'[x].of = x
<1> DEFINE new == [of |-> s, config |-> config, nonce |-> nonce]
<1>1. new \in Readings /\ new.of = s
  BY ReadingIs
<1> HIDE DEF new
<1>2. safe' = [safe EXCEPT ![s] = new]
  BY DEF new
<1> QED BY <1>1, <1>2 DEF TypeOK

\* It executes a SafeTx.
LEMMA NonceMoves ==
    ASSUME TypeOK, NEW s \in Safes, safe[s].nonce < MaxNonce, safe' = [safe EXCEPT ![s].nonce = @ + 1]
    PROVE  safe' \in [Safes -> Readings] /\ \A x \in Safes : safe'[x].of = x
<1>1. /\ safe[s] = [of |-> s, config |-> safe[s].config, nonce |-> safe[s].nonce]
      /\ safe[s].config \in 1..Len(Configs[s]) /\ safe[s].nonce \in 0..MaxNonce
  BY SafeIs
<1>2. safe[s].nonce + 1 \in 0..MaxNonce
  BY <1>1, SafeAssumption
<1>3. [safe[s] EXCEPT !.nonce = @ + 1] = [of |-> s, config |-> safe[s].config, nonce |-> safe[s].nonce + 1]
  BY <1>1
<1>4. safe' = [safe EXCEPT ![s] = [safe[s] EXCEPT !.nonce = @ + 1]]
  BY DEF TypeOK
<1>5. safe' = [safe EXCEPT ![s] = [of |-> s, config |-> safe[s].config, nonce |-> safe[s].nonce + 1]]
  BY <1>3, <1>4
<1> QED BY <1>1, <1>2, <1>5, SafeMoves

\* The parts of a call.
LEMMA CallFields ==
    ASSUME TypeOK, NEW c \in Calls
    PROVE  /\ calls[c] \in Call
           /\ calls[c].pc \in PCs
           /\ calls[c].req \in Requests \cup {None}
           /\ calls[c].read \in Answers
           /\ calls[c].read.confs \in SUBSET Confirmations
           /\ calls[c].safe \in Readings \cup {None}
           /\ calls[c].handle \in Handles \cup {None}
<1>1. calls[c] \in Call
  BY DEF TypeOK
<1>2. /\ calls[c].pc \in PCs
      /\ calls[c].req \in Requests \cup {None}
      /\ calls[c].read \in Answers
      /\ calls[c].safe \in Readings \cup {None}
      /\ calls[c].handle \in Handles \cup {None}
  BY <1>1 DEF Call
<1>3. calls[c].read.confs \in SUBSET Confirmations
  BY <1>2 DEF Answers
<1> QED BY <1>1, <1>2, <1>3

\* An idle call is a call.
LEMMA NoCallType == NoCall \in Call
<1>1. Answer("none", {}) \in Answers
  BY DEF Answer, Answers
<1> QED BY <1>1 DEF NoCall, Call, PCs

\* Where a call may be.
LEMMA PCNames ==
    /\ "idle" \in PCs /\ "lookup" \in PCs /\ "asked" \in PCs /\ "answered" \in PCs
    /\ "chain" \in PCs /\ "recover" \in PCs /\ "posting" \in PCs /\ "posted" \in PCs
  BY DEF PCs

\* Ending a call, or moving it on, keeps the type of the calls.
LEMMA CallsType ==
    ASSUME TypeOK, NEW c \in Calls, NEW r \in Call, calls' = [calls EXCEPT ![c] = r]
    PROVE  /\ calls' \in [Calls -> Call]
           /\ calls'[c] = r
           /\ \A d \in Calls \ {c} : calls'[d] = calls[d]
  BY DEF TypeOK

\* A call that moves on keeps its type.
LEMMA GotoType ==
    ASSUME TypeOK, NEW c \in Calls, NEW pc \in PCs
    PROVE  [calls[c] EXCEPT !.pc = pc] \in Call
<1>1. calls[c] \in Call
  BY CallFields
<1> QED BY <1>1 DEF Call

\* A lookup that expires a handle leaves the others as they are.
LEMMA LookedFacts ==
    ASSUME TypeOK, NEW h \in Handles
    PROVE  /\ Looked(h) \in [Handles -> HandleRecord \cup {None}]
           /\ \A g \in Handles : Looked(h)[g] = store[g] \/ Looked(h)[g] = None
  BY DEF TypeOK, Looked

\* So does a transition of the store, which gives one handle its status.
LEMMA TransitionFacts ==
    ASSUME TypeOK, NEW h \in Handles, NEW s \in {"sent", "cancelled"}, PreviewOutcome(h) = "ok",
           store' = [store EXCEPT ![h].status = s]
    PROVE  /\ store' \in [Handles -> HandleRecord \cup {None}]
           /\ Held(h)
           /\ store'[h] # None
           /\ store'[h].status = s
           /\ \A g \in Handles \ {h} : store'[g] = store[g]
<1>1. Held(h) /\ store[h] \in HandleRecord
  BY DEF PreviewOutcome, Lookup, TypeOK, Held
<1>2. [store[h] EXCEPT !.status = s] \in HandleRecord
  BY <1>1 DEF HandleRecord
<1>3. [store[h] EXCEPT !.status = s].status = s
  BY <1>1 DEF HandleRecord
<1>4. store' = [store EXCEPT ![h] = [store[h] EXCEPT !.status = s]]
  OBVIOUS
<1>5. store'[h] = [store[h] EXCEPT !.status = s]
  BY <1>4 DEF TypeOK
<1> QED BY <1>1, <1>2, <1>3, <1>4, <1>5, NoneAssumption DEF TypeOK

\* The same for a handle that is taken to "sent" by way of a preview.
LEMMA BridgeFacts ==
    ASSUME TypeOK, NEW h \in Handles, PreviewOutcome(h) = "ok", Bridge \in PreviewPinned,
           store' = [store EXCEPT ![h].status = "sent", ![h].pinned = Bridge]
    PROVE  /\ store' \in [Handles -> HandleRecord \cup {None}]
           /\ Held(h)
           /\ \A g \in Handles \ {h} : store'[g] = store[g]
<1>1. Held(h) /\ store[h] \in HandleRecord
  BY DEF PreviewOutcome, Lookup, TypeOK, Held
<1>2. [store[h] EXCEPT !.status = "sent", !.pinned = Bridge] \in HandleRecord
  BY <1>1 DEF HandleRecord
<1>3. store' = [store EXCEPT ![h] = [store[h] EXCEPT !.status = "sent", !.pinned = Bridge]]
  BY DEF TypeOK
<1> QED BY <1>1, <1>2, <1>3 DEF TypeOK

-----------------------------------------------------------------------------
(* What a step leaves alone                                                  *)

\* The service forgets nothing.
Grows == \A t \in Txs : By(service[t].confs) \subseteq By(service'[t].confs)

\* The token of the bridge to "sent".
LEMMA BridgeType == Bridge \in PreviewPinned
<1>1. (CHOOSE t \in Tokens : TRUE) \in Tokens
  BY SafeAssumption
<1> QED BY <1>1 DEF Bridge, PreviewPinned

\* A call that does not move keeps what it relies on.
LEMMA CallKept ==
    ASSUME IInv, NEW d \in Calls, calls'[d] = calls[d], Grows,
           \A k \in Keys : ReadUnderWay(k) => told'[k] \subseteq told[k]
    PROVE  CallOK(d)'
<1>1. CallOK(d) /\ TypeOK
  BY DEF IInv, CallInv
<1>2. \A pc : At(d, pc)' <=> At(d, pc)
  BY DEF At
<1>3. CASE At(d, "answered") /\ calls[d].read.kind # "error"
  <2>1. calls[d].req \in Requests /\ calls[d].req.tool \in {"approve", "execute", "get"}
    BY <1>1, <1>3 DEF CallOK, At
  <2>2. Key(calls[d].req) \in Keys
    BY <2>1, RequestFields
  <2>3. ReadUnderWay(Key(calls[d].req))
    BY <1>3 DEF ReadUnderWay
  <2>4. told'[Key(calls[d].req)] \subseteq By(calls[d].read.confs)
    BY <1>1, <1>3, <2>2, <2>3 DEF CallOK
  <2> QED BY <1>1, <1>2, <1>3, <2>1, <2>4 DEF CallOK, At
<1>4. CASE At(d, "posted") /\ calls[d].read.kind = "ok"
  <2>1. calls[d].req \in Requests /\ calls[d].req.tool = "submit" /\ Submittable(calls[d].req.sig)
        /\ calls[d].req.sig.by \in By(service[calls[d].req.tx].confs)
    BY <1>1, <1>4 DEF CallOK, At
  <2>2. calls[d].req.tx \in Txs
    BY <2>1, RequestFields
  <2>3. calls[d].req.sig.by \in By(service'[calls[d].req.tx].confs)
    BY <2>1, <2>2 DEF Grows
  <2> QED BY <1>2, <1>4, <2>1, <2>3 DEF CallOK, At, Submittable
<1>5. CASE ~(At(d, "posted") /\ calls[d].read.kind = "ok")
           /\ ~(At(d, "answered") /\ calls[d].read.kind # "error")
  BY <1>1, <1>2, <1>5 DEF CallOK, Submittable, Executable, Owners, Threshold
<1> QED BY <1>3, <1>4, <1>5

\* And its handle stands for what it stood for.
LEMMA MatchKept ==
    ASSUME IInv, NEW d \in Calls, calls'[d] = calls[d],
           \A h \in Handles : issued[h] # None => issued'[h] = issued[h]
    PROVE  MatchOK(d)'
<1>1. MatchOK(d) /\ TypeOK
  BY DEF IInv, MatchInv
<1>2. calls[d].handle \in Handles \cup {None}
  BY <1>1, CallFields
<1> QED BY <1>1, <1>2 DEF MatchOK, At

\* An idle call relies on nothing.
LEMMA IdleOK ==
    ASSUME NEW c \in Calls, calls'[c] = NoCall
    PROVE  CallOK(c)' /\ MatchOK(c)'
  BY DEF CallOK, MatchOK, At, NoCall

\* An idle call relies on nothing, written for a call that ends.
LEMMA EndFacts ==
    ASSUME TypeOK, NEW c \in Calls, End(c)
    PROVE  /\ calls' \in [Calls -> Call]
           /\ CallOK(c)' /\ MatchOK(c)'
           /\ \A d \in Calls \ {c} : calls'[d] = calls[d]
<1>1. /\ calls' \in [Calls -> Call]
      /\ calls'[c] = NoCall
      /\ \A d \in Calls \ {c} : calls'[d] = calls[d]
  BY NoCallType, CallsType DEF End
<1> QED BY <1>1, IdleOK

\* What is prepared, told or cached is not disturbed by a step of a call alone.
LEMMA CallStep ==
    ASSUME IInv, NEW c \in Calls, NEW r \in Call, calls' = [calls EXCEPT ![c] = r],
           CallOK(c)', MatchOK(c)', count' \in 0..Limit,
           UNCHANGED <<safe, service, cache, told, storeVars>>
    PROVE  IInv'
<1>0. TypeOK
  BY DEF IInv
<1>1. /\ calls' \in [Calls -> Call]
      /\ \A d \in Calls \ {c} : calls'[d] = calls[d]
  BY <1>0, CallsType
<1>2. Grows /\ \A k \in Keys : told'[k] \subseteq told[k]
  BY DEF Grows
<1>3. CallInv'
  BY <1>1, <1>2, CallKept DEF CallInv
<1>4. MatchInv'
  BY <1>1, MatchKept DEF MatchInv, storeVars
<1>5. TypeOK'
  BY <1>0, <1>1 DEF TypeOK, storeVars
<1>6. IssuedInv' /\ ToldInv' /\ SentMeansPosted' /\ PostedIsSeen'
  BY DEF IInv, IssuedInv, ToldInv, SentMeansPosted, PostedIsSeen, storeVars, Held, Executable,
         Owners, Threshold
<1> QED BY <1>3, <1>4, <1>5, <1>6 DEF IInv

-----------------------------------------------------------------------------
(* The steps of a call                                                       *)

LEMMA AskStep == ASSUME IInv, NEW c \in Calls, Ask(c) PROVE IInv'
<1>1. PICK r \in Asked :
         /\ r.tool = "submit" => Submittable(r.sig)
         /\ calls' = [calls EXCEPT ![c] =
                        [NoCall EXCEPT !.req = r,
                                       !.pc = IF r.tool \in {"propose", "submit"} THEN "chain" ELSE "lookup"]]
  BY DEF Ask
<1> DEFINE n == [NoCall EXCEPT !.req = r,
                               !.pc = IF r.tool \in {"propose", "submit"} THEN "chain" ELSE "lookup"]
<1>2. r \in Requests
  BY PreparedAssumption
<1>8. n \in Call /\ n.req = r /\ n.pc = IF r.tool \in {"propose", "submit"} THEN "chain" ELSE "lookup"
  BY <1>2, NoCallType, PCNames DEF Call, NoCall
<1>3. r.tool \in {"propose", "submit"} \/ r.tool \in {"approve", "execute", "get"}
  BY <1>2, RequestFields
<1> HIDE DEF n
<1>4. calls'[c] = n
  BY <1>1, <1>8, CallsType DEF IInv, n
<1>5. CallOK(c)' /\ MatchOK(c)'
  BY <1>1, <1>2, <1>3, <1>4, <1>8 DEF CallOK, MatchOK, At, Submittable
<1>6. count' \in 0..Limit
  BY DEF Ask, IInv, TypeOK
<1>7. calls' = [calls EXCEPT ![c] = n] /\ UNCHANGED <<safe, service, cache, told, storeVars>>
  BY <1>1 DEF Ask, n
<1> QED BY <1>5, <1>6, <1>7, <1>8, CallStep

\* A call that ends without having changed anything else.
LEMMA EndStep ==
    ASSUME IInv, NEW c \in Calls, End(c), count' \in 0..Limit,
           UNCHANGED <<safe, service, cache, told, storeVars>>
    PROVE  IInv'
<1>1. CallOK(c)' /\ MatchOK(c)'
  BY EndFacts DEF IInv
<1> QED BY <1>1, NoCallType, CallStep DEF End

\* What becomes of a call that has its answer.
LEMMA AfterFacts ==
    ASSUME IInv, NEW c \in Calls, NEW answer \in Answers, After(c, answer),
           At(c, "lookup") \/ At(c, "answered")
    PROVE  \E r \in Call : calls' = [calls EXCEPT ![c] = r] /\ CallOK(c)' /\ MatchOK(c)'
<1>0. TypeOK /\ CallOK(c)
  BY DEF IInv, CallInv
<1>1. /\ calls[c] \in Call /\ calls[c].req \in Requests
      /\ calls[c].req.tool = "submit" => Submittable(calls[c].req.sig)
  BY <1>0, CallFields DEF CallOK, At
<1>2. CASE answer.kind = "ok" /\ calls[c].req.tool # "get"
  <2> DEFINE r == [calls[c] EXCEPT !.pc = "chain", !.read = answer]
  <2>1. r \in Call /\ r.pc = "chain" /\ r.req = calls[c].req
    BY <1>1, PCNames DEF Call
  <2>2. calls' = [calls EXCEPT ![c] = r]
    BY <1>2 DEF After
  <2> HIDE DEF r
  <2>3. calls'[c] = r
    BY <1>0, <2>1, <2>2, CallsType
  <2>4. CallOK(c)' /\ MatchOK(c)'
    BY <1>1, <2>1, <2>3 DEF CallOK, MatchOK, At, Submittable
  <2> QED BY <2>1, <2>2, <2>4
<1>3. CASE ~(answer.kind = "ok" /\ calls[c].req.tool # "get")
  <2>1. calls' = [calls EXCEPT ![c] = NoCall]
    BY <1>3 DEF After
  <2>2. CallOK(c)' /\ MatchOK(c)'
    BY <1>0, <2>1, NoCallType, CallsType, IdleOK
  <2> QED BY <2>1, <2>2, NoCallType
<1> QED BY <1>2, <1>3

LEMMA LookUpStep == ASSUME IInv, NEW c \in Calls, LookUp(c) PROVE IInv'
<1> DEFINE hit == cache[Key(calls[c].req)]
<1>0. TypeOK /\ CallOK(c)
  BY DEF IInv, CallInv
<1>1. /\ calls[c] \in Call /\ calls[c].req \in Requests /\ calls[c].req.tx \in Txs
      /\ calls[c].req.tool \in {"approve", "execute", "get"}
      /\ Key(calls[c].req) \in Keys /\ Key(calls[c].req)[1] = calls[c].req.tx
  BY <1>0, CallFields, RequestFields DEF CallOK, At, LookUp
<1>2. hit \in Answers /\ count \in 0..Limit
  BY <1>0, <1>1 DEF TypeOK
<1>3. At(c, "lookup") /\ UNCHANGED <<safe, service, cache, told, storeVars>>
  BY DEF LookUp
<1>4. ASSUME After(c, hit), UNCHANGED count PROVE IInv'
  BY <1>2, <1>3, <1>4, AfterFacts, CallStep
<1>5. ASSUME End(c), UNCHANGED count PROVE IInv'
  BY <1>2, <1>3, <1>5, EndStep
<1>6. ASSUME UnderLimit, count' = count + 1, Goto(c, "asked") PROVE IInv'
  <2> DEFINE r == [calls[c] EXCEPT !.pc = "asked"]
  <2>1. r \in Call /\ r.pc = "asked" /\ r.req = calls[c].req
    BY <1>0, <1>1, GotoType, PCNames DEF Call
  <2>2. calls' = [calls EXCEPT ![c] = r]
    BY <1>6 DEF Goto
  <2>3. count' \in 0..Limit
    BY <1>2, <1>6, SafeAssumption DEF UnderLimit
  <2> HIDE DEF r
  <2>4. calls'[c] = r
    BY <1>0, <2>1, <2>2, CallsType
  <2>5. CallOK(c)' /\ MatchOK(c)'
    BY <1>1, <2>1, <2>4 DEF CallOK, MatchOK, At
  <2> QED BY <1>3, <2>1, <2>2, <2>3, <2>5, CallStep
<1> QED BY <1>4, <1>5, <1>6 DEF LookUp

LEMMA ServiceAnswersStep == ASSUME IInv, NEW c \in Calls, ServiceAnswers(c) PROVE IInv'
<1>0. TypeOK /\ CallOK(c) /\ ToldInv
  BY DEF IInv, CallInv
<1>1. /\ calls[c] \in Call /\ calls[c].req \in Requests /\ calls[c].req.tx \in Txs
      /\ calls[c].req.tool \in {"approve", "execute", "get"}
      /\ Key(calls[c].req) \in Keys /\ Key(calls[c].req)[1] = calls[c].req.tx
  BY <1>0, CallFields, RequestFields DEF CallOK, At, ServiceAnswers
<1>2. PICK answer \in {service[calls[c].req.tx], Answer("error", {})} :
         calls' = [calls EXCEPT ![c].pc = "answered", ![c].read = answer]
  BY DEF ServiceAnswers
<1>3. answer \in Answers
  BY <1>0, <1>1 DEF TypeOK, Answer, Answers
<1>4. answer.kind # "error" => told[Key(calls[c].req)] \subseteq By(answer.confs)
  BY <1>0, <1>1, <1>2 DEF ToldInv, Answer
<1> DEFINE r == [calls[c] EXCEPT !.pc = "answered", !.read = answer]
<1>5. r \in Call /\ r.pc = "answered" /\ r.req = calls[c].req /\ r.read = answer
  BY <1>1, <1>3, PCNames DEF Call
<1>6. calls' = [calls EXCEPT ![c] = r]
  BY <1>0, <1>2 DEF TypeOK
<1>7. count' \in 0..Limit /\ UNCHANGED <<safe, service, cache, told, storeVars>>
  BY <1>0 DEF ServiceAnswers, TypeOK
<1> HIDE DEF r
<1>8. calls'[c] = r
  BY <1>0, <1>5, <1>6, CallsType
<1>9. CallOK(c)' /\ MatchOK(c)'
  BY <1>1, <1>4, <1>5, <1>7, <1>8 DEF CallOK, MatchOK, At
<1> QED BY <1>5, <1>6, <1>7, <1>9, CallStep

LEMMA AnswerArrivesStep == ASSUME IInv, NEW c \in Calls, AnswerArrives(c) PROVE IInv'
<1>0. TypeOK /\ CallOK(c) /\ PostedIsSeen
  BY DEF IInv, CallInv
<1>1. /\ calls[c].req \in Requests /\ Key(calls[c].req) \in Keys /\ calls[c].read \in Answers
      /\ At(c, "answered")
  BY <1>0, CallFields, RequestFields DEF CallOK, At, AnswerArrives
<1>2. PICK r \in Call : calls' = [calls EXCEPT ![c] = r] /\ CallOK(c)' /\ MatchOK(c)'
  BY <1>1, AfterFacts DEF AnswerArrives
<1>3. /\ calls' \in [Calls -> Call]
      /\ \A d \in Calls \ {c} : calls'[d] = calls[d]
  BY <1>0, <1>2, CallsType
<1>4. /\ cache' = [cache EXCEPT ![Key(calls[c].req)] = calls[c].read]
      /\ UNCHANGED <<safe, service, count, told, storeVars>>
  BY DEF AnswerArrives
<1>5. cache' \in [Keys -> Answers]
  BY <1>0, <1>1, <1>4 DEF TypeOK
<1>6. TypeOK'
  BY <1>0, <1>3, <1>4, <1>5 DEF TypeOK, storeVars
<1>7. CallInv' /\ MatchInv'
  BY <1>2, <1>3, <1>4, CallKept, MatchKept DEF CallInv, MatchInv, Grows, storeVars
<1>8. PostedIsSeen'
  <2> SUFFICES ASSUME NEW k \in Keys, cache'[k].kind \in {"ok", "not-found"}
               PROVE  told[k] \subseteq By(cache'[k].confs)
    BY <1>4 DEF PostedIsSeen
  <2>1. CASE k = Key(calls[c].req)
    <3>1. cache'[k] = calls[c].read
      BY <1>0, <1>4, <2>1 DEF TypeOK
    <3> QED BY <1>0, <1>1, <2>1, <3>1 DEF CallOK
  <2>2. CASE k # Key(calls[c].req)
    <3>1. cache'[k] = cache[k]
      BY <1>0, <1>4, <2>2 DEF TypeOK
    <3> QED BY <1>0, <3>1 DEF PostedIsSeen
  <2> QED BY <2>1, <2>2
<1>9. IssuedInv' /\ ToldInv' /\ SentMeansPosted'
  BY <1>4 DEF IInv, IssuedInv, ToldInv, SentMeansPosted, storeVars, Held, Executable, Owners, Threshold
<1> QED BY <1>6, <1>7, <1>8, <1>9 DEF IInv

\* Nothing else of a call's fields matters to a call that reads the Safe.
LEMMA ChainFailsStep == ASSUME IInv, NEW c \in Calls, ChainFails(c) PROVE IInv'
<1>1. End(c) /\ count' \in 0..Limit /\ UNCHANGED <<safe, service, cache, told, storeVars>>
  BY DEF ChainFails, IInv, TypeOK
<1> QED BY <1>1, EndStep

LEMMA ExecuteStep == ASSUME IInv, NEW c \in Calls, Execute(c) PROVE IInv'
<1>0. TypeOK /\ CallOK(c)
  BY DEF IInv, CallInv
<1> DEFINE s == safe[calls[c].req.safe]
<1>1. /\ calls[c] \in Call /\ calls[c].req \in Requests /\ calls[c].req.tool = "execute"
      /\ calls[c].req.safe \in Safes
  BY <1>0, CallFields, RequestFields DEF CallOK, At, Execute
<1>2. s \in Readings /\ count' \in 0..Limit /\ UNCHANGED <<safe, service, cache, told, storeVars>>
  BY <1>0, <1>1 DEF Execute, TypeOK
<1> HIDE DEF s
<1>3. CASE End(c)
  BY <1>2, <1>3, EndStep
<1>4. ASSUME Executable(s, calls[c].req.tx, calls[c].read.confs),
             calls' = [calls EXCEPT ![c].pc = "recover", ![c].safe = s]
      PROVE  IInv'
  <2> DEFINE r == [calls[c] EXCEPT !.pc = "recover", !.safe = s]
  <2>1. /\ r \in Call /\ r.pc = "recover" /\ r.req = calls[c].req /\ r.read = calls[c].read
        /\ r.safe = s
    BY <1>1, <1>2, PCNames DEF Call
  <2>2. calls' = [calls EXCEPT ![c] = r]
    BY <1>0, <1>4 DEF TypeOK
  <2> HIDE DEF r
  <2>3. calls'[c] = r
    BY <1>0, <2>1, <2>2, CallsType
  <2>4. CallOK(c)' /\ MatchOK(c)'
    BY <1>1, <1>2, <1>4, <2>1, <2>3 DEF CallOK, MatchOK, At, Executable, Owners, Threshold
  <2> QED BY <1>2, <2>1, <2>2, <2>4, CallStep
<1> QED BY <1>3, <1>4 DEF Execute, s

\* The first of the handles of a SafeTx is one of them.
LEMMA FirstMatchIs ==
    ASSUME TypeOK, IssuedInv, NEW s \in Safes, NEW t \in Txs, FirstMatch(s, t) # None
    PROVE  /\ FirstMatch(s, t) \in Handles
           /\ Held(FirstMatch(s, t)) /\ issued[FirstMatch(s, t)] # None
           /\ issued[FirstMatch(s, t)].as # "execute" /\ issued[FirstMatch(s, t)].tx = t
<1>1. findHandlesBySafeTxHash(s, t) \in SUBSET Handles /\ findHandlesBySafeTxHash(s, t) # {}
  BY DEF FirstMatch, findHandlesBySafeTxHash
<1>2. FirstMatch(s, t) \in findHandlesBySafeTxHash(s, t)
  BY <1>1, FirstHandle DEF FirstMatch
<1> QED BY <1>2 DEF findHandlesBySafeTxHash, IssuedInv

LEMMA SubmitStep == ASSUME IInv, NEW c \in Calls, Submit(c) PROVE IInv'
<1>0. TypeOK /\ CallOK(c) /\ IssuedInv
  BY DEF IInv, CallInv
<1>1. /\ calls[c] \in Call /\ calls[c].req \in Requests /\ calls[c].req.tx \in Txs
      /\ calls[c].req.safe \in Safes
      /\ calls[c].req.tool = "submit" /\ Submittable(calls[c].req.sig) /\ count \in 0..Limit
  BY <1>0, CallFields, RequestFields DEF CallOK, At, Submit, TypeOK
<1>2. UNCHANGED <<safe, service, cache, told, storeVars>>
  BY DEF Submit
<1>3. ASSUME End(c), UNCHANGED count PROVE IInv'
  BY <1>1, <1>2, <1>3, EndStep
<1>4. ASSUME UnderLimit, count' = count + 1, Submittable(calls[c].req.sig),
             calls' = [calls EXCEPT ![c].pc = "posting", ![c].handle = FirstMatch(calls[c].req.safe, calls[c].req.tx)]
      PROVE  IInv'
  <2> DEFINE h == FirstMatch(calls[c].req.safe, calls[c].req.tx)
             r == [calls[c] EXCEPT !.pc = "posting", !.handle = h]
  <2>1. /\ h \in Handles \cup {None}
        /\ h # None => issued[h] # None /\ issued[h].as # "execute" /\ issued[h].tx = calls[c].req.tx
    BY <1>0, <1>1, FirstMatchIs
  <2>2. calls' = [calls EXCEPT ![c] = r]
    BY <1>0, <1>4 DEF TypeOK
  <2> HIDE DEF h
  <2>3. r \in Call /\ r.pc = "posting" /\ r.req = calls[c].req /\ r.handle = h
    BY <1>1, <2>1, PCNames DEF Call
  <2> HIDE DEF r
  <2>4. calls'[c] = r
    BY <1>0, <2>2, <2>3, CallsType
  <2>5. CallOK(c)' /\ MatchOK(c)'
    BY <1>1, <1>2, <1>4, <2>1, <2>3, <2>4 DEF CallOK, MatchOK, At, Submittable, storeVars
  <2>6. count' \in 0..Limit
    BY <1>1, <1>4, SafeAssumption DEF UnderLimit
  <2> QED BY <1>2, <2>2, <2>3, <2>5, <2>6, CallStep
<1> QED BY <1>1, <1>3, <1>4 DEF Submit

\* A handle that is prepared stands for what was read, and for nothing yet posted.
LEMMA PrepareStep ==
    ASSUME IInv, NEW c \in Calls, NEW shape \in Prepared, Prepare(c, shape),
           shape.as = "execute" => Executable(shape.read, shape.tx, shape.confs),
           UNCHANGED <<safe, service, cache, count, told>>
    PROVE  IInv'
<1> DEFINE h == NextHandle
           new == [status |-> "prepared", createdAt |-> now, pinned |-> None]
<1>0. TypeOK
  BY DEF IInv
<1>1. h \in Handles /\ issued[h] = None
  BY FirstHandle DEF NextHandle, Free, Prepare
<1> HIDE DEF h
<1>2. new \in HandleRecord /\ new.status # "sent" /\ new # None
  BY <1>0, NoneAssumption DEF TypeOK, HandleRecord
<1>3. shape # None
  BY PreparedAssumption, NoneAssumption
<1>4. issued' = [issued EXCEPT ![h] = shape] /\ store' = [store EXCEPT ![h] = new]
  BY DEF Prepare, CreateHandle, h
<1> HIDE DEF new
<1>5. /\ issued'[h] = shape /\ store'[h] = new
      /\ \A g \in Handles \ {h} : issued'[g] = issued[g] /\ store'[g] = store[g]
  BY <1>0, <1>1, <1>4 DEF TypeOK
<1>6. /\ issued' \in [Handles -> Prepared \cup {None}]
      /\ store' \in [Handles -> HandleRecord \cup {None}]
  BY <1>0, <1>2, <1>4 DEF TypeOK
<1>7. End(c) /\ UNCHANGED now
  BY DEF Prepare
<1>8. TypeOK'
  BY <1>0, <1>6, <1>7, EndFacts DEF TypeOK
<1>9. CallInv' /\ MatchInv'
  BY <1>0, <1>1, <1>5, <1>7, EndFacts, CallKept, MatchKept DEF CallInv, MatchInv, Grows
<1>10. IssuedInv'
  <2> SUFFICES ASSUME NEW g \in Handles
               PROVE  /\ store'[g] # None => issued'[g] # None
                      /\ issued'[g] # None => (issued'[g].as = "execute"
                            => Executable(issued'[g].read, issued'[g].tx, issued'[g].confs))
    BY DEF IssuedInv, Held, Executable, Owners, Threshold
  <2>1. CASE g = h
    BY <1>3, <1>5, <2>1
  <2>2. CASE g # h
    BY <1>5, <2>2 DEF IInv, IssuedInv, Held
  <2> QED BY <2>1, <2>2
<1>11. SentMeansPosted'
  <2> SUFFICES ASSUME NEW g \in Handles, store'[g] # None, store'[g].status = "sent",
                      issued'[g].as # "execute"
               PROVE  By(service[issued'[g].tx].confs) \cap Paired # {}
    BY DEF SentMeansPosted, Held
  <2>1. g # h
    BY <1>2, <1>5
  <2> QED BY <1>5, <2>1 DEF IInv, SentMeansPosted, Held
<1>12. ToldInv' /\ PostedIsSeen'
  BY DEF IInv, ToldInv, PostedIsSeen
<1> QED BY <1>8, <1>9, <1>10, <1>11, <1>12 DEF IInv

LEMMA PreparesStep ==
    ASSUME IInv, NEW c \in Calls, Propose(c) \/ Approve(c) \/ Recovered(c)
    PROVE  IInv'
<1>0. TypeOK /\ CallOK(c)
  BY DEF IInv, CallInv
<1>1. calls[c].req \in Requests /\ calls[c].read.confs \in SUBSET Confirmations
      /\ safe \in [Safes -> Readings] /\ count \in 0..Limit
  BY <1>0, CallFields DEF CallOK, At, Propose, Approve, Recovered, TypeOK
<1>2. CASE Propose(c)
  <2> DEFINE at == safe[calls[c].req.safe]
             t == [safe |-> calls[c].req.safe, payload |-> calls[c].req.payload, nonce |-> at.nonce]
             s == Shape("propose", t, {}, at)
  <2>0. calls[c].req.payload \in Payloads /\ calls[c].req.safe \in Safes /\ at.nonce < MaxNonce
    BY <1>1, <1>2, RequestFields DEF Propose
  <2>6. at \in Readings
    BY <1>1, <2>0
  <2> HIDE DEF at
  <2>1. at.nonce \in 0..MaxNonce - 1
    BY <2>0, <2>6, ReadingFields, SafeAssumption
  <2>2. t \in Txs
    BY <2>0, <2>1 DEF Txs
  <2> HIDE DEF t
  <2>3. s \in Prepared /\ s.as # "execute"
    BY <2>2, <2>6 DEF Shape, Prepared
  <2> HIDE DEF s
  <2>4. CASE Prepare(c, s)
    BY <1>2, <2>3, <2>4, PrepareStep DEF Propose
  <2>5. CASE End(c) /\ UNCHANGED storeVars
    BY <1>1, <1>2, <2>5, EndStep DEF Propose
  <2> QED BY <1>2, <2>4, <2>5 DEF Propose, s, t, at
<1>3. CASE Approve(c)
  <2>1. calls[c].req.tx \in Txs /\ safe[calls[c].req.safe] \in Readings
    BY <1>1, <1>3, RequestFields DEF Approve
  <2> DEFINE s == Shape("approve", calls[c].req.tx, {}, safe[calls[c].req.safe])
  <2>2. s \in Prepared /\ s.as # "execute"
    BY <1>1, <2>1 DEF Shape, Prepared
  <2> HIDE DEF s
  <2>3. CASE Prepare(c, s)
    BY <1>3, <2>2, <2>3, PrepareStep DEF Approve
  <2>4. CASE End(c) /\ UNCHANGED storeVars
    BY <1>1, <1>3, <2>4, EndStep DEF Approve
  <2> QED BY <1>3, <2>3, <2>4 DEF Approve, s
<1>4. CASE Recovered(c)
  <2>1. /\ calls[c].req.tool = "execute" /\ calls[c].safe \in Readings
        /\ Executable(calls[c].safe, calls[c].req.tx, calls[c].read.confs)
    BY <1>0, <1>4 DEF Recovered, CallOK
  <2>2. calls[c].req.tx \in Txs
    BY <1>1, <2>1, RequestFields
  <2> DEFINE s == Shape("execute", calls[c].req.tx, calls[c].read.confs, calls[c].safe)
  <2>3. /\ s \in Prepared /\ s.tx = calls[c].req.tx /\ s.confs = calls[c].read.confs
        /\ s.read = calls[c].safe
    BY <1>1, <2>1, <2>2 DEF Shape, Prepared
  <2>4. Prepare(c, s) /\ UNCHANGED <<safe, service, cache, count, told>>
    BY <1>4 DEF Recovered
  <2> HIDE DEF s
  <2> QED BY <2>1, <2>3, <2>4, PrepareStep
<1> QED BY <1>2, <1>3, <1>4

-----------------------------------------------------------------------------
(* The steps of the service, the store and the rest of the world             *)

\* What the service takes it keeps.
LEMMA ServiceStep ==
    ASSUME IInv,
           service' \in [Txs -> Answers], Grows, calls' \in [Calls -> Call],
           \A c \in Calls : calls'[c] = calls[c] \/ (CallOK(c)' /\ MatchOK(c)'),
           UNCHANGED <<safe, cache, count, told, storeVars>>
    PROVE  IInv'
<1>0. TypeOK
  BY DEF IInv
<1>1. TypeOK'
  BY <1>0 DEF TypeOK, storeVars
<1>2. CallInv' /\ MatchInv'
  BY CallKept, MatchKept DEF CallInv, MatchInv, storeVars
<1>3. IssuedInv' /\ PostedIsSeen'
  BY DEF IInv, IssuedInv, PostedIsSeen, storeVars, Held, Executable, Owners, Threshold
<1>4. ToldInv'
  BY DEF IInv, ToldInv, Grows, Keys
<1>5. SentMeansPosted'
  <2> SUFFICES ASSUME NEW h \in Handles, Held(h), store[h].status = "sent", issued[h].as # "execute"
               PROVE  By(service'[issued[h].tx].confs) \cap Paired # {}
    BY DEF SentMeansPosted, Held, storeVars
  <2>1. issued[h] \in Prepared
    BY <1>0 DEF IInv, IssuedInv, TypeOK
  <2>2. issued[h].tx \in Txs
    BY <2>1 DEF Prepared
  <2>3. By(service[issued[h].tx].confs) \cap Paired # {}
    BY DEF IInv, SentMeansPosted
  <2> QED BY <2>2, <2>3 DEF Grows
<1> QED BY <1>1, <1>2, <1>3, <1>4, <1>5 DEF IInv

\* Adding a signature to what the service holds of a SafeTx.
LEMMA ConfirmFacts ==
    ASSUME TypeOK, NEW t \in Txs, NEW sig \in Confirmations, NEW kind \in {"ok", "not-found"},
           service' = [service EXCEPT ![t] = Answer(kind, @.confs \cup {sig})]
    PROVE  /\ service' \in [Txs -> Answers] /\ Grows
           /\ sig.by \in By(service'[t].confs)
<1>1. service[t] \in Answers /\ service[t].confs \in SUBSET Confirmations
  BY DEF TypeOK, Answers
<1> DEFINE a == Answer(kind, service[t].confs \cup {sig})
<1>2. a \in Answers /\ By(service[t].confs) \subseteq By(a.confs) /\ sig.by \in By(a.confs)
  BY <1>1 DEF Answer, Answers, By
<1>3. service' = [service EXCEPT ![t] = a]
  OBVIOUS
<1> HIDE DEF a
<1>4. service' \in [Txs -> Answers] /\ service'[t] = a /\ \A u \in Txs \ {t} : service'[u] = service[u]
  BY <1>2, <1>3 DEF TypeOK
<1>5. Grows
  <2> SUFFICES ASSUME NEW u \in Txs PROVE By(service[u].confs) \subseteq By(service'[u].confs)
    BY DEF Grows
  <2> QED BY <1>2, <1>4
<1> QED BY <1>2, <1>4, <1>5

LEMMA OwnerConfirmsStep == ASSUME IInv, OwnerConfirms PROVE IInv'
<1>0. TypeOK
  BY DEF IInv
<1>1. PICK t \in Txs, sig \in Confirmations :
         service' = [service EXCEPT ![t] = Answer("ok", @.confs \cup {sig})]
  BY DEF OwnerConfirms
<1>2. service' \in [Txs -> Answers] /\ Grows
  BY <1>0, <1>1, ConfirmFacts
<1>3. UNCHANGED <<safe, cache, count, calls, told, storeVars>>
  BY DEF OwnerConfirms
<1>4. calls' \in [Calls -> Call]
  BY <1>0, <1>3 DEF TypeOK
<1> QED BY <1>2, <1>3, <1>4, ServiceStep

LEMMA ServiceTakesStep == ASSUME IInv, NEW c \in Calls, ServiceTakes(c) PROVE IInv'
<1> DEFINE t == calls[c].req.tx
           sig == calls[c].req.sig
           r(kind) == [calls[c] EXCEPT !.pc = "posted", !.read = Answer(kind, {})]
           Says(kind) == calls' = [calls EXCEPT ![c].pc = "posted", ![c].read = Answer(kind, {})]
<1>0. TypeOK /\ CallOK(c) /\ MatchOK(c)
  BY DEF IInv, CallInv, MatchInv
<1>1. /\ calls[c] \in Call /\ calls[c].req \in Requests /\ t \in Txs /\ sig \in Confirmations
      /\ calls[c].req.tool = "submit" /\ Submittable(sig) /\ At(c, "posting")
  BY <1>0, CallFields, RequestFields DEF CallOK, At, ServiceTakes
<1>2. UNCHANGED <<safe, cache, count, told, storeVars>>
  BY DEF ServiceTakes
<1> HIDE DEF t, sig
<1>3. ASSUME NEW kind \in {"ok", "not-found", "error"}, Says(kind),
             service' \in [Txs -> Answers], Grows,
             kind = "ok" => sig.by \in By(service'[t].confs)
      PROVE  IInv'
  <2>1. /\ r(kind) \in Call /\ r(kind).pc = "posted" /\ r(kind).req = calls[c].req
        /\ r(kind).read.kind = kind /\ r(kind).handle = calls[c].handle
    BY <1>1, PCNames DEF Call, Answer, Answers
  <2>2. calls' = [calls EXCEPT ![c] = r(kind)]
    BY <1>0, <1>3 DEF TypeOK
  <2> HIDE DEF r
  <2>3. calls' \in [Calls -> Call] /\ calls'[c] = r(kind) /\ \A d \in Calls \ {c} : calls'[d] = calls[d]
    BY <1>0, <2>1, <2>2, CallsType
  <2>4. CallOK(c)'
    BY <1>1, <1>3, <2>1, <2>3 DEF CallOK, At, Submittable, t, sig
  <2>5. MatchOK(c)'
    BY <1>0, <1>1, <1>2, <2>1, <2>3 DEF MatchOK, At, storeVars
  <2> QED BY <1>2, <1>3, <2>3, <2>4, <2>5, ServiceStep
<1>4. service \in [Txs -> Answers] /\ (UNCHANGED service => Grows)
  BY <1>0 DEF TypeOK, Grows
<1>5. CASE Says("error") /\ UNCHANGED service
  BY <1>3, <1>4, <1>5
<1>6. CASE Says("not-found") /\ UNCHANGED service
  BY <1>3, <1>4, <1>6
<1>7. CASE sig.by \in By(service[t].confs) /\ Says("ok") /\ UNCHANGED service
  BY <1>3, <1>4, <1>7
<1>8. CASE service[t].kind = "ok" /\ service' = [service EXCEPT ![t].confs = @ \cup {sig}] /\ Says("ok")
  <2>1. service[t] \in Answers
    BY <1>1, <1>4
  <2>2. [service[t] EXCEPT !.confs = @ \cup {sig}] = Answer("ok", service[t].confs \cup {sig})
    BY <1>8, <2>1 DEF Answer, Answers
  <2>3. service' = [service EXCEPT ![t] = Answer("ok", @.confs \cup {sig})]
    BY <1>1, <1>4, <1>8, <2>2
  <2>4. service' \in [Txs -> Answers] /\ Grows /\ sig.by \in By(service'[t].confs)
    BY <1>0, <1>1, <2>3, ConfirmFacts
  <2> HIDE DEF Says
  <2> QED BY <1>3, <1>8, <2>4
<1> QED BY <1>5, <1>6, <1>7, <1>8 DEF ServiceTakes, t, sig

\* A step of the store may drop a record, or give it a status it has earned.
LEMMA StoreStep ==
    ASSUME IInv, UNCHANGED <<service, issued>>,
           \A h \in Handles :
              \/ store'[h] = store[h]
              \/ store'[h] = None
              \/ Held(h) /\ (store'[h].status = "sent" => \/ issued[h].as = "execute"
                                                       \/ By(service[issued[h].tx].confs) \cap Paired # {})
    PROVE  IssuedInv' /\ SentMeansPosted'
<1>1. IssuedInv'
  <2> SUFFICES ASSUME NEW h \in Handles
               PROVE  /\ store'[h] # None => issued[h] # None
                      /\ issued[h] # None => (issued[h].as = "execute"
                            => Executable(issued[h].read, issued[h].tx, issued[h].confs))
    BY DEF IssuedInv, Held, Executable, Owners, Threshold
  <2> QED BY DEF IInv, IssuedInv, Held
<1>2. SentMeansPosted'
  <2> SUFFICES ASSUME NEW h \in Handles, store'[h] # None, store'[h].status = "sent",
                      issued[h].as # "execute"
               PROVE  By(service[issued[h].tx].confs) \cap Paired # {}
    BY DEF SentMeansPosted, Held
  <2> QED BY DEF IInv, SentMeansPosted, Held
<1> QED BY <1>1, <1>2

LEMMA CancelSignatureStep == ASSUME IInv, CancelSignature PROVE IInv'
<1>0. TypeOK /\ IssuedInv
  BY DEF IInv
<1>1. PICK s \in Safes, t \in Txs :
         FirstMatch(s, t) # None /\ TransitionToCancelled(FirstMatch(s, t))
  BY DEF CancelSignature
<1> DEFINE h == FirstMatch(s, t)
<1>2. h \in Handles
  BY <1>0, <1>1, FirstMatchIs
<1> HIDE DEF h
<1>3. \/ store' = Looked(h)
      \/ PreviewOutcome(h) = "ok" /\ store' = [store EXCEPT ![h].status = "cancelled"]
  BY <1>1 DEF TransitionToCancelled, CancelOutcome, PreviewOutcome, h
<1>4. /\ store' \in [Handles -> HandleRecord \cup {None}]
      /\ \A g \in Handles : \/ store'[g] = store[g] \/ store'[g] = None
                            \/ Held(g) /\ store'[g].status # "sent"
  BY <1>0, <1>2, <1>3, LookedFacts, TransitionFacts
<1>5. UNCHANGED <<safe, service, cache, count, calls, told, issued, now>>
  BY DEF CancelSignature
<1>6. IssuedInv' /\ SentMeansPosted'
  BY <1>4, <1>5, StoreStep
<1>7. CallInv' /\ MatchInv'
  BY <1>5, CallKept, MatchKept DEF CallInv, MatchInv, Grows
<1>8. TypeOK' /\ ToldInv' /\ PostedIsSeen'
  BY <1>4, <1>5 DEF IInv, TypeOK, ToldInv, PostedIsSeen
<1> QED BY <1>6, <1>7, <1>8 DEF IInv

LEMMA ExecutionSentStep == ASSUME IInv, ExecutionSent PROVE IInv'
<1>0. TypeOK
  BY DEF IInv
<1>1. PICK h \in Handles :
         /\ Held(h) /\ issued[h].as = "execute" /\ PreviewOutcome(h) = "ok"
         /\ store' = [store EXCEPT ![h].status = "sent", ![h].pinned = Bridge]
         /\ safe[issued[h].read.of].nonce < MaxNonce
         /\ safe' = IF Succeeds(safe[issued[h].read.of], issued[h].tx, issued[h].confs)
                    THEN [safe EXCEPT ![issued[h].read.of].nonce = @ + 1] ELSE safe
  BY DEF ExecutionSent
<1>2. /\ store' \in [Handles -> HandleRecord \cup {None}]
      /\ \A g \in Handles \ {h} : store'[g] = store[g]
  BY <1>0, <1>1, BridgeType, BridgeFacts
<1>3. safe' \in [Safes -> Readings] /\ \A x \in Safes : safe'[x].of = x
  <2> DEFINE s == issued[h].read.of
  <2>1. issued[h] \in Prepared
    BY <1>0, <1>1 DEF TypeOK, IInv, IssuedInv
  <2>2. s \in Safes
    BY <2>1, ReadingFields DEF Prepared
  <2> HIDE DEF s
  <2>3. CASE safe' = safe
    BY <1>0, <2>3 DEF TypeOK
  <2>4. CASE safe' = [safe EXCEPT ![s].nonce = @ + 1]
    BY <1>0, <1>1, <2>2, <2>4, NonceMoves DEF s
  <2> QED BY <1>1, <2>3, <2>4 DEF s
<1>4. UNCHANGED <<service, cache, count, calls, told, issued, now>>
  BY DEF ExecutionSent
<1>5. IssuedInv' /\ SentMeansPosted'
  BY <1>1, <1>2, <1>4, StoreStep
<1>6. CallInv' /\ MatchInv'
  BY <1>4, CallKept, MatchKept DEF CallInv, MatchInv, Grows
<1>7. TypeOK' /\ ToldInv' /\ PostedIsSeen'
  BY <1>2, <1>3, <1>4 DEF IInv, TypeOK, ToldInv, PostedIsSeen
<1> QED BY <1>5, <1>6, <1>7 DEF IInv

\* The Safe moves on, or time passes: nothing of this process changes.
LEMMA WorldStep ==
    ASSUME IInv, OwnerExecutes \/ OwnersChange \/ Tick
    PROVE  IInv'
<1>0. TypeOK
  BY DEF IInv
<1>1. /\ safe' \in [Safes -> Readings] /\ (\A x \in Safes : safe'[x].of = x) /\ now' \in Nat
      /\ UNCHANGED <<service, cache, count, calls, told, store, issued>>
  <2>1. safe \in [Safes -> Readings] /\ (\A x \in Safes : safe[x].of = x) /\ now \in Nat
    BY <1>0 DEF TypeOK
  <2>2. CASE OwnerExecutes
    <3>1. PICK t \in Txs : safe[t.safe].nonce < MaxNonce /\ safe' = [safe EXCEPT ![t.safe].nonce = @ + 1]
      BY <2>2 DEF OwnerExecutes
    <3>2. UNCHANGED <<service, cache, count, calls, told, store, issued, now>>
      BY <2>2 DEF OwnerExecutes, storeVars
    <3>3. t.safe \in Safes
      BY DEF Txs
    <3> QED BY <1>0, <2>1, <3>1, <3>2, <3>3, NonceMoves
  <2>3. CASE OwnersChange
    <3>1. PICK s \in Safes : /\ safe[s].config < Len(Configs[s])
                             /\ \E nonce \in {safe[s].nonce, safe[s].nonce + 1} \cap (0..MaxNonce) :
                                   safe' = [safe EXCEPT ![s] = [of |-> s, config |-> @.config + 1, nonce |-> nonce]]
      BY <2>3 DEF OwnersChange
    <3>2. PICK nonce \in 0..MaxNonce : safe' = [safe EXCEPT ![s] = [of |-> s, config |-> @.config + 1, nonce |-> nonce]]
      BY <3>1
    <3>3. safe[s] = [of |-> s, config |-> safe[s].config, nonce |-> safe[s].nonce]
          /\ safe[s].config \in 1..Len(Configs[s])
      BY <1>0, SafeIs
    <3>4. safe[s].config + 1 \in 1..Len(Configs[s])
      <4>1. Len(Configs[s]) \in Nat
        BY SafeAssumption
      <4> QED BY <3>1, <3>3, <4>1
    <3>5. safe' = [safe EXCEPT ![s] = [of |-> s, config |-> safe[s].config + 1, nonce |-> nonce]]
      BY <2>1, <3>2
    <3>6. UNCHANGED <<service, cache, count, calls, told, store, issued, now>>
      BY <2>3 DEF OwnersChange, storeVars
    <3> QED BY <1>0, <2>1, <3>4, <3>5, <3>6, SafeMoves
  <2>4. CASE Tick
    BY <2>1, <2>4 DEF Tick
  <2> QED BY <2>2, <2>3, <2>4
<1>2. TypeOK' /\ ToldInv' /\ PostedIsSeen'
  BY <1>1 DEF IInv, TypeOK, ToldInv, PostedIsSeen
<1>3. CallInv' /\ MatchInv'
  BY <1>1, CallKept, MatchKept DEF CallInv, MatchInv, Grows
<1>4. IssuedInv' /\ SentMeansPosted'
  BY <1>1, StoreStep
<1> QED BY <1>2, <1>3, <1>4 DEF IInv

LEMMA RestartStep == ASSUME IInv, Restart PROVE IInv'
<1>0. TypeOK
  BY DEF IInv
<1>1. /\ store' = [h \in Handles |-> None]
      /\ cache' = [k \in Keys |-> Answer("none", {})] /\ told' = [k \in Keys |-> {}]
      /\ calls' = [c \in Calls |-> NoCall] /\ count' = 0
      /\ UNCHANGED <<safe, service, issued, now>>
  BY DEF Restart, StoreLost
<1>2. Answer("none", {}) \in Answers /\ Answer("none", {}).kind = "none" /\ 0 \in 0..Limit
  BY SafeAssumption DEF Answer, Answers
<1>3. TypeOK'
  BY <1>0, <1>1, <1>2, NoCallType DEF TypeOK
<1>4. CallInv' /\ MatchInv'
  BY <1>1, IdleOK DEF CallInv, MatchInv
<1>5. IssuedInv' /\ SentMeansPosted'
  BY <1>1, StoreStep
<1>6. ToldInv' /\ PostedIsSeen'
  BY <1>1, <1>2 DEF ToldInv, PostedIsSeen
<1> QED BY <1>3, <1>4, <1>5, <1>6 DEF IInv

LEMMA PostReturnsStep == ASSUME IInv, NEW c \in Calls, PostReturns(c) PROVE IInv'
<1> DEFINE t == calls[c].req.tx
           key == Key(calls[c].req)
           dropped == {key, <<key[1], Lower>>}
           by == calls[c].req.sig.by
           h == calls[c].handle
<1>0. TypeOK /\ CallOK(c) /\ MatchOK(c)
  BY DEF IInv, CallInv, MatchInv
<1>1. /\ t \in Txs /\ key \in Keys /\ key[1] = t /\ <<t, Lower>> \in Keys
      /\ by \in Paired /\ h \in Handles \cup {None}
      /\ At(c, "posted") /\ (calls[c].read.kind = "ok" => by \in By(service[t].confs))
      /\ h # None => issued[h] # None /\ issued[h].tx = t
  BY <1>0, CallFields, RequestFields DEF CallOK, MatchOK, At, PostReturns, Submittable
<1>2. End(c) /\ UNCHANGED <<safe, service, count, issued, now>>
  BY DEF PostReturns
<1>3. ASSUME UNCHANGED <<cache, told, store>> PROVE IInv'
  <2>1. count' \in 0..Limit
    BY <1>0, <1>2 DEF TypeOK
  <2> QED BY <1>2, <1>3, <2>1, EndStep DEF storeVars
<1>4. ASSUME calls[c].read.kind = "ok", cache' = DropEntry(key),
             told' = [k \in Keys |-> IF k \in {key, <<key[1], Lower>>} /\ ~ReadUnderWay(k)
                                     THEN told[k] \cup {by} ELSE told[k]],
             store' = IF h = None THEN store
                      ELSE IF PreviewOutcome(h) = "ok"
                      THEN [store EXCEPT ![h].status = "sent", ![h].pinned = Bridge]
                      ELSE Looked(h)
      PROVE  IInv'
  <2>0. cache \in [Keys -> Answers] /\ told \in [Keys -> SUBSET Paired]
    BY <1>0 DEF TypeOK
  <2> HIDE DEF t, key, by, h
  <2>1. Answer("none", {}) \in Answers /\ Answer("none", {}).kind = "none"
    BY DEF Answer, Answers
  <2>2. /\ cache' \in [Keys -> Answers] /\ \A k \in dropped : cache'[k].kind = "none"
        /\ \A k \in Keys \ dropped : cache'[k] = cache[k]
    BY <1>1, <1>4, <2>0, <2>1 DEF DropEntry
  <2>3. /\ told' \in [Keys -> SUBSET Paired]
        /\ \A k \in Keys : ReadUnderWay(k) => told'[k] \subseteq told[k]
        /\ \A k \in Keys \ dropped : told'[k] = told[k]
        /\ \A k \in dropped : told'[k] \subseteq told[k] \cup {by}
    BY <1>1, <1>4, <2>0
  <2>4. /\ store' \in [Handles -> HandleRecord \cup {None}]
        /\ \A g \in Handles : \/ store'[g] = store[g] \/ store'[g] = None
                              \/ Held(g) /\ g = h
    <3>1. CASE h = None
      BY <1>0, <1>4, <3>1 DEF TypeOK
    <3>2. CASE h # None /\ PreviewOutcome(h) = "ok"
      BY <1>0, <1>1, <1>4, <3>2, BridgeType, BridgeFacts
    <3>3. CASE h # None /\ PreviewOutcome(h) # "ok"
      BY <1>0, <1>1, <1>4, <3>3, LookedFacts
    <3> QED BY <3>1, <3>2, <3>3
  <2>5. IssuedInv' /\ SentMeansPosted'
    <3>1. h \in Handles => By(service[issued[h].tx].confs) \cap Paired # {}
      BY <1>1, <1>4, NoneAssumption
    <3> QED BY <1>2, <2>4, <3>1, StoreStep
  <2>6. CallInv' /\ MatchInv'
    BY <1>0, <1>2, <2>3, EndFacts, CallKept, MatchKept DEF CallInv, MatchInv, Grows
  <2>7. ToldInv'
    <3> SUFFICES ASSUME NEW k \in Keys PROVE told'[k] \subseteq By(service[k[1]].confs)
      BY <1>2 DEF ToldInv
    <3>1. told[k] \subseteq By(service[k[1]].confs)
      BY DEF IInv, ToldInv
    <3>2. CASE k \in dropped
      <4>1. k[1] = t
        BY <1>1, <3>2
      <4> QED BY <1>1, <1>4, <2>3, <3>1, <3>2, <4>1
    <3>3. CASE k \notin dropped
      BY <2>3, <3>1, <3>3
    <3> QED BY <3>2, <3>3
  <2>8. PostedIsSeen'
    <3> SUFFICES ASSUME NEW k \in Keys, cache'[k].kind \in {"ok", "not-found"}
                 PROVE  told'[k] \subseteq By(cache'[k].confs)
      BY DEF PostedIsSeen
    <3>1. k \notin dropped
      BY <2>2
    <3> QED BY <2>2, <2>3, <3>1 DEF IInv, PostedIsSeen
  <2>9. TypeOK'
    BY <1>0, <1>2, <2>2, <2>3, <2>4, EndFacts DEF TypeOK
  <2> QED BY <2>5, <2>6, <2>7, <2>8, <2>9 DEF IInv
<1> QED BY <1>3, <1>4 DEF PostReturns, Accepted

-----------------------------------------------------------------------------
(* The theorems                                                              *)

\* The specification starts in the inductive invariant.
LEMMA InitInv == Init => IInv
<1> SUFFICES ASSUME Init PROVE IInv
  OBVIOUS
<1>1. Answer("none", {}) \in Answers /\ Answer("not-found", {}) \in Answers
      /\ Answer("none", {}).kind = "none"
  BY DEF Answer, Answers
<1>2. ASSUME NEW s \in Safes PROVE [of |-> s, config |-> 1, nonce |-> 0] \in Readings
  <2>1. Len(Configs[s]) \in Nat /\ Len(Configs[s]) > 0
    BY SafeAssumption
  <2>2. 1 \in 1..Len(Configs[s]) /\ 0 \in 0..MaxNonce
    BY <2>1, SafeAssumption
  <2> QED BY <2>2, ReadingIs
<1>3. safe \in [Safes -> Readings] /\ \A s \in Safes : safe[s].of = s
  BY <1>2 DEF Init
<1>4. TypeOK
  BY <1>1, <1>3, NoCallType, SafeAssumption DEF Init, StoreInit, TypeOK
<1>5. CallInv /\ MatchInv
  BY DEF Init, CallInv, MatchInv, CallOK, MatchOK, At, NoCall
<1>6. IssuedInv /\ ToldInv /\ SentMeansPosted /\ PostedIsSeen
  BY <1>1 DEF Init, StoreInit, IssuedInv, ToldInv, SentMeansPosted, PostedIsSeen, Held
<1> QED BY <1>4, <1>5, <1>6 DEF IInv

\* Every step of a call, the service, the Safe or the process keeps it.
LEMMA NextInv == IInv /\ [Next]_vars => IInv'
<1> SUFFICES ASSUME IInv, [Next]_vars PROVE IInv'
  OBVIOUS
<1>1. CASE \E c \in Calls : Ask(c)
  BY <1>1, AskStep
<1>2. CASE CancelSignature
  BY <1>2, CancelSignatureStep
<1>3. CASE \E c \in Calls : LookUp(c)
  BY <1>3, LookUpStep
<1>4. CASE \E c \in Calls : ServiceAnswers(c)
  BY <1>4, ServiceAnswersStep
<1>5. CASE \E c \in Calls : AnswerArrives(c)
  BY <1>5, AnswerArrivesStep
<1>6. CASE \E c \in Calls : ChainFails(c)
  BY <1>6, ChainFailsStep
<1>7. CASE \E c \in Calls : Propose(c) \/ Approve(c) \/ Recovered(c)
  BY <1>7, PreparesStep
<1>8. CASE \E c \in Calls : Execute(c)
  BY <1>8, ExecuteStep
<1>9. CASE \E c \in Calls : Submit(c)
  BY <1>9, SubmitStep
<1>10. CASE \E c \in Calls : ServiceTakes(c)
  BY <1>10, ServiceTakesStep
<1>11. CASE \E c \in Calls : PostReturns(c)
  BY <1>11, PostReturnsStep
<1>12. CASE OwnerConfirms
  BY <1>12, OwnerConfirmsStep
<1>13. CASE OwnerExecutes \/ OwnersChange \/ Tick
  BY <1>13, WorldStep
<1>14. CASE ExecutionSent
  BY <1>14, ExecutionSentStep
<1>15. CASE Restart
  BY <1>15, RestartStep
<1>16. CASE UNCHANGED vars
  <2>1. TypeOK'
    BY <1>16 DEF vars, storeVars, IInv, TypeOK
  <2>2. CallInv' /\ MatchInv'
    BY <1>16, CallKept, MatchKept DEF vars, storeVars, CallInv, MatchInv, Grows
  <2>3. IssuedInv' /\ SentMeansPosted'
    BY <1>16, StoreStep DEF vars, storeVars
  <2>4. ToldInv' /\ PostedIsSeen'
    BY <1>16 DEF vars, storeVars, IInv, ToldInv, PostedIsSeen
  <2> QED BY <2>1, <2>2, <2>3, <2>4 DEF IInv
<1> QED BY <1>1, <1>2, <1>3, <1>4, <1>5, <1>6, <1>7, <1>8, <1>9, <1>10, <1>11, <1>12, <1>13,
           <1>14, <1>15, <1>16 DEF Next

\* The inductive invariant holds throughout.
THEOREM Invariance == Spec => []IInv
<1>1. QED
  BY InitInv, NextInv, PTL DEF Spec

\* Signatures the guard of prepare_safe_tx_execute lets through are accepted by the
\* Safe it read, if the SafeTx is its own: as many owners signed as it counts signatures.
LEMMA GuardSuffices ==
    ASSUME NEW s \in Readings, NEW t \in Txs, NEW confs \in SUBSET Confirmations, Executable(s, t, confs)
    PROVE  Succeeds(s, t, confs) <=> t.safe = s.of
<1>1. Cardinality(By(confs)) = Cardinality(confs)
  BY SignersCounted DEF Executable
<1> QED BY <1>1 DEF Executable, Succeeds

LEMMA InvExecutes == IInv => PreparedExecutes
<1> SUFFICES ASSUME IInv, NEW h \in Handles, issued[h] # None, issued[h].as = "execute",
                    issued[h].read = safe[issued[h].read.of]
             PROVE  Succeeds(safe[issued[h].read.of], issued[h].tx, issued[h].confs)
                       <=> issued[h].tx.safe = issued[h].read.of
  BY DEF PreparedExecutes
<1>1. issued[h] \in Prepared
  BY DEF IInv, TypeOK
<1>2. issued[h].tx \in Txs /\ issued[h].confs \in SUBSET Confirmations /\ issued[h].read \in Readings
  BY <1>1 DEF Prepared
<1>3. Executable(issued[h].read, issued[h].tx, issued[h].confs)
  BY DEF IInv, IssuedInv
<1>4. Succeeds(issued[h].read, issued[h].tx, issued[h].confs) <=> issued[h].tx.safe = issued[h].read.of
  BY <1>2, <1>3, GuardSuffices
<1> QED BY <1>4

\* What the process holds has its type, and a session asks the service no more often
\* than it may.
THEOREM TypeCorrect == Spec => []TypeOK
<1>1. IInv => TypeOK
  BY DEF IInv
<1> QED BY <1>1, Invariance, PTL

\* An execution that was prepared from a cached answer goes through unless the Safe has
\* changed since it was read, if it is of a SafeTx of that Safe; one of another's never does
\* (prepare_safe_tx_execute, which does not tell them apart).
THEOREM Executes == Spec => []PreparedExecutes
  BY InvExecutes, Invariance, PTL

\* A handle called sent stands for a confirmation of the session that the service holds
\* (submit_safe_tx_signature).
THEOREM SentPosted == Spec => []SentMeansPosted
<1>1. IInv => SentMeansPosted
  BY DEF IInv
<1> QED BY <1>1, Invariance, PTL

\* The cache does not hide a confirmation this process knows was posted from those who spell
\* the hash as the post did or in lower case, unless an answer to one of them was on its way
\* (postSignature of safe-tx-service.ts).
THEOREM PostsSeen == Spec => []PostedIsSeen
<1>1. IInv => PostedIsSeen
  BY DEF IInv
<1> QED BY <1>1, Invariance, PTL
=============================================================================
