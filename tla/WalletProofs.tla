---------------------------- MODULE WalletProofs ----------------------------
(***************************************************************************)
(* Proofs about the pairing with the wallet, for every set of calls and     *)
(* accounts and every list of accounts a wallet may approve, and about the  *)
(* file of accounts, for every set of processes and accounts.               *)
(***************************************************************************)
EXTENDS PairingSession, AccountStore, SequenceTheorems, TLAPS

\* What an operation has done by each pc.
Progress(r) ==
    /\ r.pc = "idle" => r.op = "none"
    /\ r.pc \in {"clear", "disconnect", "connect"} => r.op \in {"pair", "start"}
    /\ r.pc = "approval" => r.op = "pair"
    /\ r.pc = "wait" => r.handle \in Calls
    /\ r.pc # "done" /\ r.op # "select" => r.acct = None
    /\ r.prop # "none" => \/ r.op = "pair" /\ r.pc \in {"approval", "done"}
                          \/ r.op = "start" /\ r.res = "started"
    /\ r.res = "started" => r.op = "start" /\ r.pc = "done"
    /\ r.settled => r.pc = "done"

\* Unfinished, of the record of a call.
CanEnd(r) ==
    \/ r.op = "pair" /\ r.pc \in {"connect", "approval"}
    \/ r.op = "start" /\ r.res = "started" /\ ~r.settled

\* ReportedIsApproved, of the record of a call.
Truthful(r) ==
    r.pc = "done" /\ r.acct # None =>
        /\ r.sess \in Sessions
        /\ r.acct \in Range(accounts[r.sess])

CallsOK ==
    /\ calls \in [Calls -> Call]
    /\ \A c \in Calls : Progress(calls[c]) /\ Truthful(calls[c])

GuardOK ==
    /\ inFlight \in Calls \cup {None}
    /\ pending \subseteq Calls
    /\ inFlight # None => CanEnd(calls[inFlight])
    /\ \A h \in pending : CanEnd(calls[h]) /\ calls[h].op = "start"

\* A session that is kept has a list of accounts, and a selection is one of them.
SessionsOK ==
    /\ live \in Seq(Sessions) /\ IsInjective(live)
    /\ accounts \in [Sessions -> AccountLists \cup {<<>>}]
    /\ chosen \in [Sessions -> Accounts \cup {None}]
    /\ \A t \in Sessions : chosen[t] # None => chosen[t] \in Range(accounts[t])
    /\ \A i \in DOMAIN live : accounts[live[i]] \in AccountLists

\* A session has accounts as soon as its proposal is approved.
ApprovalsOK ==
    \A c \in Calls : IF calls[c].prop = "approved" THEN accounts[c] \in AccountLists
                                                  ELSE accounts[c] = <<>>

IInv ==
    /\ client \in {"none", "initializing", "ready", "failed"} /\ listener \in BOOLEAN
    /\ CallsOK
    /\ GuardOK
    /\ SessionsOK
    /\ ApprovalsOK
-----------------------------------------------------------------------------
(* Facts about the operators                                                *)

\* What is left of the sessions when one leaves.
LEMMA WithoutIsPart ==
    ASSUME SessionsOK, NEW t, IsLive(t)
    PROVE  /\ Without(t) \in Seq(Sessions) /\ IsInjective(Without(t))
           /\ \A i \in DOMAIN Without(t) : accounts[Without(t)[i]] \in AccountLists
<1> DEFINE n == CHOOSE i \in DOMAIN live : live[i] = t
           head == SubSeq(live, 1, n - 1)
           tail == SubSeq(live, n + 1, Len(live))
<1>1. live \in Seq(Sessions) /\ Len(live) \in Nat /\ DOMAIN live = 1..Len(live)
  BY LenProperties DEF SessionsOK
<1>2. n \in 1..Len(live)
  BY <1>1 DEF IsLive, Range
<1> HIDE DEF n
<1>3. /\ head \in Seq(Sessions) /\ Len(head) = n - 1
      /\ \A i \in 1..(n - 1) : head[i] = live[i]
  <2>1. \A i \in 1..(n - 1) : live[i] \in Sessions
    BY <1>1, <1>2
  <2>2. /\ head \in Seq(Sessions) /\ Len(head) = IF 1 <= n - 1 THEN n - 1 - 1 + 1 ELSE 0
        /\ \A i \in 1..(n - 1 - 1 + 1) : head[i] = live[1 + i - 1]
    BY <2>1, <1>2, SubSeqProperties
  <2> HIDE DEF head
  <2> QED BY <2>2, <1>2
<1>4. /\ tail \in Seq(Sessions) /\ Len(tail) = Len(live) - n
      /\ \A i \in 1..(Len(live) - n) : tail[i] = live[n + i]
  <2>1. \A i \in (n + 1)..Len(live) : live[i] \in Sessions
    BY <1>1, <1>2
  <2>2. /\ tail \in Seq(Sessions)
        /\ Len(tail) = IF n + 1 <= Len(live) THEN Len(live) - (n + 1) + 1 ELSE 0
        /\ \A i \in 1..(Len(live) - (n + 1) + 1) : tail[i] = live[(n + 1) + i - 1]
    BY <2>1, <1>1, <1>2, SubSeqProperties
  <2> HIDE DEF tail
  <2>3. Len(tail) = Len(live) - n
    <3>1. CASE n < Len(live)
      <4>1. n + 1 <= Len(live) /\ Len(live) - (n + 1) + 1 = Len(live) - n
        BY <3>1, <1>1, <1>2
      <4> QED BY <2>2, <4>1
    <3>2. CASE n = Len(live)
      <4>1. ~(n + 1 <= Len(live)) /\ Len(live) - n = 0
        BY <3>2, <1>1, <1>2
      <4> QED BY <2>2, <4>1
    <3>3. n < Len(live) \/ n = Len(live)
      <4>1. Len(live) \in Nat /\ n \in Nat /\ n <= Len(live)
        BY <1>1, <1>2
      <4> HIDE DEF head
      <4> QED BY <4>1
    <3> QED BY <3>1, <3>2, <3>3
  <2>4. ASSUME NEW i \in 1..(Len(live) - n) PROVE tail[i] = live[n + i]
    <3>1. i \in 1..(Len(live) - (n + 1) + 1) /\ (n + 1) + i - 1 = n + i
      BY <1>1, <1>2
    <3> QED BY <2>2, <3>1
  <2> QED BY <2>2, <2>3, <2>4
<1> DEFINE rest == head \o tail
<1>5. Without(t) = rest
  BY DEF Without, RemoveAt, n
<1> HIDE DEF head, tail
<1>6. /\ rest \in Seq(Sessions) /\ Len(rest) = Len(live) - 1
      /\ \A i \in 1..(Len(live) - 1) : rest[i] = IF i < n THEN live[i] ELSE live[i + 1]
  <2>1. /\ rest \in Seq(Sessions) /\ Len(rest) = Len(head) + Len(tail)
        /\ \A i \in 1..(Len(head) + Len(tail)) :
              rest[i] = IF i <= Len(head) THEN head[i] ELSE tail[i - Len(head)]
    BY <1>3, <1>4, ConcatProperties
  <2> HIDE DEF rest
  <2>2. Len(rest) = Len(live) - 1
    BY <2>1, <1>1, <1>2, <1>3, <1>4
  <2>3. ASSUME NEW i \in 1..(Len(live) - 1)
        PROVE  rest[i] = IF i < n THEN live[i] ELSE live[i + 1]
    <3>0. i \in 1..(Len(head) + Len(tail))
      BY <1>1, <1>2, <1>3, <1>4
    <3>1. CASE i < n
      <4>1. i <= Len(head) /\ i \in 1..(n - 1)
        BY <3>1, <1>1, <1>2, <1>3
      <4> QED BY <3>1, <3>0, <4>1, <2>1, <1>3
    <3>2. CASE ~(i < n)
      <4>1. rest[i] = tail[i - (n - 1)]
        <5>1. ~(i <= Len(head)) /\ Len(head) = n - 1
          BY <3>2, <1>1, <1>2, <1>3
        <5> QED BY <3>0, <5>1, <2>1
      <4>2. i - (n - 1) \in 1..(Len(live) - n) /\ n + (i - (n - 1)) = i + 1
        BY <3>2, <1>1, <1>2
      <4> QED BY <3>2, <4>1, <4>2, <1>4
    <3> QED BY <3>1, <3>2
  <2> QED BY <2>1, <2>2, <2>3
<1> HIDE DEF rest
<1>7. DOMAIN rest = 1..(Len(live) - 1)
  BY <1>6, LenProperties
<1>8. IsInjective(rest)
  <2> SUFFICES ASSUME NEW i \in 1..(Len(live) - 1), NEW j \in 1..(Len(live) - 1),
                      rest[i] = rest[j]
               PROVE  i = j
    BY <1>7 DEF IsInjective
  <2>1. \A k, l \in 1..Len(live) : live[k] = live[l] => k = l
    BY <1>1 DEF SessionsOK, IsInjective
  <2> QED BY <2>1, <1>1, <1>2, <1>6
<1>9. \A i \in DOMAIN rest : accounts[rest[i]] \in AccountLists
  <2> SUFFICES ASSUME NEW i \in 1..(Len(live) - 1)
               PROVE  accounts[rest[i]] \in AccountLists
    BY <1>7
  <2>1. i \in 1..Len(live) /\ i + 1 \in 1..Len(live)
    BY <1>1, <1>2
  <2>2. \A k \in 1..Len(live) : accounts[live[k]] \in AccountLists
    BY <1>1 DEF SessionsOK
  <2> QED BY <2>1, <2>2, <1>6
<1> QED BY <1>5, <1>6, <1>8, <1>9

\* The current session is one that was approved.
LEMMA CurrentIsApproved ==
    ASSUME SessionsOK, Current # None
    PROVE  Current \in Sessions /\ accounts[Current] \in AccountLists
<1>1. live \in Seq(Sessions) /\ live # <<>>
  BY DEF SessionsOK, Current
<1>2. Current = live[1] /\ 1 \in DOMAIN live
  BY <1>1, LenProperties, EmptySeq DEF Current
<1> QED BY <1>1, <1>2 DEF SessionsOK

\* The active account of a session is one of those approved for it.
LEMMA ActiveIsApproved ==
    ASSUME SessionsOK, NEW t \in Sessions, accounts[t] \in AccountLists
    PROVE  Active(t) \in Accounts /\ Active(t) \in Range(accounts[t])
<1>1. accounts[t] \in Seq(Accounts) /\ accounts[t] # <<>>
  BY PairingAssumption
<1>2. Head(accounts[t]) \in Accounts /\ Head(accounts[t]) \in Range(accounts[t])
  <2>1. 1 \in DOMAIN accounts[t] /\ Head(accounts[t]) = accounts[t][1]
    BY <1>1, LenProperties, EmptySeq
  <2> QED BY <1>1, <2>1 DEF Range
<1>3. chosen[t] \in Accounts \cup {None}
  BY DEF SessionsOK
<1>4. chosen[t] # None => chosen[t] \in Range(accounts[t])
  BY DEF SessionsOK
<1> QED BY <1>2, <1>3, <1>4 DEF Active

-----------------------------------------------------------------------------
(* Steps of one call                                                        *)

\* A call moves to record r: the calls stay as they should.
LEMMA CallMoves ==
    ASSUME CallsOK, ApprovalsOK, NEW c \in Calls, NEW r \in Call,
           calls' = [calls EXCEPT ![c] = r], Progress(r), Truthful(r),
           r.prop = "approved" <=> calls[c].prop = "approved", UNCHANGED accounts
    PROVE  CallsOK' /\ ApprovalsOK'
<1>1. calls \in [Calls -> Call]
  BY DEF CallsOK
<1>2. calls'[c] = r /\ \A d \in Calls : d # c => calls'[d] = calls[d]
  BY <1>1
<1>3. calls' \in [Calls -> Call]
  BY <1>1
<1>4. \A d \in Calls : Progress(calls[d])' /\ Truthful(calls[d])'
  <2> SUFFICES ASSUME NEW d \in Calls PROVE Progress(calls[d])' /\ Truthful(calls[d])'
    OBVIOUS
  <2>1. CASE d = c
    BY <2>1, <1>2 DEF Progress, Truthful
  <2>2. CASE d # c
    BY <2>2, <1>2 DEF CallsOK, Progress, Truthful
  <2> QED BY <2>1, <2>2
<1>5. ApprovalsOK'
  <2> SUFFICES ASSUME NEW d \in Calls
               PROVE  IF calls'[d].prop = "approved" THEN accounts[d] \in AccountLists
                                                     ELSE accounts[d] = <<>>
    BY DEF ApprovalsOK
  <2>1. CASE d = c
    BY <2>1, <1>2 DEF ApprovalsOK
  <2>2. CASE d # c
    BY <2>2, <1>2 DEF ApprovalsOK
  <2> QED BY <2>1, <2>2
<1> QED BY <1>3, <1>4, <1>5 DEF CallsOK

\* The slot and the handles stay as they should: they stand for others, or for what r is.
LEMMA GuardMoves ==
    ASSUME CallsOK, GuardOK, NEW c \in Calls, NEW r \in Call,
           calls' = [calls EXCEPT ![c] = r],
           inFlight' \in {inFlight, c, None}, inFlight' = c => CanEnd(r),
           pending' \subseteq pending \cup {c}, c \in pending' => CanEnd(r) /\ r.op = "start"
    PROVE  GuardOK'
<1>1. calls'[c] = r /\ \A d \in Calls : d # c => calls'[d] = calls[d]
  BY DEF CallsOK
<1>2. None \notin Calls
  BY PairingAssumption DEF Sessions
<1>3. inFlight' \in Calls \cup {None} /\ pending' \subseteq Calls
  BY DEF GuardOK
<1>4. inFlight' # None => CanEnd(calls'[inFlight'])
  BY <1>1, <1>2, <1>3 DEF GuardOK
<1>5. \A h \in pending' : CanEnd(calls'[h]) /\ calls'[h].op = "start"
  BY <1>1, <1>3 DEF GuardOK
<1> QED BY <1>3, <1>4, <1>5 DEF GuardOK, CanEnd

\* An answer that tells no account.
LEMMA FailMoves ==
    ASSUME IInv, NEW c \in Calls, NEW res, calls[c].pc \notin {"idle", "done"},
           res \in {"PAIRING_IN_PROGRESS", "APPROVAL_TIMEOUT", "USER_REJECTED",
                    "INVALID_HANDLE", "WALLET_NOT_PAIRED", "INVALID_ACCOUNT",
                    "INTERNAL_ERROR"},
           Fail(c, res), inFlight' \in {inFlight, None}, inFlight' # c,
           pending' = pending, UNCHANGED accounts
    PROVE  CallsOK' /\ ApprovalsOK' /\ GuardOK'
<1> DEFINE r == [calls[c] EXCEPT !.pc = "done", !.sess = None, !.acct = None, !.res = res]
<1>1. calls \in [Calls -> Call] /\ calls[c] \in Call /\ Progress(calls[c])
  BY DEF IInv, CallsOK
<1>2. calls' = [calls EXCEPT ![c] = r]
  BY <1>1 DEF Fail
<1>3. /\ r \in Call /\ r.pc = "done" /\ r.acct = None /\ r.res = res
      /\ r.op = calls[c].op /\ r.prop = calls[c].prop /\ r.settled = calls[c].settled
      /\ r.handle = calls[c].handle
  <2>1. "done" \in Pcs /\ res \in Results
    BY DEF Pcs, Results
  <2>2. None \in Sessions \cup {None} /\ None \in Accounts \cup {None}
    OBVIOUS
  <2> QED BY <1>1, <2>1, <2>2 DEF Call
<1> HIDE DEF r
<1>4. calls[c].prop # "none" => calls[c].op = "pair"
  BY <1>1 DEF Progress
<1>5. Progress(r) /\ Truthful(r)
  BY <1>1, <1>3, <1>4 DEF Progress, Truthful
<1>6. c \notin pending
  BY <1>1 DEF IInv, GuardOK, CanEnd, Progress
<1>7. CallsOK' /\ ApprovalsOK'
  BY <1>2, <1>3, <1>5, CallMoves DEF IInv
<1>8. GuardOK'
  BY <1>2, <1>3, <1>6, GuardMoves DEF IInv
<1> QED BY <1>7, <1>8

\* An answer that reports the active account of an approved session.
LEMMA ReportMoves ==
    ASSUME IInv, NEW c \in Calls, NEW t \in Sessions, NEW res \in {"paired", "cached"},
           calls[c].pc \notin {"idle", "done"}, accounts[t] \in AccountLists,
           Report(c, t, res), inFlight' \in {inFlight, None}, inFlight' # c,
           pending' = pending, UNCHANGED accounts
    PROVE  CallsOK' /\ ApprovalsOK' /\ GuardOK'
<1> DEFINE r == [calls[c] EXCEPT !.pc = "done", !.sess = t, !.acct = Active(t), !.res = res]
<1>1. calls \in [Calls -> Call] /\ calls[c] \in Call /\ Progress(calls[c])
  BY DEF IInv, CallsOK
<1>2. calls' = [calls EXCEPT ![c] = r]
  BY <1>1 DEF Report
<1>3. Active(t) \in Accounts /\ Active(t) \in Range(accounts[t])
  BY ActiveIsApproved DEF IInv
<1>4. /\ r \in Call /\ r.pc = "done" /\ r.sess = t /\ r.acct = Active(t) /\ r.res = res
      /\ r.op = calls[c].op /\ r.prop = calls[c].prop /\ r.settled = calls[c].settled
      /\ r.handle = calls[c].handle
  <2>1. "done" \in Pcs /\ res \in Results
    BY DEF Pcs, Results
  <2>2. t \in Sessions \cup {None} /\ Active(t) \in Accounts \cup {None}
    BY <1>3
  <2> QED BY <1>1, <2>1, <2>2 DEF Call
<1> HIDE DEF r
<1>5. calls[c].prop # "none" => calls[c].op = "pair"
  BY <1>1 DEF Progress
<1>6. Progress(r) /\ Truthful(r)
  BY <1>1, <1>3, <1>4, <1>5 DEF Progress, Truthful
<1>7. c \notin pending
  BY <1>1 DEF IInv, GuardOK, CanEnd, Progress
<1>8. CallsOK' /\ ApprovalsOK'
  BY <1>2, <1>4, <1>6, CallMoves DEF IInv
<1>9. GuardOK'
  BY <1>2, <1>4, <1>7, GuardMoves DEF IInv
<1> QED BY <1>8, <1>9

\* A call that has not come to its proposal holds neither the slot nor a handle.
LEMMA HoldsNothing ==
    ASSUME IInv, NEW c \in Calls, ~CanEnd(calls[c])
    PROVE  inFlight # c /\ c \notin pending
<1>1. c # None
  BY PairingAssumption DEF Sessions
<1> QED BY <1>1 DEF IInv, GuardOK

\* A call goes on to the next await, with the session it is to disconnect.
LEMMA GoesOn ==
    ASSUME IInv, NEW c \in Calls, NEW pc \in {"clear", "disconnect", "connect"},
           NEW t \in Sessions \cup {None},
           calls[c].pc \in {"client", "clear", "disconnect"}, calls[c].op \in {"pair", "start"},
           calls' = [calls EXCEPT ![c].pc = pc, ![c].sess = t],
           inFlight' \in {inFlight, c},
           inFlight' = c => calls[c].op = "pair" /\ pc = "connect",
           pending' \subseteq pending, UNCHANGED accounts
    PROVE  CallsOK' /\ ApprovalsOK' /\ GuardOK'
<1> DEFINE r == [calls[c] EXCEPT !.pc = pc, !.sess = t]
<1>1. calls \in [Calls -> Call] /\ calls[c] \in Call /\ Progress(calls[c])
  BY DEF IInv, CallsOK
<1>2. calls' = [calls EXCEPT ![c] = r]
  BY <1>1
<1>3. /\ r \in Call /\ r.pc = pc /\ r.res = calls[c].res /\ r.acct = calls[c].acct
      /\ r.op = calls[c].op /\ r.prop = calls[c].prop /\ r.settled = calls[c].settled
  <2>1. pc \in Pcs
    BY DEF Pcs
  <2> QED BY <1>1, <2>1 DEF Call
<1> HIDE DEF r
<1>4. Progress(r) /\ Truthful(r)
  BY <1>1, <1>3 DEF Progress, Truthful
<1>5. c \notin pending
  BY <1>1, HoldsNothing DEF CanEnd, Progress
<1>6. CallsOK' /\ ApprovalsOK'
  BY <1>2, <1>3, <1>4, CallMoves DEF IInv
<1>7. inFlight' = c => CanEnd(r)
  BY <1>3 DEF CanEnd
<1>8. GuardOK'
  BY <1>2, <1>3, <1>5, <1>7, GuardMoves DEF IInv
<1> QED BY <1>6, <1>8

\* pair and pairStart reach client.connect.
LEMMA ConnectMoves ==
    ASSUME IInv, NEW c \in Calls, calls[c].pc \in {"client", "clear", "disconnect"},
           calls[c].op \in {"pair", "start"}, Connect(c),
           pending' \subseteq pending, UNCHANGED accounts
    PROVE  CallsOK' /\ ApprovalsOK' /\ GuardOK'
<1>1. calls[c] \in Call /\ Progress(calls[c])
  BY DEF IInv, CallsOK
<1>2. inFlight # c
  BY <1>1, HoldsNothing DEF CanEnd, Progress
<1>3. /\ inFlight' \in {inFlight, c}
      /\ inFlight' = c => calls[c].op = "pair"
  BY <1>2 DEF Connect
<1>4. calls' = [calls EXCEPT ![c].pc = "connect", ![c].sess = None]
  BY DEF Connect
<1> QED BY <1>3, <1>4, GoesOn

-----------------------------------------------------------------------------
(* One lemma per action                                                     *)

\* A call that begins, with nothing proposed.
LEMMA FreshCall ==
    ASSUME IInv, NEW c \in Calls, calls[c].pc = "idle", NEW r \in Call,
           calls' = [calls EXCEPT ![c] = r], Progress(r), r.prop = "none",
           r.pc = "done" => r.acct = None, UNCHANGED <<accounts, guardVars>>
    PROVE  CallsOK' /\ ApprovalsOK' /\ GuardOK'
<1>1. calls[c] \in Call /\ Progress(calls[c])
  BY DEF IInv, CallsOK
<1>2. calls[c].prop = "none" /\ inFlight # c /\ c \notin pending
  BY <1>1, HoldsNothing DEF CanEnd, Progress
<1>3. Truthful(r)
  BY DEF Truthful
<1>4. CallsOK' /\ ApprovalsOK'
  BY <1>2, <1>3, CallMoves DEF IInv
<1>5. GuardOK'
  BY <1>2, GuardMoves DEF IInv, guardVars
<1> QED BY <1>4, <1>5

LEMMA BeginPairKeeps ==
    ASSUME IInv, NEW c \in Calls, NEW op \in {"pair", "start"}, NEW force \in BOOLEAN,
           BeginPair(c, op, force)
    PROVE  IInv'
<1> DEFINE refused == [IdleCall EXCEPT !.op = op, !.pc = "done", !.res = "PAIRING_IN_PROGRESS"]
           begun == [IdleCall EXCEPT !.op = op, !.force = force, !.pc = "client"]
<1>1. refused \in Call /\ Progress(refused) /\ refused.prop = "none" /\ refused.acct = None
  BY DEF Call, IdleCall, Pcs, Results, Progress
<1>2. begun \in Call /\ Progress(begun) /\ begun.prop = "none" /\ begun.pc = "client"
  BY DEF Call, IdleCall, Pcs, Results, Progress
<1>3. \/ calls' = [calls EXCEPT ![c] = refused]
      \/ calls' = [calls EXCEPT ![c] = begun]
  BY DEF BeginPair
<1>4. /\ calls[c].pc = "idle" /\ UNCHANGED <<accounts, guardVars>>
      /\ client' \in {"none", "initializing", "ready", "failed"} /\ listener' \in BOOLEAN
  BY DEF BeginPair, Wanted, IInv, sessionVars
<1> HIDE DEF refused, begun
<1>5. CallsOK' /\ ApprovalsOK' /\ GuardOK'
  BY <1>1, <1>2, <1>3, <1>4, FreshCall
<1>6. SessionsOK'
  BY DEF BeginPair, IInv, SessionsOK, sessionVars
<1> QED BY <1>4, <1>5, <1>6 DEF IInv

LEMMA WaitKeeps ==
    ASSUME IInv, NEW c \in Calls, NEW h \in Calls, Wait(c, h)
    PROVE  IInv'
<1> DEFINE waits == [IdleCall EXCEPT !.op = "wait", !.handle = h, !.pc = "wait"]
           refused == [IdleCall EXCEPT !.op = "wait", !.handle = h, !.pc = "done",
                                       !.res = "INVALID_HANDLE"]
<1>1. refused \in Call /\ Progress(refused) /\ refused.prop = "none" /\ refused.acct = None
  BY DEF Call, IdleCall, Pcs, Results, Progress
<1>2. waits \in Call /\ Progress(waits) /\ waits.prop = "none" /\ waits.pc = "wait"
  BY DEF Call, IdleCall, Pcs, Results, Progress
<1>3. \/ calls' = [calls EXCEPT ![c] = refused]
      \/ calls' = [calls EXCEPT ![c] = waits]
  BY DEF Wait
<1>4. calls[c].pc = "idle" /\ UNCHANGED <<accounts, guardVars>>
  BY DEF Wait, sessionVars
<1> HIDE DEF refused, waits
<1>5. CallsOK' /\ ApprovalsOK' /\ GuardOK'
  BY <1>1, <1>2, <1>3, <1>4, FreshCall
<1>6. SessionsOK'
  BY DEF Wait, IInv, SessionsOK, sessionVars
<1> QED BY <1>5, <1>6 DEF IInv, Wait

LEMMA BeginSelectKeeps ==
    ASSUME IInv, NEW c \in Calls, NEW a \in Accounts, BeginSelect(c, a)
    PROVE  IInv'
<1> DEFINE r == [IdleCall EXCEPT !.op = "select", !.acct = a, !.pc = "client"]
<1>1. r \in Call /\ Progress(r) /\ r.prop = "none" /\ r.pc = "client"
  BY DEF Call, IdleCall, Pcs, Results, Progress
<1>2. calls' = [calls EXCEPT ![c] = r]
  BY DEF BeginSelect
<1>3. /\ calls[c].pc = "idle" /\ UNCHANGED <<accounts, guardVars>>
      /\ client' \in {"none", "initializing", "ready", "failed"} /\ listener' \in BOOLEAN
  BY DEF BeginSelect, Wanted, IInv, sessionVars
<1> HIDE DEF r
<1>4. CallsOK' /\ ApprovalsOK' /\ GuardOK'
  BY <1>1, <1>2, <1>3, FreshCall
<1>5. SessionsOK'
  BY DEF BeginSelect, IInv, SessionsOK, sessionVars
<1> QED BY <1>3, <1>4, <1>5 DEF IInv

\* What every action on a client that is ready, or that failed, may rely on.
LEMMA AtAwait ==
    ASSUME IInv, NEW c \in Calls, calls[c].pc \in {"client", "clear", "disconnect"}
    PROVE  inFlight # c /\ c \notin pending
<1>1. calls[c] \in Call /\ Progress(calls[c])
  BY DEF IInv, CallsOK
<1> QED BY <1>1, HoldsNothing DEF CanEnd, Progress

LEMMA GotClientKeeps ==
    ASSUME IInv, NEW c \in Calls, GotClient(c)
    PROVE  IInv'
<1>1. calls \in [Calls -> Call] /\ calls[c] \in Call
  BY DEF IInv, CallsOK
<1>2. /\ calls[c].pc = "client" /\ calls[c].op \in {"pair", "start"}
      /\ pending' = pending /\ UNCHANGED accounts
  BY DEF GotClient, sessionVars
<1>3. CallsOK' /\ ApprovalsOK' /\ GuardOK'
  <2>1. CASE calls[c].force
    <3> DEFINE t == calls[c].sess
    <3>1. t \in Sessions \cup {None}
      BY <1>1 DEF Call
    <3>2. calls' = [calls EXCEPT ![c].pc = "clear", ![c].sess = t] /\ inFlight' = inFlight
      <4>1. calls' = [calls EXCEPT ![c].pc = "clear"] /\ inFlight' = inFlight
        BY <2>1 DEF GotClient
      <4>2. [calls[c] EXCEPT !.pc = "clear"] = [calls[c] EXCEPT !.pc = "clear", !.sess = t]
        BY <1>1 DEF Call
      <4> QED BY <1>1, <4>1, <4>2
    <3> HIDE DEF t
    <3> QED BY <1>2, <3>1, <3>2, GoesOn, AtAwait
  <2>2. CASE ~calls[c].force /\ Current # None
    <3>1. Report(c, Current, "cached") /\ inFlight' = inFlight
      BY <2>2 DEF GotClient
    <3>2. Current \in Sessions /\ accounts[Current] \in AccountLists
      BY <2>2, CurrentIsApproved DEF IInv
    <3> QED BY <1>2, <3>1, <3>2, AtAwait, ReportMoves
  <2>3. CASE ~calls[c].force /\ Current = None
    <3>1. Connect(c)
      BY <2>3 DEF GotClient
    <3> QED BY <1>2, <3>1, ConnectMoves
  <2> QED BY <2>1, <2>2, <2>3
<1>4. SessionsOK' /\ client' = client /\ listener' \in BOOLEAN
  BY DEF GotClient, IInv, SessionsOK, sessionVars
<1> QED BY <1>3, <1>4 DEF IInv

LEMMA FailuresKeep ==
    ASSUME IInv, NEW c \in Calls, ClientFailed(c) \/ ForceFails(c)
    PROVE  IInv'
<1>1. /\ calls[c].pc \in {"client", "clear", "disconnect"} /\ Fail(c, "INTERNAL_ERROR")
      /\ UNCHANGED <<client, listener, sessionVars, guardVars>>
  BY DEF ClientFailed, ForceFails
<1>2. CallsOK' /\ ApprovalsOK' /\ GuardOK'
  BY <1>1, AtAwait, FailMoves DEF sessionVars, guardVars
<1> QED BY <1>1, <1>2 DEF IInv, SessionsOK, sessionVars

LEMMA ClearedKeeps ==
    ASSUME IInv, NEW c \in Calls, Cleared(c)
    PROVE  IInv'
<1>1. calls[c] \in Call /\ Progress(calls[c])
  BY DEF IInv, CallsOK
<1>2. /\ calls[c].pc = "clear" /\ calls[c].op \in {"pair", "start"}
      /\ UNCHANGED <<client, listener, sessionVars>>
  BY <1>1 DEF Cleared, Progress
<1>3. CallsOK' /\ ApprovalsOK' /\ GuardOK'
  <2>1. CASE Current # None
    <3>1. calls' = [calls EXCEPT ![c].pc = "disconnect", ![c].sess = Current]
      BY <2>1 DEF Cleared
    <3>2. Current \in Sessions
      BY <2>1, CurrentIsApproved DEF IInv
    <3>3. inFlight' = inFlight /\ inFlight # c /\ pending' \subseteq pending
      BY <1>2, <2>1, AtAwait DEF Cleared, guardVars
    <3> QED BY <1>2, <3>1, <3>2, <3>3, GoesOn DEF sessionVars
  <2>2. CASE Current = None
    <3>1. Connect(c) /\ pending' \subseteq pending
      BY <2>2 DEF Cleared
    <3> QED BY <1>2, <3>1, ConnectMoves DEF sessionVars
  <2> QED BY <2>1, <2>2
<1> QED BY <1>2, <1>3 DEF IInv, SessionsOK, sessionVars

\* A session that leaves takes only its own selection with it.
LEMMA ForgetKeeps ==
    ASSUME SessionsOK, NEW t \in Sessions, IsLive(t),
           live' = Without(t), accounts' = accounts,
           chosen' \in {chosen, [chosen EXCEPT ![t] = None]}
    PROVE  SessionsOK'
<1>1. /\ live' \in Seq(Sessions) /\ IsInjective(live')
      /\ \A i \in DOMAIN live' : accounts'[live'[i]] \in AccountLists
  BY WithoutIsPart
<1>2. /\ chosen' \in [Sessions -> Accounts \cup {None}]
      /\ \A s \in Sessions : chosen'[s] # None => chosen'[s] \in Range(accounts'[s])
  BY DEF SessionsOK
<1> QED BY <1>1, <1>2 DEF SessionsOK

LEMMA DisconnectedKeeps ==
    ASSUME IInv, NEW c \in Calls, Disconnected(c)
    PROVE  IInv'
<1>1. calls[c] \in Call /\ Progress(calls[c])
  BY DEF IInv, CallsOK
<1>2. /\ calls[c].pc = "disconnect" /\ calls[c].op \in {"pair", "start"}
      /\ Connect(c) /\ pending' \subseteq pending /\ UNCHANGED <<client, listener, accounts>>
  BY <1>1 DEF Disconnected, Forget, Progress
<1>3. CallsOK' /\ ApprovalsOK' /\ GuardOK'
  BY <1>2, ConnectMoves
<1> DEFINE t == calls[c].sess
<1>4. IsLive(t) /\ live' = Without(t) /\ chosen' = [chosen EXCEPT ![t] = None]
  BY DEF Disconnected, Forget
<1>5. t \in Sessions
  <2>1. live \in Seq(Sessions)
    BY DEF IInv, SessionsOK
  <2> QED BY <1>4, <2>1, LenProperties DEF IsLive, Range
<1> HIDE DEF t
<1>6. SessionsOK'
  BY <1>2, <1>4, <1>5, ForgetKeeps DEF IInv
<1> QED BY <1>2, <1>3, <1>6 DEF IInv

LEMMA SessionEndKeeps ==
    ASSUME IInv, NEW t \in Sessions, SessionDelete(t) \/ SessionExpires(t)
    PROVE  IInv'
<1>1. /\ IsLive(t) /\ live' = Without(t) /\ accounts' = accounts
      /\ chosen' \in {chosen, [chosen EXCEPT ![t] = None]}
      /\ UNCHANGED <<client, listener, guardVars, calls>>
  BY DEF SessionDelete, SessionExpires, Forget
<1>2. SessionsOK'
  BY <1>1, ForgetKeeps DEF IInv
<1> QED BY <1>1, <1>2 DEF IInv, CallsOK, Truthful, Progress, ApprovalsOK, GuardOK, CanEnd,
                          guardVars

LEMMA GotUriKeeps ==
    ASSUME IInv, NEW c \in Calls, GotUri(c)
    PROVE  IInv'
<1>1. calls \in [Calls -> Call] /\ calls[c] \in Call /\ Progress(calls[c])
  BY DEF IInv, CallsOK
<1>2. calls[c].pc = "connect" /\ UNCHANGED <<client, listener, sessionVars>>
  BY DEF GotUri
<1>3. CallsOK' /\ ApprovalsOK' /\ GuardOK'
  <2>1. CASE calls[c].op = "pair"
    <3> DEFINE r == [calls[c] EXCEPT !.pc = "approval", !.prop = "open"]
    <3>1. calls' = [calls EXCEPT ![c] = r] /\ UNCHANGED guardVars
      BY <1>1, <2>1 DEF GotUri
    <3>2. /\ r \in Call /\ r.pc = "approval" /\ r.prop = "open" /\ r.op = "pair"
          /\ r.res = calls[c].res /\ r.settled = calls[c].settled /\ r.acct = calls[c].acct
      <4>1. "approval" \in Pcs
        BY DEF Pcs
      <4> QED BY <1>1, <2>1, <4>1 DEF Call
    <3> HIDE DEF r
    <3>3. /\ Progress(r) /\ Truthful(r) /\ CanEnd(r)
          /\ calls[c].prop # "approved" /\ c \notin pending
      BY <1>1, <1>2, <2>1, <3>2 DEF Progress, Truthful, CanEnd, IInv, GuardOK
    <3>4. CallsOK' /\ ApprovalsOK'
      BY <1>2, <3>1, <3>2, <3>3, CallMoves DEF IInv, sessionVars
    <3>5. GuardOK'
      BY <3>1, <3>2, <3>3, GuardMoves DEF IInv, guardVars
    <3> QED BY <3>4, <3>5
  <2>2. CASE calls[c].op # "pair"
    <3> DEFINE r == [calls[c] EXCEPT !.pc = "done", !.prop = "open", !.res = "started"]
    <3>1. /\ calls' = [calls EXCEPT ![c] = r]
          /\ pending' = pending \cup {c} /\ inFlight' = c
      BY <1>1, <2>2 DEF GotUri
    <3>2. /\ r \in Call /\ r.pc = "done" /\ r.prop = "open" /\ r.res = "started"
          /\ r.op = calls[c].op /\ r.settled = calls[c].settled
          /\ r.sess = calls[c].sess /\ r.acct = calls[c].acct
      <4>1. "done" \in Pcs /\ "started" \in Results
        BY DEF Pcs, Results
      <4> QED BY <1>1, <4>1 DEF Call
    <3> HIDE DEF r
    <3>3. calls[c].op = "start" /\ ~calls[c].settled
      BY <1>1, <1>2, <2>2 DEF Progress
    <3>4. r.acct = None
      BY <1>1, <1>2, <3>2, <3>3 DEF Progress
    <3>5. /\ Progress(r) /\ Truthful(r) /\ CanEnd(r) /\ calls[c].prop # "approved"
      BY <1>1, <1>2, <3>2, <3>3, <3>4 DEF Progress, Truthful, CanEnd
    <3>6. CallsOK' /\ ApprovalsOK'
      BY <1>2, <3>1, <3>2, <3>5, CallMoves DEF IInv, sessionVars
    <3>7. GuardOK'
      BY <3>1, <3>2, <3>3, <3>5, GuardMoves DEF IInv
    <3> QED BY <3>6, <3>7
  <2> QED BY <2>1, <2>2
<1> QED BY <1>2, <1>3 DEF IInv, SessionsOK, sessionVars

\* pair gives the slot back however it ends.
LEMMA PairEnds ==
    ASSUME IInv, NEW c \in Calls, calls[c].pc \in {"connect", "approval"}, Released(c)
    PROVE  inFlight' \in {inFlight, None} /\ inFlight' # c
<1>1. calls[c] \in Call /\ Progress(calls[c]) /\ c # None
  BY PairingAssumption DEF IInv, CallsOK, Sessions
<1>2. calls[c].op # "pair" => ~CanEnd(calls[c])
  BY <1>1 DEF Progress, CanEnd
<1> QED BY <1>1, <1>2, HoldsNothing DEF Released

LEMMA PairingEndsKeep ==
    ASSUME IInv, NEW c \in Calls, ConnectFails(c) \/ ApprovalReturns(c) \/ ApprovalTimeout(c)
    PROVE  IInv'
<1>1. /\ calls[c].pc \in {"connect", "approval"} /\ Released(c)
      /\ UNCHANGED <<client, listener, sessionVars, pending>>
  BY DEF ConnectFails, ApprovalReturns, ApprovalTimeout
<1>2. inFlight' \in {inFlight, None} /\ inFlight' # c
  BY <1>1, PairEnds
<1>3. CallsOK' /\ ApprovalsOK' /\ GuardOK'
  <2>1. CASE ApprovalReturns(c) /\ calls[c].prop = "approved"
    <3>1. Report(c, c, "paired")
      BY <2>1 DEF ApprovalReturns
    <3>2. c \in Sessions /\ accounts[c] \in AccountLists
      BY <2>1 DEF IInv, ApprovalsOK, Sessions
    <3> QED BY <1>1, <1>2, <3>1, <3>2, ReportMoves DEF sessionVars
  <2>2. CASE \E res \in {"USER_REJECTED", "INTERNAL_ERROR", "APPROVAL_TIMEOUT"} : Fail(c, res)
    BY <1>1, <1>2, <2>2, FailMoves DEF sessionVars
  <2> QED BY <2>1, <2>2 DEF ConnectFails, ApprovalReturns, ApprovalTimeout, Refusal
<1> QED BY <1>1, <1>3 DEF IInv, SessionsOK, sessionVars

LEMMA SettleKeeps ==
    ASSUME IInv, NEW c \in Calls, Settle(c)
    PROVE  IInv'
<1>1. calls \in [Calls -> Call] /\ calls[c] \in Call /\ Progress(calls[c])
  BY DEF IInv, CallsOK
<1>2. /\ calls[c].op = "start" /\ calls[c].prop # "none" /\ ~calls[c].settled
      /\ UNCHANGED <<client, listener, sessionVars>>
  BY DEF Settle, Settling
<1> DEFINE approved == calls[c].prop = "approved"
           sess == IF approved THEN c ELSE None
           acct == IF approved THEN Active(c) ELSE None
           r == [calls[c] EXCEPT !.settled = TRUE, !.sess = sess, !.acct = acct]
<1>3. calls' = [calls EXCEPT ![c] = r]
  BY <1>1 DEF Settle, Settling
<1>4. approved => acct \in Accounts /\ acct \in Range(accounts[c]) /\ sess = c
  BY ActiveIsApproved DEF IInv, ApprovalsOK, Sessions
<1>5. ~approved => sess = None /\ acct = None
  OBVIOUS
<1>6. sess \in Sessions \cup {None} /\ acct \in Accounts \cup {None}
  BY <1>4, <1>5 DEF Sessions
<1> HIDE DEF sess, acct
<1>7. /\ r \in Call /\ r.settled /\ r.sess = sess /\ r.acct = acct /\ r.pc = calls[c].pc
      /\ r.op = "start" /\ r.prop = calls[c].prop /\ r.res = calls[c].res
  BY <1>1, <1>2, <1>6 DEF Call
<1> HIDE DEF r
<1>8. Progress(r) /\ Truthful(r)
  BY <1>1, <1>2, <1>4, <1>5, <1>7 DEF Progress, Truthful, Sessions
<1>9. CallsOK' /\ ApprovalsOK'
  BY <1>2, <1>3, <1>7, <1>8, CallMoves DEF IInv, sessionVars
<1>10. /\ inFlight' \in {inFlight, None} /\ inFlight' # c
       /\ pending' \subseteq pending /\ c \notin pending'
  BY PairingAssumption DEF Settle, Sessions
<1>11. GuardOK'
  BY <1>3, <1>7, <1>10, GuardMoves DEF IInv
<1> QED BY <1>2, <1>9, <1>11 DEF IInv, SessionsOK, sessionVars

LEMMA WaitEndsKeep ==
    ASSUME IInv, NEW c \in Calls, WaitReturns(c) \/ WaitTimeout(c)
    PROVE  IInv'
<1> DEFINE h == calls[c].handle
<1>1. calls \in [Calls -> Call] /\ calls[c] \in Call /\ Progress(calls[c])
  BY DEF IInv, CallsOK
<1>2. /\ calls[c].pc = "wait" /\ h \in Calls
      /\ UNCHANGED <<client, listener, sessionVars, guardVars>>
  BY <1>1 DEF WaitReturns, WaitTimeout, Progress
<1>3. inFlight # c /\ c \notin pending
  BY <1>1, <1>2, HoldsNothing DEF CanEnd, Progress
<1>4. CASE \E res \in {"USER_REJECTED", "INTERNAL_ERROR", "APPROVAL_TIMEOUT"} : Fail(c, res)
  <2>1. CallsOK' /\ ApprovalsOK' /\ GuardOK'
    BY <1>2, <1>3, <1>4, FailMoves DEF sessionVars, guardVars
  <2> QED BY <1>2, <2>1 DEF IInv, SessionsOK, sessionVars
<1>5. CASE /\ calls[h].settled
           /\ calls' = [calls EXCEPT ![c].pc = "done", ![c].sess = calls[h].sess,
                                     ![c].acct = calls[h].acct, ![c].res = "paired"]
  <2> DEFINE sess == calls[h].sess
             acct == calls[h].acct
             r == [calls[c] EXCEPT !.pc = "done", !.sess = sess, !.acct = acct,
                                   !.res = "paired"]
  <2>1. calls[h] \in Call /\ Progress(calls[h]) /\ Truthful(calls[h])
    BY <1>2 DEF IInv, CallsOK
  <2>2. /\ sess \in Sessions \cup {None} /\ acct \in Accounts \cup {None}
        /\ acct # None => sess \in Sessions /\ acct \in Range(accounts[sess])
    BY <1>5, <2>1 DEF Call, Progress, Truthful
  <2>3. calls' = [calls EXCEPT ![c] = r]
    BY <1>1, <1>5
  <2> HIDE DEF sess, acct
  <2>4. /\ r \in Call /\ r.pc = "done" /\ r.sess = sess /\ r.acct = acct /\ r.res = "paired"
        /\ r.op = calls[c].op /\ r.prop = calls[c].prop /\ r.settled = calls[c].settled
        /\ r.handle = calls[c].handle
    <3>1. "done" \in Pcs /\ "paired" \in Results
      BY DEF Pcs, Results
    <3> QED BY <1>1, <2>2, <3>1 DEF Call
  <2> HIDE DEF r
  <2>5. calls[c].prop = "none"
    BY <1>1, <1>2 DEF Progress
  <2>6. Progress(r) /\ Truthful(r)
    BY <1>1, <1>2, <2>2, <2>4, <2>5 DEF Progress, Truthful
  <2>7. CallsOK' /\ ApprovalsOK'
    BY <1>2, <2>3, <2>4, <2>6, CallMoves DEF IInv, sessionVars
  <2>8. GuardOK'
    BY <1>2, <1>3, <2>3, <2>4, GuardMoves DEF IInv, guardVars
  <2> QED BY <1>2, <2>7, <2>8 DEF IInv, SessionsOK, sessionVars
<1> QED BY <1>4, <1>5 DEF WaitReturns, WaitTimeout, Refusal

LEMMA SelectKeeps ==
    ASSUME IInv, NEW c \in Calls, Select(c)
    PROVE  IInv'
<1> DEFINE a == calls[c].acct
<1>1. calls \in [Calls -> Call] /\ calls[c] \in Call /\ Progress(calls[c])
  BY DEF IInv, CallsOK
<1>2. /\ calls[c].pc = "client" /\ calls[c].op = "select"
      /\ UNCHANGED <<client, listener, live, accounts, guardVars>>
  BY DEF Select
<1>3. inFlight # c /\ c \notin pending
  BY <1>2, AtAwait
<1>4. CASE /\ \E res \in {"WALLET_NOT_PAIRED", "INVALID_ACCOUNT"} : Fail(c, res)
           /\ UNCHANGED chosen
  <2>1. CallsOK' /\ ApprovalsOK' /\ GuardOK'
    BY <1>2, <1>3, <1>4, FailMoves DEF guardVars
  <2> QED BY <1>2, <1>4, <2>1 DEF IInv, SessionsOK
<1>5. CASE /\ Current # None /\ a \in Range(accounts[Current])
           /\ chosen' = [chosen EXCEPT ![Current] = a]
           /\ calls' = [calls EXCEPT ![c].pc = "done", ![c].sess = Current,
                                     ![c].res = "selected"]
  <2> DEFINE t == Current
             r == [calls[c] EXCEPT !.pc = "done", !.sess = t, !.res = "selected"]
  <2>1. t \in Sessions /\ accounts[t] \in AccountLists
    BY <1>5, CurrentIsApproved DEF IInv
  <2>2. a \in Accounts
    <3>1. accounts[t] \in Seq(Accounts)
      BY <2>1, PairingAssumption
    <3> QED BY <1>5, <3>1, LenProperties DEF Range
  <2>3. calls' = [calls EXCEPT ![c] = r] /\ chosen' = [chosen EXCEPT ![t] = a]
    BY <1>1, <1>5
  <2>4. a \in Range(accounts[t])
    BY <1>5
  <2> HIDE DEF t
  <2>5. /\ r \in Call /\ r.pc = "done" /\ r.sess = t /\ r.acct = a /\ r.res = "selected"
        /\ r.op = calls[c].op /\ r.prop = calls[c].prop /\ r.settled = calls[c].settled
        /\ r.handle = calls[c].handle
    <3>1. "done" \in Pcs /\ "selected" \in Results
      BY DEF Pcs, Results
    <3> QED BY <1>1, <2>1, <3>1 DEF Call
  <2> HIDE DEF r
  <2>6. Progress(r) /\ Truthful(r)
    BY <1>1, <1>2, <2>1, <2>4, <2>5 DEF Progress, Truthful
  <2>7. CallsOK' /\ ApprovalsOK'
    BY <1>2, <2>3, <2>5, <2>6, CallMoves DEF IInv
  <2>8. GuardOK'
    BY <1>2, <1>3, <2>3, <2>5, GuardMoves DEF IInv, guardVars
  <2>9. SessionsOK'
    BY <1>2, <2>1, <2>2, <2>3, <2>4 DEF IInv, SessionsOK
  <2> QED BY <1>2, <2>7, <2>8, <2>9 DEF IInv
<1> QED BY <1>4, <1>5 DEF Select

LEMMA DeclineKeeps ==
    ASSUME IInv, NEW c \in Calls, Decline(c)
    PROVE  IInv'
<1>1. calls \in [Calls -> Call] /\ calls[c] \in Call /\ Progress(calls[c]) /\ Truthful(calls[c])
  BY DEF IInv, CallsOK
<1>2. calls[c].prop = "open" /\ UNCHANGED <<client, listener, sessionVars, guardVars>>
  BY DEF Decline
<1>3. PICK prop \in {"rejected", "expired"} : calls' = [calls EXCEPT ![c].prop = prop]
  BY DEF Decline
<1> DEFINE r == [calls[c] EXCEPT !.prop = prop]
<1>4. calls' = [calls EXCEPT ![c] = r]
  BY <1>1, <1>3
<1>5. /\ r \in Call /\ r.prop = prop /\ r.pc = calls[c].pc /\ r.op = calls[c].op
      /\ r.res = calls[c].res /\ r.settled = calls[c].settled /\ r.handle = calls[c].handle
      /\ r.sess = calls[c].sess /\ r.acct = calls[c].acct
  BY <1>1 DEF Call
<1> HIDE DEF r
<1>6. Progress(r) /\ Truthful(r) /\ (CanEnd(calls[c]) => CanEnd(r))
  BY <1>1, <1>2, <1>5 DEF Progress, Truthful, CanEnd
<1>7. CallsOK' /\ ApprovalsOK'
  BY <1>2, <1>4, <1>5, <1>6, CallMoves DEF IInv, sessionVars
<1>8. /\ inFlight = c => CanEnd(r)
      /\ c \in pending => CanEnd(r) /\ r.op = "start"
  BY <1>5, <1>6, PairingAssumption DEF IInv, GuardOK, Sessions
<1>9. GuardOK'
  BY <1>2, <1>4, <1>5, <1>8, GuardMoves DEF IInv, guardVars
<1> QED BY <1>2, <1>7, <1>9 DEF IInv, SessionsOK, sessionVars

\* The new session is none that was there, and nothing was reported of it before.
LEMMA ApproveKeeps ==
    ASSUME IInv, NEW c \in Calls, Approve(c)
    PROVE  IInv'
<1>1. calls \in [Calls -> Call] /\ calls[c] \in Call /\ Progress(calls[c]) /\ Truthful(calls[c])
  BY DEF IInv, CallsOK
<1>2. PICK list \in AccountLists : accounts' = [accounts EXCEPT ![c] = list]
  BY DEF Approve
<1>3. /\ calls[c].prop = "open" /\ live' = Append(live, c)
      /\ UNCHANGED <<client, listener, chosen, guardVars>>
  BY DEF Approve
<1>4. c \in Sessions /\ accounts[c] = <<>> /\ <<>> \notin AccountLists
  BY <1>3, PairingAssumption DEF IInv, ApprovalsOK, Sessions
<1>5. accounts \in [Sessions -> AccountLists \cup {<<>>}]
  BY DEF IInv, SessionsOK
<1>6. accounts'[c] = list /\ \A t \in Sessions : t # c => accounts'[t] = accounts[t]
  BY <1>2, <1>4, <1>5
<1>7. Range(accounts[c]) = {}
  BY <1>4 DEF Range
<1> DEFINE r == [calls[c] EXCEPT !.prop = "approved"]
<1>8. calls' = [calls EXCEPT ![c] = r]
  BY <1>1 DEF Approve
<1>9. /\ r \in Call /\ r.prop = "approved" /\ r.pc = calls[c].pc /\ r.op = calls[c].op
      /\ r.res = calls[c].res /\ r.settled = calls[c].settled /\ r.handle = calls[c].handle
      /\ r.sess = calls[c].sess /\ r.acct = calls[c].acct
  BY <1>1 DEF Call
<1> HIDE DEF r
<1>10. Progress(r) /\ (CanEnd(calls[c]) => CanEnd(r))
  BY <1>1, <1>3, <1>9 DEF Progress, CanEnd
<1>11. calls'[c] = r /\ \A d \in Calls : d # c => calls'[d] = calls[d]
  BY <1>1, <1>8
<1>12. CallsOK'
  <2>1. calls' \in [Calls -> Call]
    BY <1>1, <1>8, <1>9
  <2>2. ASSUME NEW d \in Calls PROVE Progress(calls'[d])
    BY <1>10, <1>11 DEF IInv, CallsOK
  <2>3. ASSUME NEW d \in Calls, calls'[d].pc = "done", calls'[d].acct # None
        PROVE  calls'[d].sess \in Sessions /\ calls'[d].acct \in Range(accounts'[calls'[d].sess])
    <3>1. /\ calls'[d].pc = calls[d].pc /\ calls'[d].acct = calls[d].acct
          /\ calls'[d].sess = calls[d].sess
      BY <1>9, <1>11
    <3>2. calls[d].sess \in Sessions /\ calls[d].acct \in Range(accounts[calls[d].sess])
      BY <2>3, <3>1 DEF IInv, CallsOK, Truthful
    <3>3. calls[d].sess # c
      BY <3>2, <1>7
    <3> QED BY <3>1, <3>2, <3>3, <1>6
  <2> QED BY <2>1, <2>2, <2>3 DEF CallsOK, Progress, Truthful
<1>13. ApprovalsOK'
  <2> SUFFICES ASSUME NEW d \in Calls
               PROVE  IF calls'[d].prop = "approved" THEN accounts'[d] \in AccountLists
                                                     ELSE accounts'[d] = <<>>
    BY DEF ApprovalsOK
  <2>1. CASE d = c
    BY <2>1, <1>6, <1>9, <1>11
  <2>2. CASE d # c
    BY <2>2, <1>6, <1>11 DEF IInv, ApprovalsOK, Sessions
  <2> QED BY <2>1, <2>2
<1>14. GuardOK'
  <2>1. /\ inFlight = c => CanEnd(r)
        /\ c \in pending => CanEnd(r) /\ r.op = "start"
    BY <1>9, <1>10, PairingAssumption DEF IInv, GuardOK, Sessions
  <2>2. CallsOK /\ GuardOK
    BY DEF IInv
  <2> QED BY <1>3, <1>8, <1>9, <2>1, <2>2, GuardMoves DEF guardVars
<1>15. SessionsOK'
  <2>1. live \in Seq(Sessions) /\ Len(live) \in Nat /\ DOMAIN live = 1..Len(live)
    BY LenProperties DEF IInv, SessionsOK
  <2>2. /\ live' \in Seq(Sessions) /\ Len(live') = Len(live) + 1
        /\ \A i \in 1..Len(live) : live'[i] = live[i]
        /\ live'[Len(live) + 1] = c
    BY <1>3, <1>4, <2>1, AppendProperties
  <2>3. DOMAIN live' = 1..(Len(live) + 1)
    BY <2>2, LenProperties
  <2>4. \A i \in 1..Len(live) : live[i] \in Sessions /\ live[i] # c
    BY <1>4, <2>1 DEF IInv, SessionsOK
  <2>5. IsInjective(live')
    <3> SUFFICES ASSUME NEW i \in 1..(Len(live) + 1), NEW j \in 1..(Len(live) + 1),
                        live'[i] = live'[j]
                 PROVE  i = j
      BY <2>3 DEF IsInjective
    <3>1. \A k, l \in 1..Len(live) : live[k] = live[l] => k = l
      BY <2>1 DEF IInv, SessionsOK, IsInjective
    <3> QED BY <2>1, <2>2, <2>4, <3>1
  <2>6. \A i \in DOMAIN live' : accounts'[live'[i]] \in AccountLists
    <3> SUFFICES ASSUME NEW i \in 1..(Len(live) + 1)
                 PROVE  accounts'[live'[i]] \in AccountLists
      BY <2>3
    <3>1. CASE i = Len(live) + 1
      BY <3>1, <2>2, <1>6
    <3>2. CASE i # Len(live) + 1
      <4>1. i \in 1..Len(live)
        BY <3>2, <2>1
      <4>2. accounts[live[i]] \in AccountLists
        BY <4>1, <2>1 DEF IInv, SessionsOK
      <4> QED BY <4>1, <4>2, <2>2, <2>4, <1>6
    <3> QED BY <3>1, <3>2
  <2>7. accounts' \in [Sessions -> AccountLists \cup {<<>>}]
    BY <1>2, <1>5
  <2>8. \A t \in Sessions : chosen'[t] # None => chosen'[t] \in Range(accounts'[t])
    <3> SUFFICES ASSUME NEW t \in Sessions, chosen[t] # None
                 PROVE  chosen[t] \in Range(accounts'[t])
      BY <1>3
    <3>1. chosen[t] \in Range(accounts[t])
      BY DEF IInv, SessionsOK
    <3>2. t # c
      BY <3>1, <1>7
    <3> QED BY <3>1, <3>2, <1>6
  <2>9. chosen' \in [Sessions -> Accounts \cup {None}]
    BY <1>3 DEF IInv, SessionsOK
  <2> QED BY <2>2, <2>5, <2>6, <2>7, <2>8, <2>9 DEF SessionsOK
<1> QED BY <1>3, <1>12, <1>13, <1>14, <1>15 DEF IInv

\* A call of a process that exits has ended, and what it told stays told.
LEMMA RestartKeeps ==
    ASSUME IInv, Restart
    PROVE  IInv'
<1> DEFINE After(q) ==
             [q EXCEPT !.prop = IF @ = "open" THEN "expired" ELSE @,
                       !.settled = IF q.op = "start" THEN TRUE ELSE @,
                       !.res = IF q.pc \in {"idle", "done"} THEN @ ELSE "lost",
                       !.sess = IF q.pc = "done" THEN @ ELSE None,
                       !.acct = IF q.pc = "done" THEN @ ELSE None,
                       !.pc = IF @ = "idle" THEN "idle" ELSE "done"]
<1>1. calls \in [Calls -> Call]
  BY DEF IInv, CallsOK
<1>2. ASSUME NEW c \in Calls
      PROVE  /\ calls'[c] \in Call /\ Progress(calls'[c]) /\ Truthful(calls[c])'
             /\ calls'[c].prop = "approved" <=> calls[c].prop = "approved"
  <2> DEFINE q == calls[c]
             r == After(q)
  <2>1. q \in Call /\ Progress(q) /\ Truthful(q)
    BY DEF IInv, CallsOK
  <2>2. calls'[c] = r /\ accounts' = accounts
    BY DEF Restart
  <2> HIDE DEF q
  <2>3. /\ r.op = q.op /\ r.handle = q.handle /\ r.force = q.force
        /\ r.prop = IF q.prop = "open" THEN "expired" ELSE q.prop
        /\ r.settled = IF q.op = "start" THEN TRUE ELSE q.settled
        /\ r.res = IF q.pc \in {"idle", "done"} THEN q.res ELSE "lost"
        /\ r.sess = IF q.pc = "done" THEN q.sess ELSE None
        /\ r.acct = IF q.pc = "done" THEN q.acct ELSE None
        /\ r.pc = IF q.pc = "idle" THEN "idle" ELSE "done"
    BY <2>1 DEF Call
  <2>4. r \in Call
    <3>1. "idle" \in Pcs /\ "done" \in Pcs /\ "lost" \in Results
      BY DEF Pcs, Results
    <3> QED BY <2>1, <3>1 DEF Call
  <2> HIDE DEF r
  <2>5. Progress(r)
    BY <2>1, <2>3 DEF Progress
  <2>6. r.pc = "done" /\ r.acct # None => r.sess \in Sessions /\ r.acct \in Range(accounts[r.sess])
    BY <2>1, <2>3 DEF Truthful
  <2>7. r.prop = "approved" <=> q.prop = "approved"
    BY <2>3
  <2> QED BY <2>2, <2>4, <2>5, <2>6, <2>7 DEF Truthful, q
<1>3. CallsOK'
  <2>1. calls' \in [Calls -> Call]
    <3>1. calls' = [c \in Calls |-> After(calls[c])]
      BY DEF Restart
    <3>2. \A c \in Calls : calls'[c] \in Call
      BY <1>2
    <3> HIDE DEF After
    <3> QED BY <3>1, <3>2
  <2> QED BY <1>2, <2>1 DEF CallsOK, Progress, Truthful
<1>4. ApprovalsOK'
  BY <1>2 DEF Restart, IInv, ApprovalsOK
<1>5. GuardOK'
  BY DEF Restart, GuardOK
<1>6. SessionsOK'
  <2>1. /\ live' = live \/ live' = <<>>
        /\ accounts' = accounts /\ chosen' = [t \in Sessions |-> None]
    BY DEF Restart
  <2>2. <<>> \in Seq(Sessions) /\ DOMAIN <<>> = {}
    OBVIOUS
  <2>3. CASE live' = live
    BY <2>1, <2>3 DEF IInv, SessionsOK, IsInjective
  <2>4. CASE live' = <<>>
    BY <2>1, <2>2, <2>4 DEF IInv, SessionsOK, IsInjective
  <2> QED BY <2>1, <2>3, <2>4
<1>7. client' \in {"none", "initializing", "ready", "failed"} /\ listener' \in BOOLEAN
  BY DEF Restart
<1> QED BY <1>3, <1>4, <1>5, <1>6, <1>7 DEF IInv

LEMMA ClientKeeps ==
    ASSUME IInv, InitEnds \/ EagerInit
    PROVE  IInv'
<1>1. /\ client' \in {"none", "initializing", "ready", "failed"}
      /\ UNCHANGED <<listener, sessionVars, guardVars, calls>>
  BY DEF InitEnds, InitSucceeds, InitFails, EagerInit
<1> QED BY <1>1 DEF IInv, CallsOK, Truthful, Progress, ApprovalsOK, GuardOK, CanEnd,
                    SessionsOK, sessionVars, guardVars

LEMMA InitHolds ==
    ASSUME Init
    PROVE  IInv
<1>1. PICK list \in AccountLists :
         accounts = [t \in Sessions |-> IF t = Old THEN list ELSE <<>>]
  BY DEF Init
<1>2. calls = [c \in Calls |-> IdleCall] /\ chosen = [t \in Sessions |-> None]
  BY DEF Init
<1>3. IdleCall \in Call /\ Progress(IdleCall) /\ IdleCall.pc = "idle" /\ IdleCall.prop = "none"
  BY DEF Call, IdleCall, Pcs, Results, Progress
<1>4. CallsOK /\ ApprovalsOK
  BY <1>1, <1>2, <1>3, PairingAssumption DEF CallsOK, ApprovalsOK, Truthful, Sessions
<1>5. GuardOK
  BY DEF Init, GuardOK
<1>6. SessionsOK
  <2>1. /\ accounts \in [Sessions -> AccountLists \cup {<<>>}]
        /\ chosen \in [Sessions -> Accounts \cup {None}]
        /\ \A t \in Sessions : chosen[t] = None
        /\ accounts[Old] \in AccountLists
    BY <1>1, <1>2 DEF Sessions
  <2>2. CASE live = <<>>
    <3>1. <<>> \in Seq(Sessions) /\ DOMAIN <<>> = {}
      OBVIOUS
    <3> QED BY <2>1, <2>2, <3>1 DEF SessionsOK, IsInjective
  <2>3. CASE live = <<Old>>
    <3>1. <<Old>> \in Seq(Sessions) /\ DOMAIN <<Old>> = {1} /\ <<Old>>[1] = Old
      BY DEF Sessions
    <3> QED BY <2>1, <2>3, <3>1 DEF SessionsOK, IsInjective
  <2> QED BY <2>2, <2>3 DEF Init
<1> QED BY <1>4, <1>5, <1>6 DEF Init, IInv

-----------------------------------------------------------------------------
(* The theorems                                                             *)

\* The session manager keeps the slot, the handles, the sessions and the calls in step.
THEOREM PairingInvariance == Spec => []IInv
<1>1. Init => IInv
  BY InitHolds
<1>2. IInv /\ [Next]_vars => IInv'
  <2> SUFFICES ASSUME IInv, [Next]_vars PROVE IInv'
    OBVIOUS
  <2>1. ASSUME NEW c \in Calls, Begin(c) PROVE IInv'
    BY <2>1, BeginPairKeeps, WaitKeeps, BeginSelectKeeps DEF Begin
  <2>2. ASSUME NEW c \in Calls, Resume(c) PROVE IInv'
    BY <2>2, GotClientKeeps, FailuresKeep, ClearedKeeps, DisconnectedKeeps, GotUriKeeps,
       PairingEndsKeep, WaitEndsKeep, SelectKeeps DEF Resume
  <2>3. ASSUME NEW c \in Calls, Settle(c) \/ Approve(c) \/ Decline(c) PROVE IInv'
    BY <2>3, SettleKeeps, ApproveKeeps, DeclineKeeps
  <2>4. CASE InitEnds \/ EagerInit
    BY <2>4, ClientKeeps
  <2>5. ASSUME NEW t \in Sessions, SessionDelete(t) \/ SessionExpires(t) PROVE IInv'
    BY <2>5, SessionEndKeeps
  <2>6. CASE Restart
    BY <2>6, RestartKeeps
  <2>7. CASE UNCHANGED vars
    BY <2>7 DEF vars, IInv, CallsOK, Truthful, Progress, ApprovalsOK, GuardOK, CanEnd,
                SessionsOK, sessionVars, guardVars
  <2> QED BY <2>1, <2>2, <2>3, <2>4, <2>5, <2>6, <2>7 DEF Next
<1> QED BY <1>1, <1>2, PTL DEF Spec

\* Every value is one that the session manager can hold.
THEOREM PairingTypeCorrect == Spec => []TypeOK
<1>1. IInv => TypeOK
  BY DEF IInv, CallsOK, GuardOK, SessionsOK, TypeOK
<1> QED BY <1>1, PairingInvariance, PTL

\* A pairing is refused as in progress only while one is.
THEOREM GuardsHonestly == Spec => []GuardIsHonest
<1>1. IInv => GuardIsHonest
  BY DEF IInv, GuardOK, CanEnd, GuardIsHonest, Unfinished
<1> QED BY <1>1, PairingInvariance, PTL

\* A handle that pairWait accepts is one whose promise is still to settle.
THEOREM HandlesStayOpen == Spec => []HandlesAreOpen
<1>1. IInv => HandlesAreOpen
  BY DEF IInv, GuardOK, CanEnd, HandlesAreOpen, Unfinished
<1> QED BY <1>1, PairingInvariance, PTL

\* The account a tool reports was approved for the session it reports.
THEOREM ReportsApproved == Spec => []ReportedIsApproved
<1>1. IInv => ReportedIsApproved
  BY PairingAssumption DEF IInv, CallsOK, Truthful, ReportedIsApproved, Sessions
<1> QED BY <1>1, PairingInvariance, PTL

-----------------------------------------------------------------------------
(* The file of accounts                                                     *)

\* The accounts of its operation that a process has dealt with, in memory.
Handled(p) == proc[p].asked \ Range(proc[p].todo)

\* What a process has in memory, and in its temporary file, in the course of an operation.
ProcessOK(p) ==
    /\ proc[p].pc = "idle" => proc[p].todo = <<>> /\ proc[p].asked = {}
    /\ Range(proc[p].todo) \subseteq proc[p].asked
    /\ proc[p].op = "remove" => proc[p].todo = <<>>
    /\ proc[p].op = "save" => Handled(p) \subseteq proc[p].mem
    /\ proc[p].op = "remove" => Handled(p) \cap proc[p].mem = {}
    /\ proc[p].pc # "idle" => proc[p].op # "none"
    /\ p \in fresh => proc[p].loaded
    /\ ~proc[p].loaded => proc[p].mem = {}
    /\ proc[p].pc = "rename" => tmp[p] = Whole(proc[p].mem)
    /\ proc[p].pc \in {"open", "write", "rename"} => mode = "persist" /\ proc[p].loaded
    /\ p \in fresh /\ mode = "persist" /\ proc[p].pc = "next" /\ Handled(p) # {} =>
          disk = Whole(proc[p].mem)

\* Two operations on one account have met, and neither answer binds.
RacesKnown ==
    \A p, q \in Processes :
        p # q /\ proc[p].asked \cap proc[q].asked # {} => p \in raced

\* These records are as the user was told, and as the processes that are about to
\* answer have written them.
ToldIn(recs) ==
    \A k \in Keys : /\ told[k] = "paired" => k \in recs
                    /\ told[k] = "removed" => k \notin recs

Writers == {q \in fresh \ raced : proc[q].pc = "next" /\ mode = "persist"}

WrittenIn(p, recs) ==
    \A q \in Writers \ {p} : \A k \in Handled(q) : k \in recs <=> k \in proc[q].mem

AccountsIInv ==
    /\ AccountsTypeOK
    /\ \A p \in Processes : ProcessOK(p)
    /\ RacesKnown
    /\ \A p \in fresh : ToldIn(proc[p].mem) /\ WrittenIn(p, proc[p].mem)
    /\ \A p \in Processes : \A k \in proc[p].asked : told[k] = "unknown"
    /\ mode = "memory" => told = Void
    /\ DiskIsWhole
    /\ AnsweredIsDurable

-----------------------------------------------------------------------------
(* Facts about the operators                                                *)

\* What loadFromDisk finds, and when the process that loads is fresh.
LEMMA Loading ==
    ASSUME AccountsIInv, NEW p \in Processes, NEW mem \in LoadFromDisk(p)
    PROVE  /\ mem \subseteq Keys
           /\ \A q \in Processes : q # p => (q \in LoadedFresh(p, mem) <=> q \in fresh)
           /\ LoadedFresh(p, mem) \subseteq Processes
           /\ Handled(p) \cap proc[p].mem \subseteq mem
           /\ proc[p].loaded => mem = proc[p].mem /\ LoadedFresh(p, mem) = fresh
           /\ ~proc[p].loaded /\ mode = "persist" /\ p \in LoadedFresh(p, mem) => mem = disk.recs
<1>1. /\ proc[p] \in Process /\ disk \in File /\ fresh \subseteq Processes
      /\ ProcessOK(p)
  BY DEF AccountsIInv, AccountsTypeOK
<1>2. /\ proc[p].loaded => mem = proc[p].mem
      /\ mem \subseteq Keys
  BY <1>1 DEF LoadFromDisk, Process, File
<1>3. LoadedFresh(p, mem) \subseteq Processes
  BY <1>1 DEF LoadedFresh
<1>4. ASSUME ~proc[p].loaded, mode = "persist", p \in LoadedFresh(p, mem)
      PROVE  mem = disk.recs
  <2>1. disk \in {Absent, Whole(mem)}
    BY <1>4 DEF LoadedFresh, Blind
  <2>2. disk = Absent => mem = {} /\ disk.recs = {}
    BY <1>4 DEF LoadFromDisk, Absent
  <2>3. disk = Whole(mem) => disk.recs = mem
    BY DEF Whole
  <2> QED BY <2>1, <2>2, <2>3
<1>5. Handled(p) \cap proc[p].mem \subseteq mem
  BY <1>1, <1>2 DEF ProcessOK
<1> QED BY <1>2, <1>3, <1>4, <1>5 DEF LoadedFresh

\* Once it has loaded, a fresh process agrees with what was told and written.
LEMMA LoadedAgrees ==
    ASSUME AccountsIInv, NEW p \in Processes, NEW mem \in LoadFromDisk(p), p \in LoadedFresh(p, mem)
    PROVE  ToldIn(mem) /\ WrittenIn(p, mem)
<1>1. CASE proc[p].loaded
  <2>1. mem = proc[p].mem /\ p \in fresh
    BY <1>1, Loading
  <2> QED BY <2>1 DEF AccountsIInv
<1>2. CASE ~proc[p].loaded /\ mode = "persist"
  <2>1. mem = disk.recs
    BY <1>2, Loading
  <2>2. ASSUME NEW q \in Writers, Handled(q) # {}
        PROVE  mem = proc[q].mem
    <3>1. disk = Whole(proc[q].mem)
      BY <1>2, <2>2 DEF AccountsIInv, ProcessOK, AccountsTypeOK, Writers
    <3> QED BY <2>1, <3>1 DEF Whole
  <2>3. ToldIn(mem)
    BY <2>1 DEF AccountsIInv, AnsweredIsDurable, ToldIn
  <2>4. WrittenIn(p, mem)
    <3> SUFFICES ASSUME NEW q \in Writers, NEW k \in Handled(q)
                 PROVE  k \in mem <=> k \in proc[q].mem
      BY DEF WrittenIn
    <3>1. Handled(q) # {}
      OBVIOUS
    <3> QED BY <2>2, <3>1
  <2> QED BY <2>3, <2>4
<1>3. CASE mode = "memory"
  BY <1>3 DEF AccountsIInv, Void, ToldIn, WrittenIn, Writers
<1> QED BY <1>1, <1>2, <1>3 DEF AccountsIInv, AccountsTypeOK

\* An operation that begins knows of those it meets, and they of it.
LEMMA Asking ==
    ASSUME AccountsIInv, NEW p \in Processes, NEW ks \in SUBSET Keys, Ask(p, ks)
    PROVE  /\ told' \in [Keys -> {"unknown", "paired", "removed"}]
           /\ \A k \in Keys : told'[k] = IF k \in ks THEN "unknown" ELSE told[k]
           /\ raced' \subseteq Processes
           /\ \A q \in Processes : q # p /\ q \in raced => q \in raced'
           /\ \A q \in Processes : q # p /\ proc[q].asked \cap ks # {} =>
                 q \in raced' /\ p \in raced'
BY DEF Ask, AccountsIInv, AccountsTypeOK

-----------------------------------------------------------------------------
(* Steps of one process                                                     *)

\* Process p moves to record r and the others stay: what concerns each process alone,
\* when disk, mode and the files of the others stay too.
LEMMA Others ==
    ASSUME AccountsIInv, NEW p \in Processes, NEW r \in Process, proc' = [proc EXCEPT ![p] = r],
           disk' = disk, mode' = mode,
           \A q \in Processes : q # p => tmp'[q] = tmp[q] /\ (q \in fresh' => q \in fresh)
    PROVE  /\ proc' \in [Processes -> Process] /\ proc'[p] = r
           /\ \A q \in Processes : q # p => proc'[q] = proc[q] /\ ProcessOK(q)'
<1>1. proc \in [Processes -> Process]
  BY DEF AccountsIInv, AccountsTypeOK
<1>2. proc' \in [Processes -> Process] /\ proc'[p] = r
  BY <1>1
<1>3. ASSUME NEW q \in Processes, q # p
      PROVE  proc'[q] = proc[q] /\ ProcessOK(q)'
  <2>1. proc'[q] = proc[q]
    BY <1>1, <1>3
  <2>2. ProcessOK(q)
    BY DEF AccountsIInv
  <2> QED BY <1>3, <2>1, <2>2 DEF ProcessOK, Handled
<1> QED BY <1>2, <1>3

\* Process p reads, asks or gives up, and does not answer: the fresh processes stay as
\* the user was told and as the others have written.
LEMMA OthersFresh ==
    ASSUME AccountsIInv, NEW p \in Processes, NEW r \in Process, proc' = [proc EXCEPT ![p] = r],
           mode' = mode, \A k \in Keys : told'[k] \in {told[k], "unknown"},
           \A q \in Processes : q # p /\ q \in raced => q \in raced',
           \A q \in Processes : q # p => (q \in fresh' => q \in fresh), fresh' \subseteq Processes,
           r.pc = "next" /\ mode = "persist" => r.asked \ Range(r.todo) = {},
           p \in fresh' =>
               /\ \A k \in Keys : /\ told'[k] = "paired" => k \in r.mem
                                  /\ told'[k] = "removed" => k \notin r.mem
               /\ \A q \in Writers \ {p} : q \notin raced' =>
                     \A k \in Handled(q) : k \in r.mem <=> k \in proc[q].mem
    PROVE  \A q \in fresh' : (ToldIn(proc[q].mem) /\ WrittenIn(q, proc[q].mem))'
<1>1. proc \in [Processes -> Process] /\ fresh \subseteq Processes
  BY DEF AccountsIInv, AccountsTypeOK
<1>2. proc'[p] = r /\ \A q \in Processes : q # p => proc'[q] = proc[q]
  BY <1>1
<1> SUFFICES ASSUME NEW q \in fresh'
             PROVE  (ToldIn(proc[q].mem) /\ WrittenIn(q, proc[q].mem))'
  OBVIOUS
<1>3. q # p => ToldIn(proc[q].mem) /\ WrittenIn(q, proc[q].mem) /\ proc'[q] = proc[q]
  BY <1>2 DEF AccountsIInv
<1>4. (ToldIn(proc[q].mem))'
  BY <1>2, <1>3 DEF ToldIn
<1>5. ASSUME NEW w \in (Writers \ {q})', NEW k \in Handled(w)'
      PROVE  k \in proc'[q].mem <=> k \in proc'[w].mem
  <2>1. w \in fresh' /\ w \notin raced' /\ proc'[w].pc = "next" /\ mode = "persist" /\ w # q
    BY <1>5 DEF Writers
  <2>2. w # p
    BY <1>2, <1>5, <2>1 DEF Handled
  <2>3. w \in Writers /\ proc'[w] = proc[w] /\ k \in Handled(w)
    BY <1>2, <1>5, <2>1, <2>2 DEF Writers, Handled
  <2>4. CASE q = p
    BY <1>2, <2>1, <2>3, <2>4
  <2>5. CASE q # p
    BY <1>3, <2>1, <2>3, <2>5 DEF WrittenIn
  <2> QED BY <2>4, <2>5
<1>6. WrittenIn(q, proc[q].mem)'
  BY <1>5 DEF WrittenIn
<1> QED BY <1>4, <1>6

\* The file operations up to the rename, a failed one, and the end of a process: nothing
\* is read, no answer is given, and memory is as it was or forgotten.
LEMMA FileStepKeeps ==
    ASSUME AccountsIInv, NEW p \in Processes,
           OpenTmp(p) \/ WriteTmp(p) \/ FileError(p) \/ Crash(p)
    PROVE  AccountsIInv'
<1>1. proc \in [Processes -> Process] /\ proc[p] \in Process /\ ProcessOK(p)
  BY DEF AccountsIInv, AccountsTypeOK
<1>2. UNCHANGED <<mode, disk, toldVars>> /\ fresh' \in {fresh, fresh \ {p}}
  BY DEF OpenTmp, WriteTmp, FileError, Crash
<1>3. PICK r \in Process :
        /\ proc' = [proc EXCEPT ![p] = r] /\ r.pc # "next"
        /\ p \in fresh' => r.mem = proc[p].mem
        /\ r.asked \subseteq proc[p].asked
        /\ ProcessOK(p)'
  <2>1. CASE OpenTmp(p)
    <3> DEFINE r == [proc[p] EXCEPT !.pc = "write"]
    <3>1. proc' = [proc EXCEPT ![p] = r] /\ fresh' = fresh /\ proc[p].pc = "open"
      BY <2>1, <1>1 DEF OpenTmp
    <3>2. /\ r \in Process /\ r.pc = "write" /\ r.mem = proc[p].mem /\ r.op = proc[p].op
          /\ r.asked = proc[p].asked /\ r.todo = proc[p].todo /\ r.loaded = proc[p].loaded
      BY <1>1 DEF Process
    <3> HIDE DEF r
    <3>3. proc'[p] = r
      BY <1>1, <3>1
    <3>4. ProcessOK(p)'
      BY <1>1, <1>2, <3>1, <3>2, <3>3 DEF ProcessOK, Handled
    <3> QED BY <3>1, <3>2, <3>4
  <2>2. CASE WriteTmp(p)
    <3> DEFINE r == [proc[p] EXCEPT !.pc = "rename"]
    <3>1. /\ proc' = [proc EXCEPT ![p] = r] /\ fresh' = fresh /\ proc[p].pc = "write"
          /\ tmp' = [tmp EXCEPT ![p] = Whole(proc[p].mem)]
      BY <2>2, <1>1 DEF WriteTmp, TmpOf
    <3>2. /\ r \in Process /\ r.pc = "rename" /\ r.mem = proc[p].mem /\ r.op = proc[p].op
          /\ r.asked = proc[p].asked /\ r.todo = proc[p].todo /\ r.loaded = proc[p].loaded
      BY <1>1 DEF Process
    <3> HIDE DEF r
    <3>3. proc'[p] = r /\ tmp'[p] = Whole(r.mem)
      BY <1>1, <3>1, <3>2 DEF AccountsIInv, AccountsTypeOK
    <3>4. ProcessOK(p)'
      BY <1>1, <1>2, <3>1, <3>2, <3>3 DEF ProcessOK, Handled
    <3> QED BY <3>1, <3>2, <3>4
  <2>3. CASE FileError(p)
    <3> DEFINE r == [proc[p] EXCEPT !.op = "none", !.pc = "idle", !.todo = <<>>, !.asked = {}]
    <3>1. proc' = [proc EXCEPT ![p] = r] /\ fresh' = fresh
      BY <2>3, <1>1 DEF FileError, Done
    <3>2. /\ r \in Process /\ r.pc = "idle" /\ r.mem = proc[p].mem /\ r.op = "none"
          /\ r.asked = {} /\ r.todo = <<>> /\ r.loaded = proc[p].loaded
      BY <1>1, EmptySeq DEF Process
    <3> HIDE DEF r
    <3>3. proc'[p] = r
      BY <1>1, <3>1
    <3>4. ProcessOK(p)'
      BY <1>1, <1>2, <3>1, <3>2, <3>3 DEF ProcessOK, Handled, Range
    <3> QED BY <3>1, <3>2, <3>4
  <2>4. CASE Crash(p)
    <3>1. proc' = [proc EXCEPT ![p] = Booted] /\ fresh' = fresh \ {p}
      BY <2>4 DEF Crash
    <3>2. /\ Booted \in Process /\ Booted.pc = "idle" /\ Booted.mem = {} /\ Booted.op = "none"
          /\ Booted.asked = {} /\ Booted.todo = <<>> /\ ~Booted.loaded
      BY EmptySeq DEF Process, Booted
    <3>3. proc'[p] = Booted
      BY <1>1, <3>1
    <3>4. ProcessOK(p)'
      BY <1>1, <1>2, <3>1, <3>2, <3>3 DEF ProcessOK, Handled, Range
    <3> QED BY <3>1, <3>2, <3>4
  <2> QED BY <2>1, <2>2, <2>3, <2>4
<1>4. /\ tmp' \in [Processes -> File]
      /\ \A q \in Processes : q # p => tmp'[q] = tmp[q]
  <2>1. tmp \in [Processes -> File] /\ Torn \in File /\ Whole(proc[p].mem) \in File
    BY <1>1 DEF AccountsIInv, AccountsTypeOK, File, Torn, Whole, Process
  <2> QED BY <2>1 DEF OpenTmp, WriteTmp, FileError, Crash, TmpOf
<1>5. /\ proc' \in [Processes -> Process] /\ proc'[p] = r
      /\ \A q \in Processes : q # p => proc'[q] = proc[q] /\ ProcessOK(q)'
  BY <1>2, <1>3, <1>4, Others
<1>6. \A q \in fresh' : (ToldIn(proc[q].mem) /\ WrittenIn(q, proc[q].mem))'
  <2>1. fresh' \subseteq Processes
    BY <1>2 DEF AccountsIInv, AccountsTypeOK
  <2>2. p \in fresh' => ToldIn(r.mem) /\ WrittenIn(p, r.mem)
    BY <1>2, <1>3 DEF AccountsIInv
  <2>3. told' = told /\ raced' = raced
    BY <1>2 DEF toldVars
  <2>4. p \in fresh' =>
           /\ \A k \in Keys : /\ told'[k] = "paired" => k \in r.mem
                              /\ told'[k] = "removed" => k \notin r.mem
           /\ \A q \in Writers \ {p} : q \notin raced' =>
                 \A k \in Handled(q) : k \in r.mem <=> k \in proc[q].mem
    BY <2>2, <2>3 DEF ToldIn, WrittenIn
  <2> QED BY <1>2, <1>3, <2>1, <2>3, <2>4, OthersFresh
<1>7. AccountsTypeOK'
  BY <1>2, <1>4, <1>5 DEF AccountsIInv, AccountsTypeOK, toldVars
<1>8. /\ \A q \in Processes : proc'[q].asked \subseteq proc[q].asked
      /\ UNCHANGED <<mode, disk, told, raced>>
  BY <1>2, <1>3, <1>5 DEF toldVars
<1>9. RacesKnown' /\ \A q \in Processes : \A k \in proc'[q].asked : told'[k] = "unknown"
  BY <1>8 DEF AccountsIInv, RacesKnown
<1> QED BY <1>3, <1>5, <1>6, <1>7, <1>8, <1>9
        DEF AccountsIInv, DiskIsWhole, AnsweredIsDurable, Void

\* The file is loaded, and nothing else happens.
LEMMA LoadKeeps ==
    ASSUME AccountsIInv, NEW p \in Processes, NEW mem \in LoadFromDisk(p), proc[p].pc = "idle",
           proc' = [proc EXCEPT ![p].loaded = TRUE, ![p].mem = mem],
           fresh' = LoadedFresh(p, mem), UNCHANGED <<mode, disk, tmp, toldVars>>
    PROVE  AccountsIInv'
<1>1. proc \in [Processes -> Process] /\ proc[p] \in Process /\ ProcessOK(p)
  BY DEF AccountsIInv, AccountsTypeOK
<1>0. /\ mem \subseteq Keys /\ fresh' \subseteq Processes
       /\ \A q \in Processes : q # p => (q \in fresh' => q \in fresh)
       /\ Handled(p) \cap proc[p].mem \subseteq mem
  BY Loading
<1>2. told' = told /\ raced' = raced
  BY DEF toldVars
<1> DEFINE r == [proc[p] EXCEPT !.loaded = TRUE, !.mem = mem]
<1>3. /\ proc' = [proc EXCEPT ![p] = r]
  BY <1>1
<1>4. /\ r \in Process /\ r.loaded /\ r.mem = mem /\ r.pc = "idle" /\ r.op = proc[p].op
      /\ r.asked = proc[p].asked /\ r.todo = proc[p].todo
  BY <1>1, <1>0 DEF Process
<1> HIDE DEF r
<1>5. /\ proc' \in [Processes -> Process] /\ proc'[p] = r
      /\ \A q \in Processes : q # p => proc'[q] = proc[q] /\ ProcessOK(q)'
  BY <1>3, <1>4, <1>0, Others
<1>6. ProcessOK(p)'
  BY <1>1, <1>4, <1>5 DEF ProcessOK, Handled
<1>7. \A q \in fresh' : (ToldIn(proc[q].mem) /\ WrittenIn(q, proc[q].mem))'
  <2>1. p \in fresh' => ToldIn(r.mem) /\ WrittenIn(p, r.mem)
    BY <1>4, LoadedAgrees
  <2>2. p \in fresh' =>
           /\ \A k \in Keys : /\ told'[k] = "paired" => k \in r.mem
                              /\ told'[k] = "removed" => k \notin r.mem
           /\ \A q \in Writers \ {p} : q \notin raced' =>
                 \A k \in Handled(q) : k \in r.mem <=> k \in proc[q].mem
    BY <1>2, <2>1 DEF ToldIn, WrittenIn
  <2>3. \A k \in Keys : told'[k] \in {told[k], "unknown"}
    BY <1>2
  <2> QED BY <1>2, <1>3, <1>4, <1>0, <2>2, <2>3, OthersFresh
<1>8. AccountsTypeOK'
  BY <1>2, <1>5, <1>0 DEF AccountsIInv, AccountsTypeOK
<1>9. \A q \in Processes : proc'[q].asked = proc[q].asked
  BY <1>4, <1>5
<1>10. RacesKnown' /\ \A q \in Processes : \A k \in proc'[q].asked : told'[k] = "unknown"
  BY <1>2, <1>9 DEF AccountsIInv, RacesKnown
<1> QED BY <1>2, <1>5, <1>6, <1>7, <1>8, <1>10 DEF AccountsIInv, DiskIsWhole, AnsweredIsDurable, Void

\* An operation on accounts ks begins, with record r.
LEMMA AskKeeps ==
    ASSUME AccountsIInv, NEW p \in Processes, NEW ks \in SUBSET Keys, Ask(p, ks), NEW r \in Process,
           proc[p].pc = "idle", proc' = [proc EXCEPT ![p] = r], r.asked = ks,
           UNCHANGED <<mode, disk, tmp>>,
           fresh' \subseteq Processes,
           \A q \in Processes : q # p => (q \in fresh' <=> q \in fresh),
           r.pc = "next" /\ mode = "persist" => r.asked \ Range(r.todo) = {},
           NEW recs, p \in fresh' => ToldIn(recs) /\ WrittenIn(p, recs),
           recs \ ks = r.mem \ ks, ProcessOK(p)'
    PROVE  AccountsIInv'
<1>1. proc \in [Processes -> Process] /\ proc[p] \in Process /\ ProcessOK(p)
  BY DEF AccountsIInv, AccountsTypeOK
<1>2. /\ told' \in [Keys -> {"unknown", "paired", "removed"}]
      /\ \A k \in Keys : told'[k] = IF k \in ks THEN "unknown" ELSE told[k]
      /\ raced' \subseteq Processes
      /\ \A q \in Processes : q # p /\ q \in raced => q \in raced'
      /\ \A q \in Processes : q # p /\ proc[q].asked \cap ks # {} => q \in raced' /\ p \in raced'
  BY Asking
<1>3. /\ proc' \in [Processes -> Process] /\ proc'[p] = r
      /\ \A q \in Processes : q # p => proc'[q] = proc[q] /\ ProcessOK(q)'
  BY Others
<1>4. \A q \in fresh' : (ToldIn(proc[q].mem) /\ WrittenIn(q, proc[q].mem))'
  <2>1. ASSUME p \in fresh', NEW k \in Keys
        PROVE  /\ told'[k] = "paired" => k \in r.mem
               /\ told'[k] = "removed" => k \notin r.mem
    <3>1. CASE k \in ks
      BY <1>2, <3>1
    <3>2. CASE k \notin ks
      <4>1. told'[k] = told[k] /\ (k \in recs <=> k \in r.mem)
        BY <1>2, <3>2
      <4> QED BY <2>1, <4>1 DEF ToldIn
    <3> QED BY <3>1, <3>2
  <2>2. ASSUME p \in fresh', NEW q \in Writers \ {p}, q \notin raced', NEW k \in Handled(q)
        PROVE  k \in r.mem <=> k \in proc[q].mem
    <3>1. q \in Processes /\ k \in proc[q].asked
      BY <2>2 DEF Writers, AccountsIInv, AccountsTypeOK, Handled
    <3>2. k \notin ks
      BY <1>2, <2>2, <3>1
    <3>3. k \in recs <=> k \in r.mem
      BY <3>2
    <3> QED BY <2>2, <3>3 DEF WrittenIn
  <2>3. \A k \in Keys : told'[k] \in {told[k], "unknown"}
    BY <1>2
  <2> QED BY <1>2, <2>1, <2>2, <2>3, OthersFresh
<1>5. AccountsTypeOK'
  BY <1>2, <1>3 DEF AccountsIInv, AccountsTypeOK
<1>6. RacesKnown'
  <2> SUFFICES ASSUME NEW q \in Processes, NEW w \in Processes, q # w,
                      NEW k \in proc'[q].asked \cap proc'[w].asked
               PROVE  q \in raced'
    BY DEF RacesKnown
  <2>1. CASE q = p
    BY <1>2, <1>3, <2>1
  <2>2. CASE w = p
    BY <1>2, <1>3, <2>2
  <2>3. CASE q # p /\ w # p
    BY <1>2, <1>3, <2>3 DEF AccountsIInv, RacesKnown
  <2> QED BY <2>1, <2>2, <2>3
<1>7. \A q \in Processes : \A k \in proc'[q].asked : told'[k] = "unknown"
  <2> SUFFICES ASSUME NEW q \in Processes, NEW k \in proc'[q].asked
               PROVE  told'[k] = "unknown"
    OBVIOUS
  <2>1. k \in Keys
    BY <1>3 DEF Process
  <2>2. CASE q = p
    BY <1>2, <1>3, <2>1, <2>2
  <2>3. CASE q # p
    BY <1>2, <1>3, <2>1, <2>3 DEF AccountsIInv
  <2> QED BY <2>2, <2>3
<1>8. mode' = "memory" => told' = Void
  BY <1>2 DEF AccountsIInv, Void
<1>9. DiskIsWhole' /\ AnsweredIsDurable'
  BY <1>2 DEF AccountsIInv, DiskIsWhole, AnsweredIsDurable
<1> QED BY <1>3, <1>4, <1>5, <1>6, <1>7, <1>8, <1>9 DEF AccountsIInv

LEMMA PairKeeps ==
    ASSUME AccountsIInv, NEW p \in Processes, NEW batch \in Batches, Pair(p, batch)
    PROVE  AccountsIInv'
<1>1. proc \in [Processes -> Process] /\ proc[p] \in Process /\ ProcessOK(p)
  BY DEF AccountsIInv, AccountsTypeOK
<1>2. /\ proc[p].pc = "idle" /\ Ask(p, Range(batch)) /\ UNCHANGED <<mode, disk, tmp, fresh>>
  BY DEF Pair
<1>3. batch \in Seq(Keys) /\ Range(batch) \in SUBSET Keys
  BY AccountAssumption, LenProperties DEF Range
<1> DEFINE r == [proc[p] EXCEPT !.op = "save", !.pc = "next", !.todo = batch,
                                !.asked = Range(batch)]
<1>4. proc' = [proc EXCEPT ![p] = r]
  BY <1>1 DEF Pair
<1>5. /\ r \in Process /\ r.pc = "next" /\ r.op = "save" /\ r.mem = proc[p].mem
      /\ r.todo = batch /\ r.asked = Range(batch) /\ r.loaded = proc[p].loaded
  BY <1>1, <1>3 DEF Process
<1> HIDE DEF r
<1>6. proc'[p] = r
  BY <1>1, <1>4
<1>7. ProcessOK(p)'
  BY <1>1, <1>2, <1>5, <1>6 DEF ProcessOK, Handled
<1>8. p \in fresh' => ToldIn(proc[p].mem) /\ WrittenIn(p, proc[p].mem)
  BY <1>2 DEF AccountsIInv
<1>9. fresh' \subseteq Processes /\ r.asked \ Range(r.todo) = {}
  BY <1>2, <1>5 DEF AccountsIInv, AccountsTypeOK
<1> QED BY <1>2, <1>3, <1>4, <1>5, <1>7, <1>8, <1>9, AskKeeps

LEMMA RemoveKeeps ==
    ASSUME AccountsIInv, NEW p \in Processes, NEW k \in Keys, RemoveAccount(p, k)
    PROVE  AccountsIInv'
<1>1. proc \in [Processes -> Process] /\ proc[p] \in Process /\ ProcessOK(p)
  BY DEF AccountsIInv, AccountsTypeOK
<1>2. PICK mem \in LoadFromDisk(p) :
        /\ IF k \in mem
           THEN /\ proc' = [proc EXCEPT
                              ![p].loaded = TRUE, ![p].mem = mem \ {k},
                              ![p].op = "remove", ![p].asked = {k},
                              ![p].pc = IF mode = "memory" THEN "next" ELSE "open"]
                /\ Ask(p, {k})
           ELSE /\ proc' = [proc EXCEPT ![p].loaded = TRUE, ![p].mem = mem]
                /\ UNCHANGED toldVars
        /\ fresh' = LoadedFresh(p, mem)
  BY DEF RemoveAccount
<1>3. proc[p].pc = "idle" /\ UNCHANGED <<mode, disk, tmp>>
  BY DEF RemoveAccount
<1>4. CASE k \notin mem
  BY <1>2, <1>3, <1>4, LoadKeeps
<1>5. CASE k \in mem
  <2> DEFINE pc == IF mode = "memory" THEN "next" ELSE "open"
             r == [proc[p] EXCEPT !.loaded = TRUE, !.mem = mem \ {k}, !.op = "remove",
                                  !.asked = {k}, !.pc = pc]
  <2>1. proc' = [proc EXCEPT ![p] = r] /\ Ask(p, {k})
    BY <1>1, <1>2, <1>5
  <2>2. /\ mem \subseteq Keys /\ fresh' \subseteq Processes
        /\ \A q \in Processes : q # p => (q \in fresh' <=> q \in fresh)
    BY <1>2, Loading
  <2>3. pc \in {"next", "open"} /\ (mode = "persist" => pc = "open")
    OBVIOUS
  <2>4. pc = "open" => mode = "persist"
    BY DEF AccountsIInv, AccountsTypeOK
  <2> HIDE DEF pc
  <2>5. /\ r \in Process /\ r.pc = pc /\ r.op = "remove" /\ r.mem = mem \ {k}
        /\ r.todo = proc[p].todo /\ r.asked = {k} /\ r.loaded
    BY <1>1, <2>2, <2>3 DEF Process
  <2> HIDE DEF r
  <2>6. proc'[p] = r /\ proc[p].todo = <<>>
    BY <1>1, <1>3, <2>1 DEF ProcessOK
  <2>7. ProcessOK(p)'
    BY <1>3, <2>3, <2>4, <2>5, <2>6 DEF ProcessOK, Handled, Range
  <2>8. p \in fresh' => ToldIn(mem) /\ WrittenIn(p, mem)
    BY <1>2, LoadedAgrees
  <2>9. mem \ {k} = r.mem \ {k} /\ {k} \in SUBSET Keys
    BY <2>5
  <2> QED BY <1>3, <2>1, <2>2, <2>3, <2>5, <2>7, <2>8, <2>9, AskKeeps
<1> QED BY <1>4, <1>5

LEMMA SaveKeeps ==
    ASSUME AccountsIInv, NEW p \in Processes, SaveAccount(p)
    PROVE  AccountsIInv'
<1>1. proc \in [Processes -> Process] /\ proc[p] \in Process /\ ProcessOK(p)
  BY DEF AccountsIInv, AccountsTypeOK
<1> DEFINE todo == proc[p].todo
           k == Head(todo)
           pc == IF mode = "memory" THEN "next" ELSE "open"
<1>2. PICK mem \in LoadFromDisk(p) :
        /\ proc' = [proc EXCEPT ![p].loaded = TRUE, ![p].mem = Upsert(mem, k),
                                ![p].todo = Tail(@), ![p].pc = pc]
        /\ fresh' = LoadedFresh(p, mem)
  BY DEF SaveAccount
<1>3. /\ proc[p].pc = "next" /\ todo # <<>> /\ UNCHANGED <<mode, disk, tmp, told, raced>>
  BY DEF SaveAccount, toldVars
<1>4. todo \in Seq(Keys) /\ proc[p].op = "save"
  BY <1>1, <1>3 DEF Process, ProcessOK
<1>5. /\ k \in Range(todo) /\ Tail(todo) \in Seq(Keys)
      /\ Range(Tail(todo)) \subseteq Range(todo) /\ Range(todo) \subseteq Range(Tail(todo)) \cup {k}
  <2>1. /\ k \in Keys /\ Tail(todo) \in Seq(Keys) /\ Len(todo) \in Nat \ {0}
        /\ Len(Tail(todo)) = Len(todo) - 1
        /\ \A i \in 1..Len(Tail(todo)) : Tail(todo)[i] = todo[i + 1]
    BY <1>3, <1>4, HeadTailProperties, EmptySeq
  <2>2. DOMAIN todo = 1..Len(todo) /\ DOMAIN Tail(todo) = 1..Len(Tail(todo)) /\ k = todo[1]
    BY <1>4, <2>1, LenProperties
  <2>3. k \in Range(todo)
    BY <2>1, <2>2 DEF Range
  <2>4. Range(Tail(todo)) \subseteq Range(todo)
    BY <2>1, <2>2 DEF Range
  <2>5. ASSUME NEW i \in 1..Len(todo), i # 1
        PROVE  todo[i] \in Range(Tail(todo))
    <3>1. i - 1 \in 1..Len(Tail(todo)) /\ (i - 1) + 1 = i
      BY <2>1, <2>5
    <3> QED BY <2>1, <2>2, <3>1 DEF Range
  <2>6. Range(todo) \subseteq Range(Tail(todo)) \cup {k}
    BY <2>2, <2>5 DEF Range
  <2> QED BY <2>1, <2>3, <2>4, <2>6
<1>6. k \in proc[p].asked /\ k \in Keys /\ told[k] = "unknown"
  BY <1>1, <1>5 DEF ProcessOK, Process, AccountsIInv
<1>7. pc \in {"next", "open"} /\ (mode = "persist" <=> pc = "open")
  BY DEF AccountsIInv, AccountsTypeOK
<1>8. /\ mem \subseteq Keys /\ fresh' \subseteq Processes /\ Handled(p) \cap proc[p].mem \subseteq mem
      /\ \A q \in Processes : q # p => (q \in fresh' => q \in fresh)
  BY <1>2, Loading
<1> DEFINE rest == Tail(todo)
           r == [proc[p] EXCEPT !.loaded = TRUE, !.mem = mem \cup {k}, !.todo = rest, !.pc = pc]
<1>9. proc' = [proc EXCEPT ![p] = r]
  BY <1>1, <1>2 DEF Upsert
<1> HIDE DEF rest, pc, k
<1>10. /\ r \in Process /\ r.pc = pc /\ r.op = "save" /\ r.mem = mem \cup {k}
       /\ r.todo = rest /\ r.asked = proc[p].asked /\ r.loaded
  BY <1>1, <1>4, <1>5, <1>6, <1>7, <1>8 DEF Process, rest
<1> HIDE DEF r
<1>11. /\ proc' \in [Processes -> Process] /\ proc'[p] = r
       /\ \A q \in Processes : q # p => proc'[q] = proc[q] /\ ProcessOK(q)'
  BY <1>3, <1>8, <1>9, <1>10, Others
<1>12. ProcessOK(p)'
  <2>1. Handled(p) \subseteq proc[p].mem /\ Range(todo) \subseteq proc[p].asked
    BY <1>1, <1>4 DEF ProcessOK
  <2>2. r.asked \ Range(rest) \subseteq r.mem /\ Range(rest) \subseteq r.asked
    BY <1>5, <1>8, <1>10, <2>1 DEF Handled, rest
  <2> QED BY <1>3, <1>7, <1>10, <1>11, <2>2 DEF ProcessOK, Handled
<1>13. \A q \in fresh' : (ToldIn(proc[q].mem) /\ WrittenIn(q, proc[q].mem))'
  <2>1. p \in fresh' => ToldIn(mem) /\ WrittenIn(p, mem)
    BY <1>2, LoadedAgrees
  <2>2. ASSUME p \in fresh', NEW j \in Keys
        PROVE  /\ told[j] = "paired" => j \in r.mem
               /\ told[j] = "removed" => j \notin r.mem
    BY <1>6, <1>10, <2>1, <2>2 DEF ToldIn
  <2>3. ASSUME p \in fresh', NEW q \in Writers \ {p}, NEW j \in Handled(q)
        PROVE  j \in r.mem <=> j \in proc[q].mem
    <3>1. q \in Processes /\ q \notin raced /\ j \in proc[q].asked
      BY <2>3 DEF Writers, AccountsIInv, AccountsTypeOK, Handled
    <3>2. j # k
      BY <1>6, <2>3, <3>1 DEF AccountsIInv, RacesKnown
    <3> QED BY <1>10, <2>1, <2>3, <3>2 DEF WrittenIn
  <2>4. r.pc = "next" => mode # "persist"
    BY <1>7, <1>10
  <2> QED BY <1>3, <1>8, <1>9, <1>10, <2>2, <2>3, <2>4, OthersFresh
<1>14. AccountsTypeOK'
  BY <1>3, <1>8, <1>11 DEF AccountsIInv, AccountsTypeOK
<1>15. \A q \in Processes : proc'[q].asked = proc[q].asked
  BY <1>10, <1>11
<1>16. RacesKnown' /\ \A q \in Processes : \A j \in proc'[q].asked : told'[j] = "unknown"
  BY <1>3, <1>15 DEF AccountsIInv, RacesKnown
<1> QED BY <1>3, <1>11, <1>12, <1>13, <1>14, <1>16
        DEF AccountsIInv, DiskIsWhole, AnsweredIsDurable, Void

\* The store is what the process that wrote it has in memory: the only fresh one now.
LEMMA RenameKeeps ==
    ASSUME AccountsIInv, NEW p \in Processes, Rename(p)
    PROVE  AccountsIInv'
<1>1. proc \in [Processes -> Process] /\ proc[p] \in Process /\ ProcessOK(p)
  BY DEF AccountsIInv, AccountsTypeOK
<1>2. /\ proc[p].pc = "rename" /\ tmp[p] = Whole(proc[p].mem) /\ disk' = tmp[p]
      /\ tmp' = [tmp EXCEPT ![p] = Absent] /\ fresh' = {p}
      /\ told' = IF p \in fresh THEN told ELSE Void
      /\ mode = "persist" /\ mode' = mode /\ raced' = raced
  BY <1>1 DEF Rename, Overwrite, TmpOf, ProcessOK
<1> DEFINE r == [proc[p] EXCEPT !.pc = "next"]
<1>3. proc' = [proc EXCEPT ![p] = r]
  BY <1>1 DEF Rename
<1>4. /\ r \in Process /\ r.pc = "next" /\ r.mem = proc[p].mem /\ r.op = proc[p].op
      /\ r.asked = proc[p].asked /\ r.todo = proc[p].todo /\ r.loaded = proc[p].loaded
  BY <1>1 DEF Process
<1> HIDE DEF r
<1>5. /\ proc' \in [Processes -> Process] /\ proc'[p] = r
      /\ \A q \in Processes : q # p => proc'[q] = proc[q]
  BY <1>1, <1>3, <1>4
<1>6. /\ disk' = Whole(r.mem) /\ disk' \in File /\ disk'.recs = r.mem /\ disk'.kind = "whole"
      /\ tmp' \in [Processes -> File] /\ \A q \in Processes : q # p => tmp'[q] = tmp[q]
  <2>1. disk' = Whole(r.mem)
    BY <1>2, <1>4
  <2>2. Whole(r.mem) \in File /\ Whole(r.mem).recs = r.mem /\ Whole(r.mem).kind = "whole"
    BY <1>4 DEF File, Whole, Process
  <2>3. Absent \in File /\ tmp \in [Processes -> File]
    BY DEF Absent, File, AccountsIInv, AccountsTypeOK
  <2> QED BY <1>2, <2>1, <2>2, <2>3
<1>7. \A k \in Keys : told'[k] \in {told[k], "unknown"}
  BY <1>2 DEF Void
<1>8. told' \in [Keys -> {"unknown", "paired", "removed"}]
  BY <1>2 DEF AccountsIInv, AccountsTypeOK, Void
<1>9. p \notin fresh => \A k \in Keys : told'[k] = "unknown"
  BY <1>2 DEF Void
<1>10. \A k \in Keys : /\ told'[k] = "paired" => k \in r.mem
                       /\ told'[k] = "removed" => k \notin r.mem
  <2>1. CASE p \in fresh
    <3>1. ToldIn(proc[p].mem)
      BY <2>1 DEF AccountsIInv
    <3> QED BY <1>2, <1>4, <2>1, <3>1 DEF ToldIn
  <2>2. CASE p \notin fresh
    BY <1>9, <2>2
  <2> QED BY <2>1, <2>2
<1>11. ASSUME NEW q \in Processes PROVE ProcessOK(q)'
  <2>1. CASE q = p
    BY <1>1, <1>2, <1>4, <1>5, <1>6, <2>1 DEF ProcessOK, Handled
  <2>2. CASE q # p
    BY <1>2, <1>5, <1>6, <2>2 DEF AccountsIInv, ProcessOK, Handled
  <2> QED BY <2>1, <2>2
<1>12. \A q \in fresh' : (ToldIn(proc[q].mem) /\ WrittenIn(q, proc[q].mem))'
  BY <1>2, <1>5, <1>10 DEF ToldIn, WrittenIn, Writers
<1>13. AccountsTypeOK'
  BY <1>2, <1>5, <1>6, <1>8 DEF AccountsIInv, AccountsTypeOK
<1>14. \A q \in Processes : proc'[q].asked = proc[q].asked
  BY <1>4, <1>5
<1>15. RacesKnown'
  BY <1>2, <1>14 DEF AccountsIInv, RacesKnown
<1>16. \A q \in Processes : \A k \in proc'[q].asked : told'[k] = "unknown"
  <2>1. \A q \in Processes : proc'[q].asked \subseteq Keys
    BY <1>5 DEF Process
  <2> QED BY <1>7, <1>14, <2>1 DEF AccountsIInv
<1>17. DiskIsWhole' /\ AnsweredIsDurable'
  BY <1>6, <1>10 DEF DiskIsWhole, AnsweredIsDurable, Torn
<1> QED BY <1>2, <1>11, <1>12, <1>13, <1>15, <1>16, <1>17 DEF AccountsIInv

\* An answer that binds tells what is in the file, and in every fresh process.
LEMMA AnswerKeeps ==
    ASSUME AccountsIInv, NEW p \in Processes, Answer(p)
    PROVE  AccountsIInv'
<1>1. proc \in [Processes -> Process] /\ proc[p] \in Process /\ ProcessOK(p)
  BY DEF AccountsIInv, AccountsTypeOK
<1> DEFINE asked == proc[p].asked
           word == IF proc[p].op = "save" THEN "paired" ELSE "removed"
<1>2. /\ proc[p].pc = "next" /\ proc[p].todo = <<>>
      /\ told' = [k \in Keys |-> IF k \in asked /\ Binds(p) THEN word ELSE told[k]]
      /\ UNCHANGED <<mode, disk, tmp, raced, fresh>>
  BY DEF Answer
<1> DEFINE r == [proc[p] EXCEPT !.op = "none", !.pc = "idle", !.todo = <<>>, !.asked = {}]
<1>3. proc' = [proc EXCEPT ![p] = r]
  BY <1>1 DEF Answer, Done
<1>4. /\ r \in Process /\ r.pc = "idle" /\ r.mem = proc[p].mem /\ r.op = "none"
      /\ r.asked = {} /\ r.todo = <<>> /\ r.loaded = proc[p].loaded
  BY <1>1, EmptySeq DEF Process
<1> HIDE DEF r
<1>5. /\ proc' \in [Processes -> Process] /\ proc'[p] = r
      /\ \A q \in Processes : q # p => proc'[q] = proc[q] /\ ProcessOK(q)'
  BY <1>2, <1>3, <1>4, Others
<1>6. ProcessOK(p)'
  BY <1>1, <1>2, <1>4, <1>5 DEF ProcessOK, Handled, Range
<1>7. Handled(p) = asked
  BY <1>2 DEF Handled, Range
<1>8. proc[p].op \in {"save", "remove"}
  BY <1>1, <1>2 DEF ProcessOK, Process
<1>9. ASSUME Binds(p), NEW k \in asked
      PROVE  /\ disk.recs = proc[p].mem
             /\ word = "paired" => k \in proc[p].mem
             /\ word = "removed" => k \notin proc[p].mem
  <2>1. disk = Whole(proc[p].mem)
    BY <1>1, <1>2, <1>7, <1>9 DEF ProcessOK, Binds
  <2> QED BY <1>1, <1>7, <1>8, <1>9, <2>1 DEF ProcessOK, Whole
<1>10. told' \in [Keys -> {"unknown", "paired", "removed"}]
  <2>1. told \in [Keys -> {"unknown", "paired", "removed"}]
    BY DEF AccountsIInv, AccountsTypeOK
  <2> QED BY <1>2, <2>1
<1>11. AnsweredIsDurable'
  <2> SUFFICES ASSUME NEW k \in Keys
               PROVE  /\ told'[k] = "paired" => k \in disk.recs
                      /\ told'[k] = "removed" => k \notin disk.recs
    BY <1>2 DEF AnsweredIsDurable
  <2>1. CASE k \in asked /\ Binds(p)
    BY <1>2, <1>9, <2>1
  <2>2. CASE ~(k \in asked /\ Binds(p))
    BY <1>2, <2>2 DEF AccountsIInv, AnsweredIsDurable
  <2> QED BY <2>1, <2>2
<1>12. ASSUME NEW q \in fresh', NEW k \in Keys
       PROVE  /\ told'[k] = "paired" => k \in proc[q].mem
              /\ told'[k] = "removed" => k \notin proc[q].mem
  <2>1. CASE k \in asked /\ Binds(p)
    <3>1. k \in proc[q].mem <=> k \in proc[p].mem
      <4>1. CASE q = p
        BY <4>1
      <4>2. CASE q # p
        <5>1. p \in Writers \ {q} /\ k \in Handled(p)
          BY <1>2, <1>7, <2>1, <4>2 DEF Writers, Binds
        <5>2. WrittenIn(q, proc[q].mem)
          BY <1>2, <1>12 DEF AccountsIInv
        <5> QED BY <5>1, <5>2 DEF WrittenIn
      <4> QED BY <4>1, <4>2
    <3>2. told'[k] = word
      BY <1>2, <2>1
    <3> QED BY <1>9, <2>1, <3>1, <3>2
  <2>2. CASE ~(k \in asked /\ Binds(p))
    <3>1. told'[k] = told[k]
      BY <1>2, <2>2
    <3> QED BY <1>2, <3>1 DEF AccountsIInv, ToldIn
  <2> QED BY <2>1, <2>2
<1>13. \A q \in fresh' : proc'[q].mem = proc[q].mem
  BY <1>2, <1>4, <1>5 DEF AccountsIInv, AccountsTypeOK
<1>14. ASSUME NEW q \in fresh' PROVE (ToldIn(proc[q].mem))' /\ (WrittenIn(q, proc[q].mem))'
  <2>1. (ToldIn(proc[q].mem))'
    BY <1>12, <1>13, <1>14 DEF ToldIn
  <2>2. ASSUME NEW w \in (Writers \ {q})', NEW k \in Handled(w)'
        PROVE  k \in proc'[q].mem <=> k \in proc'[w].mem
    <3>1. w \in fresh /\ w \notin raced /\ proc'[w].pc = "next" /\ mode = "persist" /\ w # q
      BY <1>2, <2>2 DEF Writers
    <3>2. w # p /\ w \in Processes
      BY <1>4, <1>5, <3>1 DEF AccountsIInv, AccountsTypeOK
    <3>3. w \in Writers \ {q} /\ proc'[w] = proc[w] /\ k \in Handled(w)
      BY <1>5, <2>2, <3>1, <3>2 DEF Writers, Handled
    <3> QED BY <1>2, <1>13, <1>14, <3>3 DEF AccountsIInv, WrittenIn
  <2> QED BY <2>1, <2>2 DEF WrittenIn
<1>15. AccountsTypeOK'
  BY <1>2, <1>5, <1>10 DEF AccountsIInv, AccountsTypeOK
<1>16. \A q \in Processes : proc'[q].asked \subseteq proc[q].asked
  BY <1>4, <1>5
<1>17. RacesKnown'
  BY <1>2, <1>16 DEF AccountsIInv, RacesKnown
<1>18. ASSUME NEW q \in Processes, NEW k \in proc'[q].asked PROVE told'[k] = "unknown"
  <2>1. q # p /\ k \in proc[q].asked /\ k \in Keys
    BY <1>4, <1>5, <1>18 DEF Process
  <2>2. told[k] = "unknown"
    BY <2>1 DEF AccountsIInv
  <2>3. ~(k \in asked /\ Binds(p))
    BY <2>1 DEF AccountsIInv, RacesKnown, Binds
  <2> QED BY <1>2, <2>1, <2>2, <2>3
<1>19. mode' = "memory" => told' = Void
  <2>1. CASE Binds(p)
    BY <1>2, <2>1 DEF Binds
  <2>2. CASE ~Binds(p)
    BY <1>2, <2>2 DEF AccountsIInv, Void, AccountsTypeOK
  <2> QED BY <2>1, <2>2
<1> QED BY <1>2, <1>5, <1>6, <1>11, <1>14, <1>15, <1>17, <1>18, <1>19 DEF AccountsIInv, DiskIsWhole

LEMMA DamageKeeps ==
    ASSUME AccountsIInv, Damage
    PROVE  AccountsIInv'
<1>1. /\ disk' \in {Garbage, Absent} /\ told' = Void /\ fresh' = {}
      /\ UNCHANGED <<mode, tmp, proc, raced>>
  BY DEF Damage
<1>2. disk' \in File /\ disk' # Torn
  BY <1>1 DEF File, Garbage, Absent, Torn
<1>3. AccountsTypeOK'
  BY <1>1, <1>2 DEF AccountsIInv, AccountsTypeOK, Void
<1>4. \A p \in Processes : ProcessOK(p)'
  BY <1>1 DEF AccountsIInv, ProcessOK, Handled
<1>5. RacesKnown' /\ DiskIsWhole' /\ AnsweredIsDurable'
  BY <1>1, <1>2 DEF AccountsIInv, RacesKnown, DiskIsWhole, AnsweredIsDurable, Void
<1>6. \A p \in Processes : \A k \in proc'[p].asked : told'[k] = "unknown"
  <2>1. \A p \in Processes : proc[p].asked \subseteq Keys
    BY DEF AccountsIInv, AccountsTypeOK, Process
  <2> QED BY <1>1, <2>1 DEF Void
<1> QED BY <1>1, <1>3, <1>4, <1>5, <1>6 DEF AccountsIInv, Void

LEMMA AccountsInitHolds ==
    ASSUME AccountsInit
    PROVE  AccountsIInv
<1>1. disk \in File /\ disk # Torn
  <2>1. \A batch \in Batches : Range(batch) \subseteq Keys
    BY AccountAssumption, LenProperties DEF Range
  <2>2. Absent \in File /\ Absent # Torn
    BY DEF Absent, File, Torn
  <2>3. \A recs \in SUBSET Keys : Whole(recs) \in File /\ Whole(recs) # Torn
    BY DEF Whole, File, Torn
  <2> QED BY <2>1, <2>2, <2>3 DEF AccountsInit
<1>2. /\ Booted \in Process /\ Booted.pc = "idle" /\ Booted.mem = {} /\ Booted.op = "none"
      /\ Booted.asked = {} /\ Booted.todo = <<>> /\ ~Booted.loaded
  BY EmptySeq DEF Process, Booted
<1>3. proc \in [Processes -> Process] /\ \A p \in Processes : proc[p] = Booted
  BY <1>2 DEF AccountsInit
<1>4. AccountsTypeOK
  BY <1>1, <1>3 DEF AccountsInit, AccountsTypeOK, Void, Absent, File
<1>5. \A p \in Processes : ProcessOK(p)
  BY <1>2, <1>3 DEF AccountsInit, ProcessOK, Handled, Range
<1> QED BY <1>1, <1>2, <1>3, <1>4, <1>5
        DEF AccountsInit, AccountsIInv, RacesKnown, DiskIsWhole, AnsweredIsDurable, Void

-----------------------------------------------------------------------------
(* The theorems                                                             *)

\* Memory, temporary files, the store and the answers agree at every step of every process.
THEOREM AccountInvariance == AccountsSpec => []AccountsIInv
<1>1. AccountsInit => AccountsIInv
  BY AccountsInitHolds
<1>2. AccountsIInv /\ [AccountsNext]_accountVars => AccountsIInv'
  <2> SUFFICES ASSUME AccountsIInv, [AccountsNext]_accountVars PROVE AccountsIInv'
    OBVIOUS
  <2>1. ASSUME NEW p \in Processes, EagerInitStore(p) PROVE AccountsIInv'
    BY <2>1, LoadKeeps DEF EagerInitStore
  <2>2. ASSUME NEW p \in Processes, \E batch \in Batches : Pair(p, batch) PROVE AccountsIInv'
    BY <2>2, PairKeeps
  <2>3. ASSUME NEW p \in Processes, \E k \in Keys : RemoveAccount(p, k) PROVE AccountsIInv'
    BY <2>3, RemoveKeeps
  <2>4. ASSUME NEW p \in Processes, SaveAccount(p) \/ Rename(p) \/ Answer(p) PROVE AccountsIInv'
    BY <2>4, SaveKeeps, RenameKeeps, AnswerKeeps
  <2>5. ASSUME NEW p \in Processes, OpenTmp(p) \/ WriteTmp(p) \/ FileError(p) \/ Crash(p)
        PROVE  AccountsIInv'
    BY <2>5, FileStepKeeps
  <2>6. CASE Damage
    BY <2>6, DamageKeeps
  <2>7. CASE UNCHANGED accountVars
    BY <2>7 DEF accountVars, toldVars, AccountsIInv, AccountsTypeOK, ProcessOK, Handled, RacesKnown, ToldIn, WrittenIn,
                Writers, DiskIsWhole, AnsweredIsDurable, Void
  <2> QED BY <2>1, <2>2, <2>3, <2>4, <2>5, <2>6, <2>7 DEF AccountsNext
<1> QED BY <1>1, <1>2, PTL DEF AccountsSpec

\* Every value is one that the processes and their files can hold.
THEOREM AccountTypeCorrect == AccountsSpec => []AccountsTypeOK
<1>1. AccountsIInv => AccountsTypeOK
  BY DEF AccountsIInv
<1> QED BY <1>1, AccountInvariance, PTL

\* The store is never half written, however many processes write and die.
THEOREM StaysWhole == AccountsSpec => []DiskIsWhole
<1>1. AccountsIInv => DiskIsWhole
  BY DEF AccountsIInv
<1> QED BY <1>1, AccountInvariance, PTL

\* What a pairing or a removal answered is in the file.
THEOREM AnswersLast == AccountsSpec => []AnsweredIsDurable
<1>1. AccountsIInv => AnsweredIsDurable
  BY DEF AccountsIInv
<1> QED BY <1>1, AccountInvariance, PTL
=============================================================================
