--------------------------- MODULE PairingSession ---------------------------
(***************************************************************************)
(* The WalletConnect session of wallet/session-manager.ts and the lazy      *)
(* client singleton of wallet/walletconnect-client.ts: pair, pairStart and  *)
(* pairWait, setActiveAccount, and the session store they share.            *)
(*                                                                         *)
(* Calls interleave wherever one awaits: the client, the wiping of the      *)
(* disk, the disconnection of a session, the URI, the user's approval.  A   *)
(* call makes at most one proposal and a proposal at most one session, so a *)
(* call names its proposal, its session and, for pairStart, its handle.     *)
(* cachedSessionTopic is left out: the code writes it and nothing reads it. *)
(***************************************************************************)
EXTENDS Naturals, Sequences, SequencesExt

CONSTANTS
    Calls,          \* tool calls of one behaviour
    Accounts,       \* EVM accounts
    AccountLists,   \* account lists a wallet may approve
    Old,            \* the session an earlier process left on disk
    None

Sessions == Calls \cup {Old}

ASSUME PairingAssumption ==
    /\ None \notin Accounts \cup Sessions
    /\ Old \notin Calls
    /\ AccountLists \subseteq Seq(Accounts) \ {<<>>}

VARIABLES
    client,     \* cachedClient and initInFlight
    listener,   \* sessionDeleteListenerRegistered
    live,       \* client.session.getAll(), unexpired, in the order they were settled
    accounts,   \* the account list of every session ever approved
    chosen,     \* activeAccountByTopic
    inFlight,   \* inFlightApproval: the call whose pairing it stands for
    pending,    \* pendingHandles
    calls

sessionVars == <<live, accounts, chosen>>
guardVars == <<inFlight, pending>>
vars == <<client, listener, sessionVars, guardVars, calls>>

Pcs == {"idle", "client", "clear", "disconnect", "connect", "approval", "wait", "done"}

Results ==
    {"none", "paired", "cached", "started", "selected", "PAIRING_IN_PROGRESS",
     "APPROVAL_TIMEOUT", "USER_REJECTED", "INVALID_HANDLE", "WALLET_NOT_PAIRED",
     "INVALID_ACCOUNT", "INTERNAL_ERROR", "lost"}

Call ==
    [op      : {"none", "pair", "start", "wait", "select"},
     force   : BOOLEAN,
     pc      : Pcs,
     handle  : Calls \cup {None},                   \* pairWait's argument
     prop    : {"none", "open", "approved", "rejected", "expired"},
     settled : BOOLEAN,                             \* pairStart's promise has run
     sess    : Sessions \cup {None},                \* the session it disconnects, or reports
     acct    : Accounts \cup {None},                \* the account it asks for, or reports
     res     : Results]

IdleCall ==
    [op |-> "none", force |-> FALSE, pc |-> "idle", handle |-> None, prop |-> "none",
     settled |-> FALSE, sess |-> None, acct |-> None, res |-> "none"]

IsLive(t) == t \in Range(live)

\* Mutant: the selected account is not kept by session.
ActiveAnySession(t) ==
    IF \E s \in Sessions : chosen[s] # None
    THEN chosen[CHOOSE s \in Sessions : chosen[s] # None]
    ELSE Head(accounts[t])

\* sessionToStatus: the selected account, or the first of the session.
Active(t) == IF chosen[t] # None THEN chosen[t] ELSE Head(accounts[t])

\* findLiveSession: the oldest session of the store.
Current == IF live = <<>> THEN None ELSE Head(live)

Fail(c, res) ==
    calls' = [calls EXCEPT ![c].pc = "done", ![c].sess = None, ![c].acct = None, ![c].res = res]

\* An answer that reports session t and its active account.
Report(c, t, res) ==
    calls' = [calls EXCEPT ![c].pc = "done", ![c].sess = t, ![c].acct = Active(t), ![c].res = res]

-----------------------------------------------------------------------------
(* The client                                                               *)

\* getWalletConnectClient: the first call starts the initialisation, the others
\* share its promise.
Wanted == IF client = "none" THEN "initializing" ELSE client

\* The store is loaded from disk: there may be a session.
InitSucceeds ==
    /\ client = "initializing"
    /\ client' = "ready"
    /\ UNCHANGED <<listener, sessionVars, guardVars, calls>>

\* The rejected promise stays in initInFlight, for every later call to await.
InitFails ==
    /\ client = "initializing"
    /\ client' = "failed"
    /\ UNCHANGED <<listener, sessionVars, guardVars, calls>>

\* At boot, with persistent storage.
EagerInit ==
    /\ client = "none"
    /\ client' = "initializing"
    /\ UNCHANGED <<listener, sessionVars, guardVars, calls>>

-----------------------------------------------------------------------------
(* pair and pairStart                                                       *)

\* The guard comes first, before the client is awaited.
BeginPair(c, op, force) ==
    /\ calls[c].pc = "idle"
    /\ IF ~force /\ inFlight # None
       THEN /\ calls' = [calls EXCEPT ![c] =
                           [IdleCall EXCEPT !.op = op, !.pc = "done",
                                            !.res = "PAIRING_IN_PROGRESS"]]
            /\ UNCHANGED client
       ELSE /\ calls' = [calls EXCEPT ![c] =
                           [IdleCall EXCEPT !.op = op, !.force = force, !.pc = "client"]]
            /\ client' = Wanted
    /\ UNCHANGED <<listener, sessionVars, guardVars>>

\* client.connect: pair stakes the in-flight slot at once, pairStart later.
Connect(c) ==
    /\ calls' = [calls EXCEPT ![c].pc = "connect", ![c].sess = None]
    /\ inFlight' = IF calls[c].op = "pair" THEN c ELSE inFlight

GotClient(c) ==
    /\ calls[c].pc = "client"
    /\ calls[c].op \in {"pair", "start"}
    /\ client = "ready"
    /\ listener' = TRUE
    /\ CASE calls[c].force ->
              calls' = [calls EXCEPT ![c].pc = "clear"] /\ UNCHANGED inFlight
         [] ~calls[c].force /\ Current # None ->
              Report(c, Current, "cached") /\ UNCHANGED inFlight
         [] OTHER -> Connect(c)
    /\ UNCHANGED <<client, sessionVars, pending>>

ClientFailed(c) ==
    /\ calls[c].pc = "client"
    /\ client = "failed"
    /\ Fail(c, "INTERNAL_ERROR")
    /\ UNCHANGED <<client, listener, sessionVars, guardVars>>

\* With force: the disk is wiped, then the session found then is disconnected.
Cleared(c) ==
    /\ calls[c].pc = "clear"
    /\ IF Current # None
       THEN /\ calls' = [calls EXCEPT ![c].pc = "disconnect", ![c].sess = Current]
            /\ UNCHANGED guardVars
       ELSE Connect(c) /\ pending' = {}
    /\ UNCHANGED <<client, listener, sessionVars>>

\* The store without session t.
Without(t) == RemoveAt(live, CHOOSE i \in DOMAIN live : live[i] = t)

\* The session leaves the store, and the selection with it.
Forget(t) ==
    /\ live' = Without(t)
    /\ chosen' = [chosen EXCEPT ![t] = None]
    /\ UNCHANGED accounts

Disconnected(c) ==
    /\ calls[c].pc = "disconnect"
    /\ IsLive(calls[c].sess)
    /\ Forget(calls[c].sess)
    /\ pending' = {}
    /\ Connect(c)
    /\ UNCHANGED <<client, listener>>

\* The disk, the relay or a session already gone makes any of them throw.
ForceFails(c) ==
    /\ calls[c].pc \in {"clear", "disconnect"}
    /\ Fail(c, "INTERNAL_ERROR")
    /\ UNCHANGED <<client, listener, sessionVars, guardVars>>

\* The URI arrives: pair goes on to await the approval, pairStart parks it under
\* its handle and answers.
GotUri(c) ==
    /\ calls[c].pc = "connect"
    /\ IF calls[c].op = "pair"
       THEN /\ calls' = [calls EXCEPT ![c].pc = "approval", ![c].prop = "open"]
            /\ UNCHANGED guardVars
       ELSE /\ calls' = [calls EXCEPT ![c].pc = "done", ![c].prop = "open", ![c].res = "started"]
            /\ pending' = pending \cup {c}
            /\ inFlight' = c
    /\ UNCHANGED <<client, listener, sessionVars>>

\* pair's finally empties the slot, whoever's it is by then.
Released(c) == inFlight' = IF calls[c].op = "pair" THEN None ELSE inFlight

ConnectFails(c) ==
    /\ calls[c].pc = "connect"
    /\ Fail(c, "INTERNAL_ERROR")
    /\ Released(c)
    /\ UNCHANGED <<client, listener, sessionVars, pending>>

\* What a proposal that was not approved makes of the call that awaits it.
Refusal(prop) == IF prop = "rejected" THEN "USER_REJECTED" ELSE "INTERNAL_ERROR"

\* Mutant: only a pairing that succeeds empties the slot.
ApprovalReturnsHolding(c) ==
    /\ calls[c].pc = "approval"
    /\ calls[c].prop # "open"
    /\ IF calls[c].prop = "approved"
       THEN Report(c, c, "paired") /\ Released(c)
       ELSE Fail(c, Refusal(calls[c].prop)) /\ UNCHANGED inFlight
    /\ UNCHANGED <<client, listener, sessionVars, pending>>

ApprovalReturns(c) ==
    /\ calls[c].pc = "approval"
    /\ calls[c].prop # "open"
    /\ IF calls[c].prop = "approved"
       THEN Report(c, c, "paired")
       ELSE Fail(c, Refusal(calls[c].prop))
    /\ Released(c)
    /\ UNCHANGED <<client, listener, sessionVars, pending>>

\* After 60 seconds; the proposal stays open.
ApprovalTimeout(c) ==
    /\ calls[c].pc = "approval"
    /\ calls[c].prop = "open"
    /\ Fail(c, "APPROVAL_TIMEOUT")
    /\ Released(c)
    /\ UNCHANGED <<client, listener, sessionVars, pending>>

\* The parked promise settles: with the session and its active account, if the
\* user approved it.
Settling(c) ==
    /\ calls[c].op = "start"
    /\ calls[c].prop \in {"approved", "rejected", "expired"}
    /\ ~calls[c].settled
    /\ calls' = [calls EXCEPT
                   ![c].settled = TRUE,
                   ![c].sess = IF calls[c].prop = "approved" THEN c ELSE None,
                   ![c].acct = IF calls[c].prop = "approved" THEN Active(c) ELSE None]
    /\ UNCHANGED <<client, listener, sessionVars>>

\* Mutants: the slot is kept when the user refuses; the handle is kept.
SettleHolding(c) ==
    /\ Settling(c)
    /\ pending' = pending \ {c}
    /\ inFlight' = IF inFlight = c /\ calls[c].prop = "approved" THEN None ELSE inFlight

SettleKeepingHandle(c) ==
    /\ Settling(c)
    /\ inFlight' = IF inFlight = c THEN None ELSE inFlight
    /\ UNCHANGED pending

\* Its handle is deleted, and the slot emptied if it still stands for this pairing.
Settle(c) ==
    /\ Settling(c)
    /\ pending' = pending \ {c}
    /\ inFlight' = IF inFlight = c THEN None ELSE inFlight

-----------------------------------------------------------------------------
(* pairWait and setActiveAccount                                            *)

Wait(c, h) ==
    /\ calls[c].pc = "idle"
    /\ calls[h].res = "started"
    /\ calls' = [calls EXCEPT ![c] =
                   IF h \in pending
                   THEN [IdleCall EXCEPT !.op = "wait", !.handle = h, !.pc = "wait"]
                   ELSE [IdleCall EXCEPT !.op = "wait", !.handle = h, !.pc = "done",
                                         !.res = "INVALID_HANDLE"]]
    /\ UNCHANGED <<client, listener, sessionVars, guardVars>>

WaitReturns(c) ==
    LET h == calls[c].handle IN
    /\ calls[c].pc = "wait"
    /\ calls[h].settled
    /\ IF calls[h].prop = "approved"
       THEN calls' = [calls EXCEPT ![c].pc = "done", ![c].sess = calls[h].sess,
                                   ![c].acct = calls[h].acct, ![c].res = "paired"]
       ELSE Fail(c, Refusal(calls[h].prop))
    /\ UNCHANGED <<client, listener, sessionVars, guardVars>>

WaitTimeout(c) ==
    /\ calls[c].pc = "wait"
    /\ ~calls[calls[c].handle].settled
    /\ Fail(c, "APPROVAL_TIMEOUT")
    /\ UNCHANGED <<client, listener, sessionVars, guardVars>>

BeginSelect(c, a) ==
    /\ calls[c].pc = "idle"
    /\ calls' = [calls EXCEPT ![c] =
                   [IdleCall EXCEPT !.op = "select", !.acct = a, !.pc = "client"]]
    /\ client' = Wanted
    /\ UNCHANGED <<listener, sessionVars, guardVars>>

\* Mutant: the account is not looked up in the session.
SelectAny(c) ==
    /\ calls[c].pc = "client"
    /\ calls[c].op = "select"
    /\ client = "ready"
    /\ IF Current = None
       THEN Fail(c, "WALLET_NOT_PAIRED") /\ UNCHANGED chosen
       ELSE /\ chosen' = [chosen EXCEPT ![Current] = calls[c].acct]
            /\ calls' = [calls EXCEPT ![c].pc = "done", ![c].sess = Current,
                                      ![c].res = "selected"]
    /\ UNCHANGED <<client, listener, live, accounts, guardVars>>

\* The account must be one of the session found now.
Select(c) ==
    LET a == calls[c].acct IN
    /\ calls[c].pc = "client"
    /\ calls[c].op = "select"
    /\ client = "ready"
    /\ CASE Current = None ->
              Fail(c, "WALLET_NOT_PAIRED") /\ UNCHANGED chosen
         [] Current # None /\ a \notin Range(accounts[Current]) ->
              Fail(c, "INVALID_ACCOUNT") /\ UNCHANGED chosen
         [] OTHER ->
              /\ chosen' = [chosen EXCEPT ![Current] = a]
              /\ calls' = [calls EXCEPT ![c].pc = "done", ![c].sess = Current,
                                        ![c].res = "selected"]
    /\ UNCHANGED <<client, listener, live, accounts, guardVars>>

-----------------------------------------------------------------------------
(* The wallet, the relay and the process                                    *)

Approve(c) ==
    /\ calls[c].prop = "open"
    /\ client = "ready"
    /\ calls' = [calls EXCEPT ![c].prop = "approved"]
    /\ live' = Append(live, c)
    /\ \E list \in AccountLists : accounts' = [accounts EXCEPT ![c] = list]
    /\ UNCHANGED <<client, listener, chosen, guardVars>>

\* The user refuses, or the proposal expires at the relay.
Decline(c) ==
    /\ calls[c].prop = "open"
    /\ \E prop \in {"rejected", "expired"} : calls' = [calls EXCEPT ![c].prop = prop]
    /\ UNCHANGED <<client, listener, sessionVars, guardVars>>

\* session_delete: the listener forgets the selection too.
SessionDelete(t) ==
    /\ client = "ready"
    /\ IsLive(t)
    /\ IF listener THEN Forget(t) ELSE live' = Without(t) /\ UNCHANGED <<accounts, chosen>>
    /\ UNCHANGED <<client, listener, guardVars, calls>>

\* Expiry is only filtered out by findLiveSession.
SessionExpires(t) ==
    /\ client = "ready"
    /\ IsLive(t)
    /\ live' = Without(t)
    /\ UNCHANGED <<client, listener, accounts, chosen, guardVars, calls>>

\* Memory is lost; sessions are kept or not, by the storage mode and by whether
\* the disk was wiped.  Proposals die with the client that made them.
Restart ==
    /\ client # "none"
    /\ client' = "none"
    /\ listener' = FALSE
    /\ live' \in {live, <<>>}
    /\ chosen' = [t \in Sessions |-> None]
    /\ inFlight' = None
    /\ pending' = {}
    /\ calls' = [c \in Calls |->
                   [calls[c] EXCEPT
                      !.prop = IF @ = "open" THEN "expired" ELSE @,
                      !.settled = IF calls[c].op = "start" THEN TRUE ELSE @,
                      !.res = IF calls[c].pc \in {"idle", "done"} THEN @ ELSE "lost",
                      !.sess = IF calls[c].pc = "done" THEN @ ELSE None,
                      !.acct = IF calls[c].pc = "done" THEN @ ELSE None,
                      !.pc = IF @ = "idle" THEN "idle" ELSE "done"]]
    /\ UNCHANGED accounts

Init ==
    /\ client = "none"
    /\ listener = FALSE
    /\ \E list \in AccountLists : accounts = [t \in Sessions |-> IF t = Old THEN list ELSE <<>>]
    /\ live \in {<<>>, <<Old>>}
    /\ chosen = [t \in Sessions |-> None]
    /\ inFlight = None
    /\ pending = {}
    /\ calls = [c \in Calls |-> IdleCall]

Begin(c) ==
    \/ \E op \in {"pair", "start"}, force \in BOOLEAN : BeginPair(c, op, force)
    \/ \E h \in Calls : Wait(c, h)
    \/ \E a \in Accounts : BeginSelect(c, a)

\* The steps of a call after it began.
Resume(c) ==
    \/ GotClient(c) \/ ClientFailed(c) \/ Cleared(c) \/ Disconnected(c) \/ ForceFails(c)
    \/ GotUri(c) \/ ConnectFails(c) \/ ApprovalReturns(c) \/ ApprovalTimeout(c)
    \/ WaitReturns(c) \/ WaitTimeout(c) \/ Select(c)

InitEnds == InitSucceeds \/ InitFails

Next ==
    \/ \E c \in Calls : Begin(c) \/ Resume(c) \/ Settle(c) \/ Approve(c) \/ Decline(c)
    \/ InitEnds \/ EagerInit
    \/ \E t \in Sessions : SessionDelete(t) \/ SessionExpires(t)
    \/ Restart

Spec == Init /\ [][Next]_vars

\* Every await ends, and a proposal nobody answers expires at the relay.
Fairness ==
    /\ WF_vars(InitEnds)
    /\ \A c \in Calls : WF_vars(Resume(c)) /\ WF_vars(Settle(c)) /\ WF_vars(Decline(c))

FairSpec == Spec /\ Fairness

-----------------------------------------------------------------------------
(* Properties                                                               *)

TypeOK ==
    /\ client \in {"none", "initializing", "ready", "failed"}
    /\ listener \in BOOLEAN
    /\ live \in Seq(Sessions) /\ IsInjective(live)
    /\ accounts \in [Sessions -> AccountLists \cup {<<>>}]
    /\ chosen \in [Sessions -> Accounts \cup {None}]
    /\ \A t \in Sessions : chosen[t] # None => chosen[t] \in Range(accounts[t])
    /\ inFlight \in Calls \cup {None}
    /\ pending \subseteq Calls
    /\ calls \in [Calls -> Call]

\* A pairing that can still end: its proposal is being made, awaited or parked.
Unfinished(c) ==
    \/ calls[c].op = "pair" /\ calls[c].pc \in {"connect", "approval"}
    \/ calls[c].op = "start" /\ calls[c].res = "started" /\ ~calls[c].settled

\* inFlightApproval never outlives the pairing it stands for, through timeouts,
\* refusals, late approvals and forced pairings: pair_ledger_live is refused with
\* PAIRING_IN_PROGRESS only while there is one.
GuardIsHonest == inFlight # None => Unfinished(inFlight)

\* A handle that pairWait accepts is one whose promise is still to settle.
HandlesAreOpen == \A h \in pending : Unfinished(h) /\ calls[h].op = "start"

\* The account a tool reports, which send_transaction will spend from, is one
\* that the user approved for the very session reported, whatever was selected
\* under the sessions before it.
ReportedIsApproved ==
    \A c \in Calls :
        calls[c].pc = "done" /\ calls[c].acct # None =>
            /\ calls[c].sess # None
            /\ calls[c].acct \in Range(accounts[calls[c].sess])

\* Nobody need answer a proposal: the slot and every handle are given back all the same,
\* so that later pairings are not refused forever.
PairingSettles ==
    /\ (inFlight # None) ~> (inFlight = None)
    /\ \A h \in Calls : (h \in pending) ~> (h \notin pending)
=============================================================================
