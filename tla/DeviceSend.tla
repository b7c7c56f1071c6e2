----------------------------- MODULE DeviceSend -----------------------------
(***************************************************************************)
(* What the tools of Solana, TRON and Bittensor share.  The paired accounts *)
(* of a family are a list and every tool takes the first; a transaction is  *)
(* complete when it is prepared, with whatever keeps it from being valid    *)
(* for ever or from being executed twice; send_transaction has a Ledger     *)
(* sign it and then submits it, at two awaits.                              *)
(*                                                                         *)
(* A behaviour is about one family.  The chain, the other users of its      *)
(* accounts and the Ledger that happens to be plugged in are external: a    *)
(* node that takes a transaction has not executed it, and the chain may do  *)
(* so later, or never.  A tick of the clock is ten minutes.                 *)
(***************************************************************************)
EXTENDS HandleStore, Sequences, FiniteSets, TLC

CONSTANTS
    Families,   \* of "solana", "tron" and "bittensor", those of the run
    Accounts,   \* accounts that may be paired
    Persona,    \* the account of the demo persona
    Stranger,   \* an account of somebody else, the key of another Ledger
    Requests,   \* calls of the prepare tools: of each family and tool, the arguments there may be
    Calls,      \* calls of send_transaction under way
    Levels,     \* of each family, values of the one number on chain that a tool depends on
    Bad,        \* an argument that does not parse
    MaxNonce,   \* bounds
    MaxMoves,
    MaxTime

VARIABLES
    family,
    mode,       \* "real", "demo", or "persona": demo mode with a persona chosen
    paired,     \* the accounts of the family, in the order of the file
    calls,      \* the calls of send_transaction
    level,      \* that number, see each tool
    recent,     \* what it was before it last moved in this tick
    nonces,     \* transactions of each account so far, where the chain counts them
    moves,      \* of the chain and of the accounts so far
    taken,      \* of each handle, the submissions that a node took
    landed,     \* of each handle, what the chain executed: see Landing
    shown       \* of each handle, that number when it was last previewed: history

chainVars == <<level, recent, nonces, moves, taken, landed>>
vars == <<family, mode, paired, calls, chainVars, shown, storeVars>>

Owners == Accounts \cup {Persona, Stranger}

ASSUME DeviceAssumption ==
    /\ Families \subseteq {"solana", "tron", "bittensor"}
    /\ Levels \in [Families -> SUBSET Nat] /\ MaxNonce \in Nat /\ MaxMoves \in Nat /\ MaxTime \in Nat
    /\ Tokens # {} /\ Handles # {} /\ DOMAIN Requests = Families
    /\ \A f \in Families : \A tool \in DOMAIN Requests[f] : \A r \in Requests[f][tool] : r.tool = tool

\* A transaction, as far as it matters: whose it is and what it names; the block it
\* refers to and the last tick it is valid in; the number of the account; what the tool
\* had read, the worst it accepts of what it depends on, and until when.
NoTx == [tool |-> None, from |-> None, to |-> None, amount |-> 0, ref |-> 0, until |-> MaxTime,
         nonce |-> 0, seen |-> 0, bound |-> 0, deadline |-> MaxTime, asked |-> None]

\* One execution of it: who signed, which block it referred to, the number on chain at
\* the time, and whether it took effect or was reverted.
Landing == [by : Owners, ref : Nat, level : Nat, done : BOOLEAN]

Idle == [pc |-> "idle", handle |-> None, by |-> None]

Init ==
    /\ StoreInit
    /\ family \in Families
    /\ mode \in {"real", "demo"}
    /\ paired \in {<<>>} \cup {<<x>> : x \in Accounts} \cup {<<x, y>> : x, y \in Accounts}
    /\ \A i, j \in DOMAIN paired : i # j => paired[i] # paired[j]
    /\ calls = [c \in Calls |-> Idle]
    /\ level \in Levels[family] /\ recent = level
    /\ nonces = [a \in Owners |-> 0]
    /\ moves = 0
    /\ taken = [h \in Handles |-> {}]
    /\ landed = [h \in Handles |-> <<>>]
    /\ shown = [h \in Handles |-> None]

-----------------------------------------------------------------------------
(* Prepare                                                                  *)

\* An address that the library of the chain can read.
IsAddress(a) == a # Bad

\* A decimal string is given in tenths: 15 is "1.5".  More digits than the unit has
\* are refused.
Units(tenths, decimals) ==
    IF tenths = Bad THEN Bad
    ELSE IF decimals > 0 THEN tenths * 10 ^ (decimals - 1)
    ELSE IF tenths % 10 = 0 THEN tenths \div 10
    ELSE Bad

Parses(tenths, decimals) == Units(tenths, decimals) # Bad

\* The persona in demo mode, else the first account of the list.
HasSender == IF mode = "real" THEN paired # <<>> ELSE mode = "persona"
Sender == IF mode = "real" THEN Head(paired) ELSE Persona

\* A read is answered by a node that may lag, or by a cache of half a minute.
Read == {level, recent}

\* What a tool may be called with, as long as there is a handle left.
Asked(tool) ==
    IF (\E h \in Handles : issued[h] = None) /\ tool \in DOMAIN Requests[family] THEN Requests[family][tool] ELSE {}

\* The fields of both, those of the first where both have one.
Joined(fields, others) ==
    [f \in DOMAIN fields \cup DOMAIN others |-> IF f \in DOMAIN fields THEN fields[f] ELSE others[f]]

\* What the tool has built: the fields it sets and those that all share.
Built(r, fields) ==
    LET shared == Joined([tool |-> r.tool, asked |-> r, from |-> Sender, ref |-> now], NoTx)
    IN [f \in DOMAIN NoTx |-> IF f \in DOMAIN fields THEN fields[f] ELSE shared[f]]

\* None stands for a handle that was never made, and is no transaction.
Makes(r, fields) ==
    /\ HasSender
    /\ Built(r, fields) # None
    /\ \E h \in Handles : CreateHandle(h, Built(r, fields))
    /\ UNCHANGED <<family, mode, paired, calls, chainVars, shown, now>>

-----------------------------------------------------------------------------
(* Preview and send                                                         *)

Previewable(h) == family \in Families /\ Lookup(h) = "ok" /\ ~Terminal(h)

Previewed(h) ==
    /\ \E t \in Tokens : TransitionToPreviewed(h, [token |-> t, nonce |-> 0])
    /\ shown' = [shown EXCEPT ![h] = level]
    /\ UNCHANGED <<family, mode, paired, calls, chainVars, issued, now>>

Cancel ==
    /\ \E h \in Handles : Held(h) /\ TransitionToCancelled(h)
    /\ UNCHANGED <<family, mode, paired, calls, chainVars, shown, issued, now>>

\* The call is past the checks of send_transaction; in demo mode it simulates and ends.
MaySend(c, h) ==
    /\ calls[c].pc = "idle"
    /\ Lookup(h) = "ok" /\ store[h].status = "previewed"
    /\ mode = "real" /\ paired # <<>>

\* The Ledger that is plugged in signs with its key of the path of the first account:
\* of that account, of one paired from another Ledger, or of none.
Signed(c, h) ==
    /\ \E key \in Accounts \cup {Stranger} :
         calls' = [calls EXCEPT ![c] = [pc |-> "signed", handle |-> h, by |-> key]]
    /\ UNCHANGED <<family, mode, paired, chainVars, shown, storeVars>>

\* A node takes what the account that is named signed, while it is valid and, for
\* Bittensor, unless its number was used.
NodeWouldTake(by, tx) ==
    /\ by = tx.from
    /\ now <= tx.until
    /\ family = "bittensor" => tx.nonce >= nonces[tx.from]

\* Submits what the call has signed: the node takes it, or refuses it for whatever reason.
\* valid: what else the node looks at.
Submits(c, tx, valid) ==
    LET h == calls[c].handle
    IN  /\ calls[c].pc = "signed"
        /\ \/ /\ valid /\ NodeWouldTake(calls[c].by, tx)
              /\ taken' = [taken EXCEPT ![h] = @ \cup {[by |-> calls[c].by, tx |-> tx]}]
              /\ calls' = [calls EXCEPT ![c].pc = "taken", ![c].by = None]
           \/ /\ calls' = [calls EXCEPT ![c].pc = "refused", ![c].by = None]
              /\ UNCHANGED taken
        /\ UNCHANGED <<family, mode, paired, level, recent, nonces, moves, landed, shown, storeVars>>

\* The chain executes a transaction while it is valid, and not twice: for Bittensor its
\* number is the account's next, for the others no transaction of the same bytes was
\* executed.
Executes(h, tx) ==
    /\ now <= tx.until
    /\ IF family = "bittensor" THEN tx.nonce = nonces[tx.from]
       ELSE \A i \in DOMAIN landed[h] : landed[h][i].ref # tx.ref

\* One that a node took is executed, now or later.  valid: whether the chain includes it at
\* all; effect: whether it does not revert.
Lands(h, s, valid, effect) ==
    /\ Executes(h, s.tx) /\ valid
    /\ landed' = [landed EXCEPT ![h] =
                    Append(@, [by |-> s.by, ref |-> s.tx.ref, level |-> level, done |-> effect])]
    /\ nonces' = [nonces EXCEPT ![s.tx.from] = IF family = "bittensor" THEN @ + 1 ELSE @]
    /\ UNCHANGED <<family, mode, paired, calls, level, recent, moves, taken, shown, storeVars>>

\* The answer arrives and reads as a success or not, or it is lost: an error.
Answered(c, success) ==
    /\ calls[c].pc \in {"taken", "refused"}
    /\ calls' = [calls EXCEPT ![c] = Idle]
    /\ \/ success /\ TransitionToSent(calls[c].handle)
       \/ UNCHANGED store
    /\ UNCHANGED <<family, mode, paired, chainVars, shown, issued, now>>

-----------------------------------------------------------------------------
(* Accounts, the chain and time                                             *)

Moves == moves < MaxMoves /\ moves' = moves + 1

\* pair_*_ledger: an account that is paired again moves to the end of the list.
Pair ==
    /\ mode = "real" /\ Moves
    /\ \E a \in Accounts : paired' = Append(SelectSeq(paired, LAMBDA b : b # a), a)
    /\ UNCHANGED <<family, mode, calls, level, recent, nonces, taken, landed, shown, storeVars>>

\* remove_paired_non_evm_account does not know Bittensor.
Unpair ==
    /\ family # "bittensor" /\ Moves
    /\ \E a \in Accounts :
         /\ \E i \in DOMAIN paired : paired[i] = a
         /\ paired' = SelectSeq(paired, LAMBDA b : b # a)
    /\ UNCHANGED <<family, mode, calls, level, recent, nonces, taken, landed, shown, storeVars>>

SetDemoWallet == mode = "demo" /\ mode' = "persona" /\ UNCHANGED <<family, paired, calls, chainVars, shown, storeVars>>

\* The accounts are used elsewhere, and the chain moves.
OthersSend ==
    /\ family = "bittensor" /\ Moves
    /\ \E a \in Accounts : nonces[a] < MaxNonce /\ nonces' = [nonces EXCEPT ![a] = @ + 1]
    /\ UNCHANGED <<family, mode, paired, calls, level, recent, taken, landed, shown, storeVars>>

LevelMoves ==
    /\ Moves
    /\ \E l \in Levels[family] \ {level} : level' = l
    /\ recent' = level
    /\ UNCHANGED <<family, mode, paired, calls, nonces, taken, landed, shown, storeVars>>

Tick ==
    /\ now < MaxTime
    /\ now' = now + 1
    /\ recent' = level
    /\ UNCHANGED <<family, mode, paired, calls, level, nonces, moves, taken, landed, shown, store, issued>>

Common == Cancel \/ Unpair \/ SetDemoWallet \/ OthersSend \/ LevelMoves \/ Tick

-----------------------------------------------------------------------------
(* Properties                                                               *)

\* Types of the state.
DeviceTypeOK ==
    /\ family \in Families /\ mode \in {"real", "demo", "persona"}
    /\ paired \in Seq(Accounts)
    /\ \A c \in Calls : calls[c].pc \in {"idle", "signed", "taken", "refused"}
    /\ level \in Levels[family] /\ nonces \in [Owners -> Nat]
    /\ \A h \in Handles : landed[h] \in Seq(Landing) /\ \A s \in taken[h] : s.by \in Owners
    /\ \A h \in Handles : store[h] \in HandleRecord \cup {None}

\* A handle is executed at most once, however often it is sent: twice at a time, or
\* again after an answer that was lost (send_transaction keeps the handle previewed on
\* BROADCAST_FAILED and may be called again).
PaysOnce == \A h \in Handles : Len(landed[h]) <= 1

\* A handle is sent only if a node took its transaction, as it was prepared and signed by
\* its account: TRON's nodes refuse with a flag in an answer that throws nothing, and of two
\* calls under way one may have been refused.  That the chain executes it is not said: none
\* of the three waits for a block.
SentMeansTaken ==
    \A h \in Handles :
        Held(h) /\ store[h].status = "sent" => [by |-> issued[h].from, tx |-> issued[h]] \in taken[h]

\* What is executed spends from the account that the preview showed, whatever accounts
\* were paired, paired again or removed since, and whichever Ledger signed.
LandsFromShown ==
    \A h \in Handles : \A i \in DOMAIN landed[h] : landed[h][i].by = issued[h].from
=============================================================================
