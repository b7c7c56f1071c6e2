------------------------------ MODULE LogScans -------------------------------
(***************************************************************************)
(* The tools that find what a wallet holds from the event log:              *)
(* get_token_allowances (items are pairs of a token and a spender, found    *)
(* by their Approval events), get_morpho_positions and the Morpho part of   *)
(* get_lending_positions (items are markets, found by Supply, Borrow and    *)
(* SupplyCollateral events).  A call reads the head, then the log in        *)
(* chunks, then the items it found, each at an await of its own, while new  *)
(* blocks come in.                                                          *)
(*                                                                         *)
(* A behaviour of this module follows one call.                             *)
(***************************************************************************)
EXTENDS Integers, FiniteSets

CONSTANTS
    ScanRequests,   \* the calls that may be made
    Items,
    MaxBlock,       \* bound of the number of the last block
    ChunkBlocks,    \* 10_000 of PublicNode, 100_000 of the Morpho scan
    MaxHeld,        \* bound of an allowance or a position
    MaxSpent        \* bound of the moves that leave no event

ScanMorphoTools == {"get_morpho_positions", "get_lending_positions"}

\* fallback: the chain is read from the public node, which limits a request.
ScanRequest == [tool : ScanMorphoTools \cup {"get_token_allowances"}, lookback : Nat, fallback : BOOLEAN]

ASSUME ScanAssumption ==
    /\ ScanRequests \subseteq ScanRequest
    /\ MaxBlock \in Nat /\ MaxHeld \in Nat /\ MaxSpent \in Nat
    /\ ChunkBlocks \in Nat \ {0}

VARIABLES
    scan,   \* the call
    log,    \* the log: block -> items with an event in it
    head,   \* the last block
    held,   \* what the wallet holds: item -> allowance, or size of the position
    stale,  \* items that changed since the call read them
    used    \* moves without an event so far

scanVars == <<scan, log, head, held, stale, used>>

\* asked: the head when the call came in.  failed: items whose read failed.
Scan == [req : ScanRequest, asked : Nat,
         pc : {"idle", "asked", "scanning", "reading", "error", "answered"},
         from : Nat, to : Nat, cursor : Nat, found : SUBSET Items,
         rows : [Items -> 0..MaxHeld], failed : SUBSET Items,
         scanFailed : BOOLEAN, rpcDegraded : BOOLEAN]

ScanAsks(tools) == scan.req.tool \in tools

ScanAsked(r, h) ==
    [req |-> r, asked |-> h, pc |-> "asked", from |-> 0, to |-> 0, cursor |-> 0,
     found |-> {}, rows |-> [i \in Items |-> 0], failed |-> {},
     scanFailed |-> FALSE, rpcDegraded |-> FALSE]

-----------------------------------------------------------------------------
(* The call                                                                 *)

\* Both tools' expression, of the same value.
fromBlock(lookback, to) == IF lookback >= to THEN 0 ELSE to - lookback

ReadHead ==
    LET from == fromBlock(scan.req.lookback, head) IN
    /\ scan.pc = "asked"
    /\ scan' = [scan EXCEPT !.pc = "scanning", !.from = from, !.to = head, !.cursor = from]
    /\ UNCHANGED <<log, head, held, stale, used>>

\* The Morpho scan always goes by chunks, the other only on the public node.
Chunked ==
    \/ ScanAsks(ScanMorphoTools)
    \/ scan.req.fallback /\ scan.to - scan.from > ChunkBlocks

ChunkTo ==
    IF ~Chunked \/ scan.cursor + ChunkBlocks - 1 > scan.to
    THEN scan.to ELSE scan.cursor + ChunkBlocks - 1

\* Mutant: the next chunk starts a block late.
ChunkAfterNext == scan.cursor + ChunkBlocks + 1

NextChunk == ChunkTo + 1

\* The three scans of Morpho run side by side, over the same blocks; a log entry makes
\* a candidate of its item, once.
ScanChunk ==
    /\ scan.pc = "scanning"
    /\ scan.cursor <= scan.to
    /\ scan' = [scan EXCEPT !.found = @ \cup UNION {log[b] : b \in scan.cursor..ChunkTo},
                            !.cursor = NextChunk]
    /\ UNCHANGED <<log, head, held, stale, used>>

\* From now on what changes is newer than what was read.
ScanEnds ==
    /\ scan.pc = "scanning"
    /\ scan.cursor > scan.to
    /\ scan' = [scan EXCEPT !.pc = "reading"]
    /\ UNCHANGED <<log, head, held, stale, used>>

\* A request for the head or for logs fails: get_lending_positions answers the rest and
\* says scanFailed, get_morpho_positions answers no positions and rpcDegraded once it
\* has the head.
ScanFails ==
    /\ scan.pc \in {"asked", "scanning"}
    /\ scan' = IF \/ ScanAsks({"get_lending_positions"})
                  \/ ScanAsks({"get_morpho_positions"}) /\ scan.pc = "scanning"
               THEN [scan EXCEPT !.pc = "answered", !.scanFailed = TRUE, !.rpcDegraded = TRUE]
               ELSE [scan EXCEPT !.pc = "error"]
    /\ UNCHANGED <<log, head, held, stale, used>>

\* One multicall, of one block, which answers for each pair that it succeeded or
\* failed; what failed and what is zero is left out alike.
filterActiveAllowances ==
    /\ scan.pc = "reading"
    /\ ScanAsks({"get_token_allowances"})
    /\ \E failed \in SUBSET scan.found :
         scan' = [scan EXCEPT !.pc = "answered", !.failed = failed,
                              !.rpcDegraded = scan.req.fallback,
                              !.rows = [i \in Items |-> IF i \in scan.found \ failed
                                                        THEN held[i] ELSE 0]]
    /\ stale' = {}
    /\ UNCHANGED <<log, head, held, used>>

MulticallFails ==
    /\ scan.pc = "reading"
    /\ ScanAsks({"get_token_allowances"})
    /\ scan' = [scan EXCEPT !.pc = "error"]
    /\ UNCHANGED <<log, head, held, stale, used>>

Unread == scan.found \ ({i \in Items : scan.rows[i] > 0} \cup scan.failed)

\* readOneMarket: requests of one Promise.all for each market.  An empty position is
\* left out: here it is not looked for again.
readOneMarket(i) ==
    /\ scan.pc = "reading"
    /\ ScanAsks(ScanMorphoTools)
    /\ i \in Unread
    /\ \/ /\ scan' = IF held[i] = 0 THEN [scan EXCEPT !.found = @ \ {i}]
                     ELSE [scan EXCEPT !.rows[i] = held[i]]
          /\ stale' = stale \ {i}
       \/ /\ scan' = [scan EXCEPT !.failed = @ \cup {i}]
          /\ UNCHANGED stale
    /\ UNCHANGED <<log, head, held, used>>

AnswerPositions ==
    /\ scan.pc = "reading"
    /\ ScanAsks(ScanMorphoTools)
    /\ Unread = {}
    /\ scan' = [scan EXCEPT !.pc = "answered",
                            !.rpcDegraded = scan.req.fallback \/ scan.failed # {}]
    /\ UNCHANGED <<log, head, held, stale, used>>

-----------------------------------------------------------------------------
(* The chain                                                                *)

Running == scan.pc \in {"asked", "scanning", "reading"}

\* A new block with an event of the item, after which the wallet holds any amount of it.
Event(i) ==
    /\ Running
    /\ head < MaxBlock
    /\ head' = head + 1
    /\ log' = [log EXCEPT ![head + 1] = {i}]
    /\ \E n \in 0..MaxHeld : held' = [held EXCEPT ![i] = n]
    /\ stale' = stale \cup {i}
    /\ UNCHANGED <<scan, used>>

\* A spender uses some of an allowance, or a position shrinks: there is no event that
\* the scan looks for.
Spent(i) ==
    /\ Running
    /\ held[i] > 0
    /\ used < MaxSpent
    /\ used' = used + 1
    /\ held' = [held EXCEPT ![i] = @ - 1]
    /\ stale' = stale \cup {i}
    /\ UNCHANGED <<scan, log, head>>

\* What is held was given in some block.
ScanInit ==
    /\ head \in 0..(MaxBlock - 1)
    /\ log \in [0..MaxBlock -> {{}} \cup {{i} : i \in Items}]
    /\ \A b \in 0..MaxBlock : b > head => log[b] = {}
    /\ held \in [Items -> 0..MaxHeld]
    /\ \A i \in Items : held[i] > 0 => \E b \in 0..head : i \in log[b]
    /\ \E r \in ScanRequests : scan = ScanAsked(r, head)
    /\ stale = {}
    /\ used = 0

ScanNext ==
    \/ ReadHead \/ ScanChunk \/ ScanEnds \/ ScanFails
    \/ filterActiveAllowances \/ MulticallFails
    \/ AnswerPositions
    \/ \E i \in Items : readOneMarket(i) \/ Event(i) \/ Spent(i)

ScanSpec == ScanInit /\ [][ScanNext]_scanVars

-----------------------------------------------------------------------------
(* Properties                                                               *)

ScanTypeOK ==
    /\ scan \in Scan
    /\ log \in [0..MaxBlock -> SUBSET Items]
    /\ head \in 0..MaxBlock
    /\ held \in [Items -> 0..MaxHeld]
    /\ stale \subseteq Items
    /\ used \in Nat

\* The item has an event in the last lookback blocks, and came before the call did.
InWindow(i) == \E b \in 0..scan.asked : b + scan.req.lookback >= scan.to /\ i \in log[b]

\* An answer hides nothing: what the wallet holds and was given within the lookback is
\* listed, with what it was when it was read, however the blocks were cut into chunks
\* and whatever came in meanwhile.  Where a read failed, Morpho's answers say so; an
\* allowance is only left out if its own read failed.
NothingHidden ==
    scan.pc = "answered" /\ ~scan.scanFailed =>
        /\ \A i \in Items \ scan.failed :
              i \notin stale /\ InWindow(i) => scan.rows[i] = held[i]
        /\ ScanAsks(ScanMorphoTools) /\ scan.failed # {} => scan.rpcDegraded

\* get_token_allowances.ts:106, "Pass lookbackBlocks: 0 for full-history scan".
ZeroIsFullHistory ==
    ScanAsks({"get_token_allowances"}) /\ scan.pc = "answered" /\ scan.req.lookback = 0 =>
        \A i \in Items \ (scan.failed \cup stale) : scan.rows[i] = held[i]
=============================================================================
