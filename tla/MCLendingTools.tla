--------------------------- MODULE MCLendingTools ---------------------------
(* A small instance of LendingTools.                                        *)
EXTENDS LendingTools, TLC

CONSTANTS a1, a2

\* Every tool with every kind of argument; account a1 calls, for itself or, on
\* Morpho, for a2.
MCRequests ==
    {r \in Request :
        /\ r.from = a1
        /\ r.tool \in CompoundTools => r.onBehalf = a1
        /\ r.market = "unlisted" \/ r.asset = "stray" => r.onBehalf = a1 /\ r.amount = 1
        /\ r.onBehalf = a2 => r.amount \in {1, Everything}}

\* A lookback that ends within the log, and one that is longer.
MCScanRequests ==
    [tool : ScanMorphoTools, lookback : {2, 9}, fallback : {FALSE}]
        \cup [tool : {"get_token_allowances"}, lookback : {0, 2, 9}, fallback : BOOLEAN]

\* Reading the positions asks for no change; to Aave its assets are alike.
MCSimRequests ==
    {r \in [tool : {"simulate_position_change", "get_lending_positions"}, protocol : Protocols,
            asset : Assets, action : SimActions, amount : 1..2] :
        /\ r.protocol = "aave-v3" => r.amount = 2 /\ r.asset = Base
        /\ r.tool = "get_lending_positions" => r.action = "supply" /\ r.asset = Base /\ r.amount = 2}

ScanSymmetry == Permutations(Items)
=============================================================================
