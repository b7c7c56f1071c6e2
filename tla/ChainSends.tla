----------------------------- MODULE ChainSends -----------------------------
(***************************************************************************)
(* The three families that are signed over USB and submitted by the server *)
(* itself: a behaviour is of one of them.                                   *)
(***************************************************************************)
EXTENDS SolanaSends, TronSends, BittensorSends

\* The tools of Solana are not those of the others.
ASSUME ChainAssumption ==
    "solana" \in Families =>
        DOMAIN Requests["solana"] \cap (TronTools \cup BittensorDispatch) = {}

Next == Common \/ SolanaNext \/ TronNext \/ BittensorNext

Spec == Init /\ [][Next]_vars

\* The price a user was shown bounds what he pays: a swap on SunSwap and a limited call of
\* Bittensor take effect within the slippage or the tolerance of the price they were
\* prepared at, or not at all.
LimitsHold == SwapsDeliver /\ StakeLimitsHold
=============================================================================
