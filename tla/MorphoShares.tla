---------------------------- MODULE MorphoShares ----------------------------
(***************************************************************************)
(* signing/morpho-shares-math.ts: how many assets a number of shares of a   *)
(* Morpho market is worth, and back.  VirtualShares is 1000000 in the code, *)
(* and the virtual assets are 1.                                            *)
(***************************************************************************)
EXTENDS Integers

CONSTANT VirtualShares

ASSUME SharesAssumption == VirtualShares \in Nat \ {0}

toAssetsDown(shares, totalAssets, totalShares) ==
    (shares * (totalAssets + 1)) \div (totalShares + VirtualShares)

toAssetsUp(shares, totalAssets, totalShares) ==
    (shares * (totalAssets + 1) + totalShares + VirtualShares - 1)
        \div (totalShares + VirtualShares)

toSharesDown(assets, totalAssets, totalShares) ==
    (assets * (totalShares + VirtualShares)) \div (totalAssets + 1)

toSharesUp(assets, totalAssets, totalShares) ==
    (assets * (totalShares + VirtualShares) + totalAssets) \div (totalAssets + 1)
=============================================================================
