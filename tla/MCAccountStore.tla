--------------------------- MODULE MCAccountStore ---------------------------
(* Small instances of AccountStore.                                         *)
EXTENDS AccountStore, TLC

CONSTANTS k1, k2

\* pair_solana_ledger saves one account, pair_btc_ledger two.
MCBatches == {<<k1>>, <<k1, k2>>}

Symmetric == Permutations(Processes)
=============================================================================
