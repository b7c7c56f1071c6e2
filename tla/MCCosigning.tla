---------------------------- MODULE MCCosigning -----------------------------
(* A small instance of Cosigning and BitcoinPay: a wallet of two of three with *)
(* one Ledger of the user, another of one of two, a transaction of each; two   *)
(* Ledgers with coins of their own, and two payments.                          *)
EXTENDS BitcoinPay, TLC

CONSTANTS a, b, c, t, u

MCPolicies == {[m |-> 2, keys |-> {a, b, c}], [m |-> 1, keys |-> {a, c}]}
MCPolicyOf == [x \in {t, u} |-> IF x = t THEN [m |-> 2, keys |-> {a, b, c}]
                                ELSE [m |-> 1, keys |-> {a, c}]]
Interchangeable == Permutations(Slots) \cup Permutations(Inputs) \cup Permutations(Calls)
                       \cup Permutations(Handles)

MCSaves == [x \in Uses |-> IF x = "alone" THEN 2 ELSE 1]
MCCosigns == [x \in Uses |-> IF x = "cosign" THEN 2 ELSE 0]
MCMaxHandles == [x \in Uses |-> IF x = "pay" THEN 2 ELSE 1]
MCTime == [x \in Uses |-> IF x \in {"alone", "pay"} THEN 1 ELSE 0]
MCShapes == [psbt : Psbt, name : Names, policy : Policies] \cup Payment
MCCoins == {[by |-> a, net |-> "btc"], [by |-> b, net |-> "ltc"]}
MCPairings == {[n \in {"btc", "ltc"} |-> IF n = "btc" THEN a ELSE b]}
=============================================================================
