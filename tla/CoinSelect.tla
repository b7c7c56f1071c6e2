----------------------------- MODULE CoinSelect -----------------------------
(***************************************************************************)
(* Coin selection of the Bitcoin and Litecoin sends, btc-coin-select.ts:    *)
(* branch and bound for an exact match, else largest coins first with       *)
(* change.  Amounts are satoshis, fee rates tenths of a satoshi per vbyte.  *)
(* A coin is a record [id, value, type, from]: output id of transaction     *)
(* from.  Coins are listed in that order.                                   *)
(***************************************************************************)
EXTENDS Integers, FiniteSets, FiniteSetsExt

Types == {"p2wpkh", "p2tr"}

Dust == 330
Tolerance == 500
Overhead == 11

inputVbytes(type) == IF type = "p2wpkh" THEN 68 ELSE 58
outputVbytes(type) == IF type = "p2wpkh" THEN 31 ELSE 43

SumOver(w) == MapThenSumSet(LAMBDA x : w[x], DOMAIN w)

SumOf(coins) == SumOver([c \in coins |-> c.value])

\* outs: the types of the outputs, in order.
Vbytes(coins, outs) ==
    Overhead + SumOver([c \in coins |-> inputVbytes(c.type)])
             + SumOver([i \in DOMAIN outs |-> outputVbytes(outs[i])])

CeilDiv10(n) == (n + 9) \div 10

\* Mutant: the inputs alone are paid for.
FeeOfInputs(coins, outs, rate) == CeilDiv10((Vbytes(coins, <<>>) - Overhead) * rate)

estimateFee(coins, outs, rate) == CeilDiv10(Vbytes(coins, outs) * rate)

\* The order of the sorted array: larger coins first, equal ones as they were listed.
Earlier(c, d) == c.from < d.from \/ (c.from = d.from /\ c.id < d.id)
Larger(c, d) == c.value > d.value \/ (c.value = d.value /\ Earlier(c, d))

\* c and what is sorted before it.
UpTo(c, coins) == {d \in coins : ~Larger(c, d)}

-----------------------------------------------------------------------------
(* bnbSearch takes or leaves the coins in that order, taking first.  It      *)
(* stops at the first match and leaves a branch that has overshot, so that   *)
(* all that was taken before a match falls short.                            *)

Exact(S, target, recType, rate) == target + estimateFee(S, <<recType>>, rate)

Fits(S, target, recType, rate) ==
    LET exact == Exact(S, target, recType, rate) IN SumOf(S) \in exact .. exact + Tolerance

FallsShort(S, target, recType, rate) == SumOf(S) < Exact(S, target, recType, rate)

\* What was taken before S was complete.
Beginnings(S) == {UpTo(c, S) : c \in S} \ {S}

bnbSearch(coins, target, recType, rate) ==
    {S \in SUBSET coins : /\ S # {} /\ Fits(S, target, recType, rate)
                          /\ \A P \in Beginnings(S) : FallsShort(P, target, recType, rate)}

\* S is met before T: it takes the first coin that they do not share.
Before(S, T) == \E c \in S \ T : \A d \in S \cup T : Larger(d, c) => d \in S \cap T

FirstMatch(found) == CHOOSE S \in found : \A T \in found \ {S} : Before(S, T)

\* The search gives up after 10000 steps, which are enough for 12 coins.
MayGiveUp(coins) == Cardinality(coins) > 12

-----------------------------------------------------------------------------

Refused(why) == [ok |-> FALSE, why |-> why, ins |-> {}, change |-> 0, fee |-> 0]
Selected(ins, change, fee) == [ok |-> TRUE, why |-> "", ins |-> ins, change |-> change, fee |-> fee]

\* Change that would be dust goes to the fee.
Split(ins, target, fee) ==
    IF SumOf(ins) - target - fee < Dust
    THEN Selected(ins, 0, SumOf(ins) - target)
    ELSE Selected(ins, SumOf(ins) - target - fee, fee)

\* Coins are taken until they cover the fee, which is estimated for a change output of
\* changeType, whatever it will be.
LargestFirst(coins, target, recType, changeType, rate) ==
    LET fee(c) == estimateFee(UpTo(c, coins), <<recType, changeType>>, rate)
        enough == {c \in coins : SumOf(UpTo(c, coins)) >= target + fee(c)}
        last == CHOOSE c \in enough : \A d \in enough \ {c} : Larger(c, d)
    IN IF enough = {} THEN Refused("insufficient funds")
       ELSE Split(UpTo(last, coins), target, fee(last))

ExactMatch(ins, target) == Selected(ins, 0, SumOf(ins) - target)

\* What it may answer: one thing, unless the search may give up.
selectCoinsBnb(coins, target, rate, highPriority, recType, changeType) ==
    IF rate < 10 THEN {Refused("below the minimum")}
    ELSE IF rate > 10 * highPriority THEN {Refused("exceeds 10x")}
    ELSE IF target < Dust THEN {Refused("dust threshold")}
    ELSE IF coins = {} THEN {Refused("no UTXOs")}
    ELSE LET found == bnbSearch(coins, target, recType, rate) IN
            (IF found = {} THEN {} ELSE {ExactMatch(FirstMatch(found), target)})
            \cup (IF found = {} \/ MayGiveUp(coins)
                  THEN {LargestFirst(coins, target, recType, changeType, rate)} ELSE {})
=============================================================================
