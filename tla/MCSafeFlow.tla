---------------------------- MODULE MCSafeFlow -----------------------------
(* A small instance of SafeFlow: one paired account and one that is not, both  *)
(* owners; then the other owner is replaced and one signature is enough.  The  *)
(* paired account has another Safe to itself.                                  *)
EXTENDS SafeFlow, TLC

CONSTANTS a, b, o, mine, shared, mixed

MCConfigs == [s \in Safes |->
    IF s = mine THEN <<[owners |-> {a}, threshold |-> 1]>>
    ELSE <<[owners |-> {a, o}, threshold |-> 2], [owners |-> {a, b}, threshold |-> 1]>>]

MCConfirmations == [by : {a, o}, mode : {"ecdsa"}] \cup [by : {o}, mode : {"other"}]

\* About the shared Safe; a SafeTx of the other Safe may be named for an execution.
MCAsked ==
    {r \in Requests :
       /\ r.tool # "get" => r.safe = shared
       /\ r.tool # "propose" => r.tx.safe = shared \/ r.tool = "execute"
       /\ r.tool = "get" => r.as = mixed
       /\ r.tool \in {"approve", "execute"} => r.as = Lower
       /\ r.tool = "submit" => Submittable(r.sig)}

Interchangeable == Permutations(Calls)

MCShapes == Prepared
=============================================================================
