--------------------------- MODULE MCSendPipeline ---------------------------
(* Small instances of SendPipeline.                                         *)
EXTENDS SendPipeline, TLC

\* One shape per way through the guards.
MCShapes == {[kind |-> "evm", target |-> "listed", ack |-> FALSE, from |-> None],
             [kind |-> "evm", target |-> "unlisted", ack |-> FALSE, from |-> None],
             [kind |-> "device", target |-> "native", ack |-> FALSE, from |-> None],
             [kind |-> "safe", target |-> "native", ack |-> FALSE, from |-> None]}

\* The same, and a transfer from an account the caller named.
MCNamedShapes ==
    MCShapes \cup [kind : {"evm"}, target : {"native"}, ack : {FALSE}, from : Accounts]

\* Calls, tokens and accounts are interchangeable.
Symmetric == Permutations(Calls) \cup Permutations(Tokens) \cup Permutations(Accounts)
=============================================================================
