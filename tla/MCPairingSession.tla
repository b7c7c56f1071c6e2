-------------------------- MODULE MCPairingSession --------------------------
(* A small instance of PairingSession.                                      *)
EXTENDS PairingSession

CONSTANTS a1, a2

\* A wallet of one account, and one that lists another before it.
MCAccountLists == {<<a1>>, <<a2, a1>>}
=============================================================================
