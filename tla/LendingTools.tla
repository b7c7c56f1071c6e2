---------------------------- MODULE LendingTools ----------------------------
(***************************************************************************)
(* The lending tools together: those that prepare a transaction (Lending),  *)
(* that look for positions, or for allowances, in the event log (LogScans), *)
(* and that show and project the health of an account (PositionSimulation). *)
(* A call of one of them reads the chain and shares no state with another:  *)
(* a behaviour follows one call, while the two other modules are at rest.   *)
(***************************************************************************)
EXTENDS Lending, LogScans, PositionSimulation

\* A module at rest: any request that is never asked, and an empty chain.
Rests ==
    /\ call = [Asking(CHOOSE r \in Requests : TRUE) EXCEPT !.pc = "idle"]
    /\ tx = NoTx
    /\ comet = [a \in Accounts |-> 0]
    /\ market = [assets |-> 0, shares |-> 0, owed |-> 0, owedShares |-> 0]
    /\ position = [a \in Accounts |-> [shares |-> 0, owedShares |-> 0, collateral |-> 0]]
    /\ allowance = [a \in Accounts |-> 0]
    /\ moved = {} /\ spent = {} /\ others = 0

ScanRests ==
    /\ scan = [ScanAsked(CHOOSE r \in ScanRequests : TRUE, 0) EXCEPT !.pc = "idle"]
    /\ log = [b \in 0..MaxBlock |-> {}]
    /\ head = 0 /\ used = 0 /\ stale = {}
    /\ held = [i \in Items |-> 0]

SimRests ==
    /\ sim = [SimAsked(CHOOSE r \in SimRequests : TRUE) EXCEPT !.pc = "idle"]
    /\ acct = [supplied |-> [a \in Assets |-> 0], debt |-> [a \in Assets |-> 0], enabled |-> {},
               emode |-> FALSE]
    /\ price = [a \in Assets |-> CHOOSE p \in Prices : TRUE]
    /\ simMoves = 0

LendingToolsInit ==
    \/ Init /\ ScanRests /\ SimRests
    \/ Rests /\ ScanInit /\ SimRests
    \/ Rests /\ ScanRests /\ SimInit

LendingToolsNext ==
    \/ call.pc # "idle" /\ Next /\ UNCHANGED <<scanVars, simVars>>
    \/ scan.pc # "idle" /\ ScanNext /\ UNCHANGED <<vars, simVars>>
    \/ sim.pc # "idle" /\ SimNext /\ UNCHANGED <<vars, scanVars>>

LendingToolsSpec == LendingToolsInit /\ [][LendingToolsNext]_<<vars, scanVars, simVars>>
=============================================================================
