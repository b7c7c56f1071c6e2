------------------------ MODULE PositionSimulation --------------------------
(***************************************************************************)
(* simulate_position_change on Aave V3 and Compound V3, and the health that *)
(* get_lending_positions shows there.  A call reads an account and prices   *)
(* in batches of requests, works out where the account stands, and where    *)
(* the change would take it; then the user makes the change.  Prices and    *)
(* the account move at any time.                                            *)
(*                                                                         *)
(* A behaviour follows one call.  Values are exact here, where the code     *)
(* floors them to 1e-8 of a dollar, and interest does not accrue.           *)
(***************************************************************************)
EXTENDS Integers, FiniteSets, FiniteSetsExt, Sequences

CONSTANTS
    SimRequests,        \* the calls that may be made
    Assets,             \* reserves of Aave's pool, or what the Comet takes
    Base,               \* the Comet's base asset
    Prices,
    MaxOf,              \* bound of a position in one asset, at first
    Factor,             \* percent of its value that backs debt: the reserve's liquidation
                        \* threshold, the Comet's borrowCollateralFactor
    EModeFactor,        \* threshold of Aave's eMode category, which covers every asset here
    LiquidateFactor,    \* percent below which the Comet liquidates
    MaxSimMoves         \* bound of the moves of prices, and of the account by others

Protocols == {"aave-v3", "compound-v3"}
SimActions == {"supply", "withdraw", "borrow", "repay"}
SimRequest == [tool : {"simulate_position_change", "get_lending_positions"},
               protocol : Protocols, asset : Assets, action : SimActions, amount : Nat]

ASSUME SimAssumption ==
    /\ SimRequests \subseteq SimRequest
    /\ IsFiniteSet(Assets) /\ Base \in Assets
    /\ Prices \subseteq Nat \ {0} /\ MaxOf \in Nat /\ MaxSimMoves \in Nat
    /\ Factor \in 0..100
    /\ EModeFactor \in Factor..100
    /\ LiquidateFactor \in Factor..100

VARIABLES
    sim,        \* the call, and then the change
    acct,       \* the account: what it supplied and owes, the supplies that are collateral,
                \* and whether it entered the eMode category
    price,      \* prices, on the chain
    simMoves    \* moves so far

simVars == <<sim, acct, price, simMoves>>

Fields == {"supplied", "debt", "price"}
View == [Fields -> [Assets -> Nat]]
Health == [backing : Nat, debt : Nat]
NoHealth == [backing |-> 0, debt |-> 0]

\* reads: the batches still to be read, each a set of requests, each of which reads
\* some fields of some assets.  blind: the base's decimals could not be read.  still:
\* when the change was made, everything was as it had been read.
Sim == [req : SimRequest,
        pc : {"idle", "reading", "error", "refused", "answered", "reverted", "done"},
        reads : Seq(SUBSET SUBSET (Fields \X Assets)), seen : View, blind : BOOLEAN,
        before : Health, after : Health, still : BOOLEAN]

-----------------------------------------------------------------------------
(* The call                                                                 *)

Others == Assets \ {Base}

\* The requests of one Promise.all, of which each is of a block of its own.
Batches(protocol) ==
    IF protocol = "aave-v3"
    THEN <<{{"price"} \X Assets, {"supplied", "debt"} \X Assets}>>
    ELSE <<{{<<"supplied", Base>>}, {<<"debt", Base>>}},
           {{<<"price", Base>>}},
           {{<<f, a>>} : f \in {"supplied", "price"}, a \in Others}>>

Now == [f \in Fields |-> IF f = "price" THEN price ELSE acct[f]]

ReadPart ==
    /\ sim.pc = "reading"
    /\ sim.reads # <<>>
    /\ \E part \in Head(sim.reads) :
         sim' = [sim EXCEPT
            !.seen = [f \in Fields |-> [a \in Assets |-> IF <<f, a>> \in part
                                                         THEN Now[f][a] ELSE @[f][a]]],
            !.reads = IF Head(@) = {part} THEN Tail(@) ELSE <<Head(@) \ {part}>> \o Tail(@)]
    /\ UNCHANGED <<acct, price, simMoves>>

ReadPartFails ==
    /\ sim.pc = "reading"
    /\ sim.reads # <<>>
    /\ sim' = [sim EXCEPT !.pc = "error"]
    /\ UNCHANGED <<acct, price, simMoves>>

Total(of, prices, over) == MapThenSumSet(LAMBDA a : of[a] * prices[a], over)

computeHealthFactor(v) ==
    [backing |-> Factor * Total(v.supplied, v.price, Assets),
     debt |-> 100 * Total(v.debt, v.price, Assets)]

computeCompoundCollateralization(v) ==
    [backing |-> Factor * Total(v.supplied, v.price, Others),
     debt |-> 100 * Total(v.debt, v.price, {Base})]

HealthOf(protocol, v) ==
    IF protocol = "aave-v3" THEN computeHealthFactor(v) ELSE computeCompoundCollateralization(v)

Less(n, m) == IF n > m THEN n - m ELSE 0

projectAave(v, r) ==
    CASE r.action = "supply"   -> [v EXCEPT !.supplied[r.asset] = @ + r.amount]
      [] r.action = "withdraw" -> [v EXCEPT !.supplied[r.asset] = Less(@, r.amount)]
      [] r.action = "borrow"   -> [v EXCEPT !.debt[r.asset] = @ + r.amount]
      [] r.action = "repay"    -> [v EXCEPT !.debt[r.asset] = Less(@, r.amount)]

\* Mutant: what is withdrawn beyond the supply is not owed.
WithdrawOwesNothing(v, r) ==
    CASE r.action = "supply" /\ r.asset = Base   -> [v EXCEPT !.debt[Base] = Less(@, r.amount)]
      [] r.action = "supply" /\ r.asset # Base   -> [v EXCEPT !.supplied[r.asset] = @ + r.amount]
      [] r.action = "withdraw" /\ r.asset = Base -> v
      [] r.action = "withdraw" /\ r.asset # Base -> [v EXCEPT !.supplied[r.asset] = Less(@, r.amount)]
      [] r.action = "borrow"                     -> [v EXCEPT !.debt[Base] = @ + r.amount]
      [] r.action = "repay"                      -> [v EXCEPT !.debt[Base] = Less(@, r.amount)]

projectComet(v, r) ==
    CASE r.action = "supply" /\ r.asset = Base   -> [v EXCEPT !.debt[Base] = Less(@, r.amount)]
      [] r.action = "supply" /\ r.asset # Base   -> [v EXCEPT !.supplied[r.asset] = @ + r.amount]
      [] r.action = "withdraw" /\ r.asset = Base ->
            [v EXCEPT !.debt[Base] = @ + Less(r.amount, v.supplied[Base])]
      [] r.action = "withdraw" /\ r.asset # Base -> [v EXCEPT !.supplied[r.asset] = Less(@, r.amount)]
      [] r.action = "borrow"                     -> [v EXCEPT !.debt[Base] = @ + r.amount]
      [] r.action = "repay"                      -> [v EXCEPT !.debt[Base] = Less(@, r.amount)]

Projected(v, r) == IF r.protocol = "aave-v3" THEN projectAave(v, r) ELSE projectComet(v, r)

\* A row of which the account has nothing was dropped, and only the base is borrowed.
CometRefuses(v, r) ==
    /\ r.protocol = "compound-v3"
    /\ r.asset # Base
    /\ v.supplied[r.asset] = 0 \/ r.action \in {"borrow", "repay"}

\* With 18 decimals for a base of 6, what the account has of it counts for nothing.
Blinded(v) == [v EXCEPT !.supplied[Base] = 0, !.debt[Base] = 0]

\* The last read is of the base's decimals: one that fails is taken for 18.
Answer ==
    /\ sim.pc = "reading"
    /\ sim.reads = <<>>
    /\ \E blind \in IF sim.req.protocol = "aave-v3" THEN {FALSE} ELSE BOOLEAN :
         LET v == IF blind THEN Blinded(sim.seen) ELSE sim.seen
             simulates == sim.req.tool = "simulate_position_change"
         IN sim' = IF simulates /\ CometRefuses(v, sim.req)
                   THEN [sim EXCEPT !.pc = "refused"]
                   ELSE [sim EXCEPT
                           !.pc = "answered", !.blind = blind,
                           !.before = HealthOf(sim.req.protocol, v),
                           !.after = IF simulates
                                     THEN HealthOf(sim.req.protocol, Projected(v, sim.req)) ELSE @]
    /\ UNCHANGED <<acct, price, simMoves>>

classifyLiquidationRisk(h) ==
    CASE h.debt = 0                                        -> "noDebt"
      [] h.debt > 0 /\ 2 * h.backing >= 3 * h.debt         -> "safe"
      [] /\ h.debt > 0
         /\ 2 * h.backing < 3 * h.debt
         /\ 10 * h.backing >= 11 * h.debt                  -> "warning"
      [] h.debt > 0 /\ 10 * h.backing < 11 * h.debt        -> "danger"

warning(s) ==
    LET before == classifyLiquidationRisk(s.before)
        after == classifyLiquidationRisk(s.after)
    IN CASE after = "danger" /\ before # "danger" -> "would-liquidate"
         [] after = "warning" /\ before = "safe"  -> "near-liquidation"
         [] OTHER -> "none"

-----------------------------------------------------------------------------
(* The contracts                                                            *)

\* Of an account in eMode the pool takes the category's threshold for the reserves'.
Threshold(a) == IF a.emode THEN EModeFactor ELSE Factor

\* How the account stands: what backs its debt, at a percentage.
Standing(protocol, a, percent) ==
    LET over == IF protocol = "aave-v3" THEN a.enabled ELSE Others
    IN [backing |-> percent * Total(a.supplied, price, over),
        debt |-> 100 * Total(a.debt, price, Assets)]

\* A first supply becomes collateral; more than is owed is not taken.
PoolAfter(r) ==
    LET a == r.asset IN
    CASE r.action = "supply" ->
            [acct EXCEPT !.supplied[a] = @ + r.amount,
                         !.enabled = IF acct.supplied[a] = 0 THEN @ \cup {a} ELSE @]
      [] r.action = "withdraw" -> [acct EXCEPT !.supplied[a] = @ - r.amount]
      [] r.action = "borrow"   -> [acct EXCEPT !.debt[a] = @ + r.amount]
      [] r.action = "repay"    -> [acct EXCEPT !.debt[a] = Less(@, r.amount)]

\* The base is one signed position: a repayment is a supply and a loan a withdrawal.
CometAfter(r) ==
    LET signed == acct.supplied[Base] - acct.debt[Base]
                  + (IF r.action \in {"supply", "repay"} THEN r.amount ELSE -r.amount)
    IN IF r.asset = Base
       THEN [acct EXCEPT !.supplied[Base] = Less(signed, 0), !.debt[Base] = Less(0, signed)]
       ELSE [acct EXCEPT !.supplied[r.asset] =
                @ + (IF r.action = "supply" THEN r.amount ELSE -r.amount)]

AccountAfter(r) == IF r.protocol = "aave-v3" THEN PoolAfter(r) ELSE CometAfter(r)

\* No more is withdrawn than there is, and what takes out leaves the debt backed.
Takes(r) ==
    LET a == AccountAfter(r)
        h == Standing(r.protocol, a, Threshold(a))
    IN /\ \A x \in Assets : a.supplied[x] >= 0
       /\ r.action \in {"withdraw", "borrow"} => h.backing >= h.debt

Change ==
    /\ sim.pc = "answered"
    /\ sim.req.tool = "simulate_position_change"
    /\ \/ /\ Takes(sim.req)
          /\ acct' = AccountAfter(sim.req)
          /\ sim' = [sim EXCEPT !.pc = "done", !.still = (sim.seen = Now)]
       \/ /\ sim' = [sim EXCEPT !.pc = "reverted"]
          /\ UNCHANGED acct
    /\ UNCHANGED <<price, simMoves>>

Moving == sim.pc \in {"reading", "answered"} /\ simMoves < MaxSimMoves /\ simMoves' = simMoves + 1

PriceMoves ==
    /\ Moving
    /\ \E a \in Assets, p \in Prices : p # price[a] /\ price' = [price EXCEPT ![a] = p]
    /\ UNCHANGED <<sim, acct>>

\* The account changes otherwise: any call, of the same kinds, or into eMode or out of it,
\* which the pool refuses if the debt is then not backed.
AccountMoves ==
    /\ Moving
    /\ \/ \E r \in SimRequests :
            /\ r.protocol = sim.req.protocol
            /\ r.protocol = "compound-v3" /\ r.action \in {"borrow", "repay"} => r.asset = Base
            /\ Takes(r)
            /\ acct' = AccountAfter(r)
       \/ /\ sim.req.protocol = "aave-v3"
          /\ acct' = [acct EXCEPT !.emode = ~@]
          /\ LET h == Standing("aave-v3", acct', Threshold(acct')) IN h.backing >= h.debt
    /\ UNCHANGED <<sim, price>>

\* In a Comet the base is supplied or owed, never both, and nothing else is owed.
AccountOk(protocol, a) ==
    /\ a.enabled \subseteq {x \in Assets : a.supplied[x] > 0}
    /\ protocol = "compound-v3" =>
          /\ a.enabled = {} /\ ~a.emode
          /\ a.supplied[Base] = 0 \/ a.debt[Base] = 0
          /\ \A x \in Others : a.debt[x] = 0

SimAsked(r) ==
    [req |-> r, pc |-> "reading", reads |-> Batches(r.protocol),
     seen |-> [f \in Fields |-> [a \in Assets |-> 0]], blind |-> FALSE,
     before |-> NoHealth, after |-> NoHealth, still |-> FALSE]

SimInit ==
    /\ acct \in [supplied : [Assets -> 0..MaxOf], debt : [Assets -> 0..MaxOf],
                 enabled : SUBSET Assets, emode : BOOLEAN]
    /\ price \in [Assets -> Prices]
    /\ simMoves = 0
    /\ \E r \in SimRequests :
         /\ AccountOk(r.protocol, acct)
         /\ sim = SimAsked(r)

SimNext ==
    \/ ReadPart \/ ReadPartFails \/ Answer
    \/ Change
    \/ PriceMoves \/ AccountMoves

SimSpec == SimInit /\ [][SimNext]_simVars

-----------------------------------------------------------------------------
(* Properties                                                               *)

SimTypeOK ==
    /\ sim \in Sim
    /\ acct \in [supplied : [Assets -> Nat], debt : [Assets -> Nat], enabled : SUBSET Assets,
                 emode : BOOLEAN]
    /\ price \in [Assets -> Prices]
    /\ simMoves \in 0..MaxSimMoves

SameHealth(h, g) == h.backing * g.debt = g.backing * h.debt /\ (h.debt = 0 <=> g.debt = 0)
NoHealthier(h, g) == g.debt = 0 \/ (h.debt > 0 /\ h.backing * g.debt <= g.backing * h.debt)

\* Aave counts only the supplies that are enabled as collateral.
Counted == sim.req.protocol = "aave-v3" => acct.enabled = {a \in Assets : acct.supplied[a] > 0}

Liquidatable(protocol) ==
    LET h == Standing(protocol, acct,
                      IF protocol = "aave-v3" THEN Threshold(acct) ELSE LiquidateFactor)
    IN h.debt > 0 /\ h.backing < h.debt

\* The health that is shown is the account's, if nothing moved since it was read; and
\* when the change is then made, the account is where the simulation said, or, after a
\* loan, no worse; so a change that got no warning does not bring a sound account to
\* liquidation.  Of an account in eMode the code takes the reserves' thresholds all the
\* same (aave-health.ts:110-114 says so): what is shown is then not the account's health,
\* but never better than it.  (The base's decimals must have been read, and every supply be
\* collateral.)
ShownIsReached ==
    ~sim.blind /\ Counted =>
        LET stands == Standing(sim.req.protocol, acct, Threshold(acct)) IN
        /\ sim.pc = "answered" /\ sim.seen = Now =>
              /\ NoHealthier(sim.before, stands)
              /\ ~acct.emode => SameHealth(sim.before, stands)
        /\ sim.pc = "done" /\ sim.still =>
              /\ NoHealthier(sim.after, stands)
              /\ sim.req.action # "borrow" /\ ~acct.emode => SameHealth(sim.after, stands)
              /\ warning(sim) = "none" /\ classifyLiquidationRisk(sim.before) # "danger" =>
                    ~Liquidatable(sim.req.protocol)
=============================================================================
