--------------------------- MODULE HandleContract ---------------------------
(***************************************************************************)
(* What the trust pipeline promises about one handle, whatever the calls,   *)
(* the wallet, the network and the process do meanwhile:                    *)
(*   - it is prepared once and, sent or cancelled or forgotten, never comes *)
(*     back to life;                                                        *)
(*   - nothing of it reaches the network before it was previewed;           *)
(*   - it is called sent only when something of it did.                     *)
(* It does not promise that a cancelled or forgotten handle stays off the   *)
(* network: a request already at the wallet can still be confirmed.         *)
(***************************************************************************)
CONSTANT Handles

VARIABLES
    st,     \* life of each handle
    shown,  \* handles ever previewed
    out     \* handles of which the network received something

hcVars == <<st, shown, out>>

HCTypeOK ==
    /\ st \in [Handles -> {"absent", "prepared", "previewed", "sent", "cancelled", "gone"}]
    /\ shown \subseteq Handles
    /\ out \subseteq Handles

HCInit ==
    /\ st = [h \in Handles |-> "absent"]
    /\ shown = {}
    /\ out = {}

HCPrepare(h) ==
    /\ st[h] = "absent"
    /\ st' = [st EXCEPT ![h] = "prepared"]
    /\ UNCHANGED <<shown, out>>

HCPreview(h) ==
    /\ st[h] \in {"prepared", "previewed"}
    /\ st' = [st EXCEPT ![h] = "previewed"]
    /\ shown' = shown \cup {h}
    /\ UNCHANGED out

HCPublish(h) ==
    /\ h \in shown
    /\ out' = out \cup {h}
    /\ UNCHANGED <<st, shown>>

HCSend(h) ==
    /\ st[h] = "previewed"
    /\ h \in out
    /\ st' = [st EXCEPT ![h] = "sent"]
    /\ UNCHANGED <<shown, out>>

HCCancel(h) ==
    /\ st[h] = "previewed"
    /\ st' = [st EXCEPT ![h] = "cancelled"]
    /\ UNCHANGED <<shown, out>>

HCForget(gone) ==
    /\ st' = [h \in Handles |-> IF h \in gone /\ st[h] # "absent" THEN "gone" ELSE st[h]]
    /\ UNCHANGED <<shown, out>>

HCNext ==
    \/ \E h \in Handles : HCPrepare(h) \/ HCPreview(h) \/ HCPublish(h)
                          \/ HCSend(h) \/ HCCancel(h)
    \/ \E gone \in SUBSET Handles : HCForget(gone)

HCSpec == HCInit /\ [][HCNext]_hcVars
=============================================================================
