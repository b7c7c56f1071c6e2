----------------------------- MODULE HandleStore -----------------------------
(***************************************************************************)
(* The in-memory handle store of signing/handle-store.ts: a map from an     *)
(* opaque handle to the record of one prepared transaction, with a time to  *)
(* live checked lazily by every lookup and three status transitions.        *)
(*                                                                         *)
(* A handle is a UUID and its transaction is never reassigned, so `issued`  *)
(* remembers what was prepared under every handle ever minted: none is      *)
(* minted twice, not even after a restart of the process empties the map.   *)
(***************************************************************************)
EXTENDS Naturals

CONSTANTS
    Handles,    \* handle UUIDs
    Tokens,     \* preview token UUIDs
    Shapes,     \* what a prepared transaction may be
    TTL,        \* HANDLE_TTL_MS, in ticks of the clock
    None        \* an undefined field, a key the map does not hold

VARIABLES
    store,      \* the map: Handles -> HandleRecord or None
    issued,     \* what was prepared under each handle: Handles -> Shapes or None
    now         \* Date.now()

storeVars == <<store, issued, now>>

PreviewPinned == [token : Tokens, nonce : Nat]

HandleRecord ==
    [status : {"prepared", "previewed", "sent", "cancelled"}, createdAt : Nat,
     pinned : PreviewPinned \cup {None}]

ASSUME TTLAssumption == TTL \in Nat
ASSUME NoneAssumption == /\ None \notin HandleRecord
                         /\ None \notin PreviewPinned
                         /\ None \notin Tokens
                         /\ None \notin Shapes
                         /\ None \notin Handles

Held(h) == store[h] # None

\* `Date.now() > record.createdAt + HANDLE_TTL_MS`: the last tick still counts.
Expired(h) == now > store[h].createdAt + TTL

\* What lookup answers: whether there is a record, or why there is none.
Lookup(h) ==
    IF ~Held(h) THEN "HANDLE_NOT_FOUND"
    ELSE IF Expired(h) THEN "HANDLE_EXPIRED"
    ELSE "ok"

\* Every lookup deletes the record it finds expired.
Looked(h) == [store EXCEPT ![h] = IF Lookup(h) = "HANDLE_EXPIRED" THEN None ELSE @]

Terminal(h) == store[h].status \in {"sent", "cancelled"}

CreateHandle(h, shape) ==
    /\ issued[h] = None
    /\ issued' = [issued EXCEPT ![h] = shape]
    /\ store' = [store EXCEPT ![h] =
                   [status |-> "prepared", createdAt |-> now, pinned |-> None]]

\* Mutant: a preview takes a terminal handle back.
PreviewOutcomeRevives(h) == Lookup(h)

\* The three transitions look the handle up again, so their outcome may differ
\* from that of the lookup the caller made before an await.
PreviewOutcome(h) ==
    IF Lookup(h) # "ok" THEN Lookup(h)
    ELSE IF Terminal(h) THEN "WRONG_STATUS" ELSE "ok"

\* Mutant: the transition trusts the status checked before the await.
SentOutcomeTrusts(h) == Lookup(h)

SentOutcome(h) ==
    IF Lookup(h) # "ok" THEN Lookup(h)
    ELSE IF store[h].status # "previewed" THEN "WRONG_STATUS" ELSE "ok"

CancelOutcome(h) ==
    IF Lookup(h) # "ok" THEN Lookup(h)
    ELSE IF Terminal(h) THEN "WRONG_STATUS" ELSE "ok"

TransitionToPreviewed(h, pin) ==
    store' = IF PreviewOutcome(h) = "ok"
             THEN [store EXCEPT ![h].status = "previewed", ![h].pinned = pin]
             ELSE Looked(h)

TransitionToSent(h) ==
    store' = IF SentOutcome(h) = "ok"
             THEN [store EXCEPT ![h].status = "sent"]
             ELSE Looked(h)

TransitionToCancelled(h) ==
    store' = IF CancelOutcome(h) = "ok"
             THEN [store EXCEPT ![h].status = "cancelled"]
             ELSE Looked(h)

StoreInit ==
    /\ store = [h \in Handles |-> None]
    /\ issued = [h \in Handles |-> None]
    /\ now = 0

\* The process ends: the map is memory only.
StoreLost == store' = [h \in Handles |-> None]
=============================================================================
