---------------------------- MODULE ChainProofs ----------------------------
(***************************************************************************)
(* Proofs about the handles of Solana, TRON and Bittensor, for any number   *)
(* of them, of calls of send_transaction and of accounts: a handle is       *)
(* executed once, by the account that was shown, is called sent only when   *)
(* a node took it, and is not offered after its transaction has expired.    *)
(*                                                                         *)
(* That nothing is executed twice is not seen from one handle at a time in   *)
(* the present: it needs to know of what was executed that it carried the   *)
(* block or the number that the handle was issued with, which never change. *)
(***************************************************************************)
EXTENDS ChainSends, NumberLemmas, TLAPS

CallRec == [pc : {"idle", "signed", "taken", "refused"}, handle : Handles \cup {None},
            by : Owners \cup {None}]

ChainTypes ==
    /\ family \in Families
    /\ calls \in [Calls -> CallRec]
    /\ nonces \in [Owners -> Nat]
    /\ DOMAIN taken = Handles /\ taken = [h \in Handles |-> taken[h]]
    /\ DOMAIN landed = Handles /\ landed = [h \in Handles |-> landed[h]]
    /\ store \in [Handles -> HandleRecord \cup {None}]
    /\ DOMAIN issued = Handles /\ issued = [h \in Handles |-> issued[h]]
    /\ now \in Nat

\* What a node may have taken of a handle: as it was prepared, signed by its account.
Whole(h) == [by |-> issued[h].from, tx |-> issued[h]]

\* A call that waits has a handle, the key it signed with, and, once a node took its
\* transaction, that submission.
CallOK(c) ==
    calls[c].pc # "idle" =>
       /\ calls[c].handle \in Handles /\ issued[calls[c].handle] # None
       /\ calls[c].pc = "signed" => calls[c].by \in Owners
       /\ calls[c].pc = "taken" => Whole(calls[c].handle) \in taken[calls[c].handle]

\* Nothing else was taken.
TakenOK(h) ==
    \A t \in taken[h] : t = Whole(h) /\ issued[h] # None /\ issued[h].from \in Owners

\* What was executed of a handle is one execution, of the account it names, with what
\* keeps it from being executed again.
Once(h, l) ==
    /\ landed[h] = <<l>>
    /\ issued[h] # None
    /\ l.by = issued[h].from
    /\ IF family = "bittensor"
       THEN /\ issued[h].from \in Owners /\ issued[h].nonce \in Nat
            /\ issued[h].nonce < nonces[issued[h].from]
       ELSE l.ref = issued[h].ref

LandedOK(h) == landed[h] = <<>> \/ \E l : Once(h, l)

HeldOK(h) ==
    Held(h) =>
       /\ issued[h] # None
       /\ store[h].status = "sent" => Whole(h) \in taken[h]
       /\ family = "tron" => issued[h].until \in Nat /\ store[h].createdAt + TTL <= issued[h].until

IInv ==
    /\ ChainTypes
    /\ \A c \in Calls : CallOK(c)
    /\ \A h \in Handles : TakenOK(h) /\ LandedOK(h) /\ HeldOK(h)

-----------------------------------------------------------------------------
(* Steps of the store                                                       *)

\* The records that are left are those there were, and none but that of h gets sent.
StoreStep(sent) ==
    /\ store' \in [Handles -> HandleRecord \cup {None}]
    /\ \A h \in Handles : store'[h] # None =>
          /\ store[h] # None
          /\ store'[h].createdAt = store[h].createdAt
          /\ store'[h].status = "sent" => store[h].status = "sent" \/ h \in sent

\* preview_send, cancellation and an answered submission change nothing but records, and
\* calls that end.
LEMMA PreviewedStores ==
  ASSUME ChainTypes, NEW h \in Handles, NEW pin \in PreviewPinned, TransitionToPreviewed(h, pin)
  PROVE  StoreStep({})
<1>1. CASE PreviewOutcome(h) = "ok"
  <2>1. Held(h) /\ store[h] \in HandleRecord
    BY <1>1 DEF PreviewOutcome, Lookup, Held, ChainTypes
  <2>2. store' = [store EXCEPT ![h].status = "previewed", ![h].pinned = pin]
    BY <1>1 DEF TransitionToPreviewed
  <2>3. store'[h] = [store[h] EXCEPT !.status = "previewed", !.pinned = pin]
        /\ \A g \in Handles \ {h} : store'[g] = store[g]
    BY <2>2 DEF ChainTypes
  <2>4. store'[h] \in HandleRecord /\ store'[h].createdAt = store[h].createdAt
        /\ store'[h].status # "sent"
    BY <2>1, <2>3 DEF HandleRecord
  <2> QED BY <2>1, <2>2, <2>3, <2>4, NoneAssumption DEF StoreStep, ChainTypes, Held
<1>2. CASE PreviewOutcome(h) # "ok"
  BY <1>2 DEF TransitionToPreviewed, Looked, StoreStep, ChainTypes
<1> QED BY <1>1, <1>2

LEMMA CancelledStores ==
  ASSUME ChainTypes, NEW h \in Handles, TransitionToCancelled(h)
  PROVE  StoreStep({})
<1>1. CASE CancelOutcome(h) = "ok"
  <2>1. Held(h) /\ store[h] \in HandleRecord
    BY <1>1 DEF CancelOutcome, Lookup, Held, ChainTypes
  <2>2. store' = [store EXCEPT ![h].status = "cancelled"]
    BY <1>1 DEF TransitionToCancelled
  <2>3. store'[h] = [store[h] EXCEPT !.status = "cancelled"]
        /\ \A g \in Handles \ {h} : store'[g] = store[g]
    BY <2>2 DEF ChainTypes
  <2>4. store'[h] \in HandleRecord /\ store'[h].createdAt = store[h].createdAt
        /\ store'[h].status # "sent"
    BY <2>1, <2>3 DEF HandleRecord
  <2> QED BY <2>1, <2>2, <2>3, <2>4, NoneAssumption DEF StoreStep, ChainTypes, Held
<1>2. CASE CancelOutcome(h) # "ok"
  BY <1>2 DEF TransitionToCancelled, Looked, StoreStep, ChainTypes
<1> QED BY <1>1, <1>2

LEMMA SentStores ==
  ASSUME ChainTypes, NEW h \in Handles, TransitionToSent(h)
  PROVE  StoreStep({h})
<1>1. CASE SentOutcome(h) = "ok"
  <2>1. Held(h) /\ store[h] \in HandleRecord
    BY <1>1 DEF SentOutcome, Lookup, Held, ChainTypes
  <2>2. store' = [store EXCEPT ![h].status = "sent"]
    BY <1>1 DEF TransitionToSent
  <2>3. store'[h] = [store[h] EXCEPT !.status = "sent"]
        /\ \A g \in Handles \ {h} : store'[g] = store[g]
    BY <2>2 DEF ChainTypes
  <2>4. store'[h] \in HandleRecord /\ store'[h].createdAt = store[h].createdAt
    BY <2>1, <2>3 DEF HandleRecord
  <2> QED BY <2>1, <2>2, <2>3, <2>4, NoneAssumption DEF StoreStep, ChainTypes, Held
<1>2. CASE SentOutcome(h) # "ok"
  BY <1>2 DEF TransitionToSent, Looked, StoreStep, ChainTypes
<1> QED BY <1>1, <1>2

\* A step that changes records only, and calls if they stay well formed.
LEMMA RecordStep ==
  ASSUME IInv, NEW sent, StoreStep(sent),
         \A h \in Handles \cap sent : Whole(h) \in taken[h],
         UNCHANGED <<family, nonces, taken, landed, issued, now>>,
         calls' \in [Calls -> CallRec], \A c \in Calls : CallOK(c)'
  PROVE  IInv'
<1>1. ChainTypes'
  BY DEF IInv, ChainTypes, StoreStep
<1>2. ASSUME NEW h \in Handles PROVE TakenOK(h)' /\ LandedOK(h)'
  BY DEF IInv, TakenOK, Whole, LandedOK, Once
<1>3. ASSUME NEW h \in Handles PROVE HeldOK(h)'
  <2> SUFFICES ASSUME store'[h] # None
               PROVE  /\ issued[h] # None
                      /\ store'[h].status = "sent" => Whole(h) \in taken[h]
                      /\ family = "tron" => issued[h].until \in Nat
                                            /\ store'[h].createdAt + TTL <= issued[h].until
    BY DEF HeldOK, Held, Whole
  <2> QED BY <1>3 DEF IInv, HeldOK, Held, StoreStep
<1> QED BY <1>1, <1>2, <1>3 DEF IInv

\* A step of the world: records, handles and what was executed stay, numbers grow.
LEMMA WorldStep ==
  ASSUME IInv, UNCHANGED <<family, calls, taken, landed, store, issued>>,
         now' \in Nat,
         nonces' \in [Owners -> Nat], \A a \in Owners : nonces[a] <= nonces'[a]
  PROVE  IInv'
<1>1. ChainTypes'
  BY DEF IInv, ChainTypes
<1>2. ASSUME NEW c \in Calls PROVE CallOK(c)'
  BY <1>2 DEF IInv, CallOK, Whole
<1>3. ASSUME NEW h \in Handles PROVE TakenOK(h)' /\ HeldOK(h)'
  BY <1>3 DEF IInv, TakenOK, HeldOK, Held, Whole
<1>4. ASSUME NEW h \in Handles PROVE LandedOK(h)'
  <2>1. CASE landed[h] = <<>>
    BY <2>1 DEF LandedOK
  <2>2. ASSUME NEW l, Once(h, l) PROVE Once(h, l)'
    <3>1. CASE family = "bittensor"
      BY <2>2, <3>1 DEF Once, IInv, ChainTypes
    <3>2. CASE family # "bittensor"
      BY <2>2, <3>2 DEF Once
    <3> QED BY <3>1, <3>2
  <2> QED BY <1>4, <2>1, <2>2 DEF IInv, LandedOK
<1> QED BY <1>1, <1>2, <1>3, <1>4 DEF IInv

-----------------------------------------------------------------------------
(* Preparing                                                                *)

\* What TRON's tools build is valid for as long as its handle lives.
Lasts(fields) == family = "tron" => "until" \in DOMAIN fields /\ fields["until"] = now + Extension

LEMMA MakesStep ==
  ASSUME IInv, NEW r, NEW fields, Lasts(fields), Makes(r, fields)
  PROVE  IInv'
<1> DEFINE tx == Built(r, fields)
<1>1. PICK h \in Handles : CreateHandle(h, tx)
  BY DEF Makes
<1>2. tx # None /\ UNCHANGED <<family, calls, nonces, taken, landed, now>>
  BY DEF Makes, chainVars
<1>3. family = "tron" => tx.until = now + Extension
  BY DEF Built, Joined, NoTx, Lasts
<1> HIDE DEF tx
<1>4. /\ issued[h] = None /\ issued'[h] = tx
      /\ store'[h] = [status |-> "prepared", createdAt |-> now, pinned |-> None]
      /\ \A g \in Handles \ {h} : issued'[g] = issued[g] /\ store'[g] = store[g]
  BY <1>1 DEF CreateHandle, IInv, ChainTypes
<1>5. store'[h] \in HandleRecord /\ store'[h].status = "prepared" /\ store'[h].createdAt = now
  BY <1>4 DEF HandleRecord, IInv, ChainTypes
<1>6. landed[h] = <<>> /\ taken[h] = {}
  BY <1>4 DEF IInv, LandedOK, Once, TakenOK
<1>7. ChainTypes'
  BY <1>1, <1>2, <1>5 DEF CreateHandle, IInv, ChainTypes
<1>8. ASSUME NEW c \in Calls PROVE CallOK(c)'
  <2>1. CallOK(c)
    BY DEF IInv
  <2>2. calls[c].pc # "idle" => calls[c].handle # h
    BY <2>1, <1>4 DEF CallOK
  <2> QED BY <2>1, <2>2, <1>2, <1>4 DEF CallOK, Whole
<1>9. ASSUME NEW g \in Handles PROVE TakenOK(g)' /\ LandedOK(g)'
  <2>1. CASE g = h
    BY <2>1, <1>2, <1>6 DEF TakenOK, LandedOK
  <2>2. CASE g # h
    BY <2>2, <1>2, <1>4 DEF IInv, TakenOK, Whole, LandedOK, Once
  <2> QED BY <2>1, <2>2
<1>10. ASSUME NEW g \in Handles PROVE HeldOK(g)'
  <2>1. CASE g = h
    <3>1. family = "tron" => tx.until \in Nat /\ now + TTL <= tx.until
      BY <1>3, TronAssumption, TTLAssumption DEF IInv, ChainTypes
    <3> QED BY <2>1, <3>1, <1>2, <1>4, <1>5 DEF HeldOK
  <2>2. CASE g # h
    BY <2>2, <1>2, <1>4 DEF IInv, HeldOK, Held, Whole
  <2> QED BY <2>1, <2>2
<1> QED BY <1>7, <1>8, <1>9, <1>10 DEF IInv

LEMMA OtherFamilyMakes ==
  ASSUME IInv, family # "tron", NEW r, NEW fields, Makes(r, fields)
  PROVE  IInv'
BY MakesStep DEF Lasts

LEMMA ExtendedLasts ==
  ASSUME NEW fields
  PROVE  Lasts(Extended(fields))
BY DEF Lasts, Extended, Joined

LEMMA TronPrepares ==
  ASSUME IInv,
         \/ PrepareTronNativeSend \/ PrepareTronTrc20Send \/ PrepareTronTokenApprove
         \/ PrepareTronRevokeApproval \/ PrepareTronStakeFreeze \/ PrepareTronStakeUnfreeze
         \/ PrepareTronWithdrawExpireUnfreeze \/ PrepareTronStakeVote
         \/ PrepareTronStakeClaimRewards \/ PrepareSunswapSwap
  PROVE  IInv'
<1>0. ASSUME NEW r, NEW fields, Makes(r, Extended(fields)) PROVE IInv'
  BY <1>0, ExtendedLasts, MakesStep
<1>1. CASE PrepareTronNativeSend
  BY <1>0, <1>1 DEF PrepareTronNativeSend, EncodeTronTransfer
<1>2. CASE PrepareTronTrc20Send
  BY <1>0, <1>2 DEF PrepareTronTrc20Send, EncodeTronTrc20Transfer
<1>3. CASE PrepareTronTokenApprove
  BY <1>0, <1>3 DEF PrepareTronTokenApprove, EncodeTronTrc20Approve
<1>4. CASE PrepareTronRevokeApproval
  BY <1>0, <1>4 DEF PrepareTronRevokeApproval, EncodeTronTrc20Approve
<1>5. CASE PrepareTronStakeFreeze
  BY <1>0, <1>5 DEF PrepareTronStakeFreeze, EncodeFreezeBalanceV2
<1>6. CASE PrepareTronStakeUnfreeze
  BY <1>0, <1>6 DEF PrepareTronStakeUnfreeze, EncodeUnfreezeBalanceV2
<1>7. CASE PrepareTronWithdrawExpireUnfreeze
  BY <1>0, <1>7 DEF PrepareTronWithdrawExpireUnfreeze, EncodeWithdrawExpireUnfreeze
<1>8. CASE PrepareTronStakeVote
  BY <1>0, <1>8 DEF PrepareTronStakeVote, EncodeVoteWitness
<1>9. CASE PrepareTronStakeClaimRewards
  BY <1>0, <1>9 DEF PrepareTronStakeClaimRewards, EncodeWithdrawBalance
<1>10. CASE PrepareSunswapSwap
  BY <1>0, <1>10 DEF PrepareSunswapSwap, EncodeSunswapSwap
<1> QED BY <1>1, <1>2, <1>3, <1>4, <1>5, <1>6, <1>7, <1>8, <1>9, <1>10

\* The tools of the other families are not TRON's.
LEMMA OtherTools ==
  ASSUME IInv, NEW tool, tool \notin TronTools, NEW r \in Asked(tool), NEW fields, Makes(r, fields)
  PROVE  IInv'
<1>1. family # "tron"
  BY TronAssumption DEF Asked, IInv, ChainTypes
<1> QED BY <1>1, OtherFamilyMakes

LEMMA SolanaPrepares ==
  ASSUME IInv,
         \/ PrepareSolanaNativeSend \/ PrepareSolanaSplSend \/ PrepareSolanaNonceInit
         \/ PrepareSolanaNonceClose \/ PrepareSolanaDelegate \/ PrepareSolanaDeactivate
         \/ PrepareSolanaWithdraw \/ PrepareMarginfiAccountInit \/ PrepareMarginfiSupply
         \/ PrepareMarginfiWithdraw \/ PrepareMarginfiBorrow \/ PrepareMarginfiRepay
         \/ PrepareKaminoObligationInit \/ PrepareKaminoSupply \/ PrepareKaminoWithdraw
         \/ PrepareKaminoBorrow \/ PrepareKaminoRepay \/ PrepareJupiterSwap
         \/ PrepareMarinadeStake \/ PrepareMarinadeImmediateUnstake \/ PrepareJitoStakePoolDeposit
  PROVE  IInv'
<1>0. ASSUME NEW tool, tool \notin TronTools, NEW r \in Asked(tool), NEW fields, Makes(r, fields)
      PROVE  IInv'
  BY <1>0, OtherTools
<1>1. CASE PrepareSolanaNativeSend
  BY <1>0, <1>1 DEF PrepareSolanaNativeSend, TronTools
<1>2. CASE PrepareSolanaSplSend
  BY <1>0, <1>2 DEF PrepareSolanaSplSend, TronTools
<1>3. CASE PrepareSolanaNonceInit
  BY <1>0, <1>3 DEF PrepareSolanaNonceInit, TronTools
<1>4. CASE PrepareSolanaNonceClose
  BY <1>0, <1>4 DEF PrepareSolanaNonceClose, TronTools
<1>5. CASE PrepareSolanaDelegate
  BY <1>0, <1>5 DEF PrepareSolanaDelegate, TronTools
<1>6. CASE PrepareSolanaDeactivate
  BY <1>0, <1>6 DEF PrepareSolanaDeactivate, TronTools
<1>7. CASE PrepareSolanaWithdraw
  BY <1>0, <1>7 DEF PrepareSolanaWithdraw, TronTools
<1>8. CASE PrepareMarginfiAccountInit
  BY <1>0, <1>8 DEF PrepareMarginfiAccountInit, TronTools
<1>9. CASE PrepareMarginfiSupply
  BY <1>0, <1>9 DEF PrepareMarginfiSupply, TronTools
<1>10. CASE PrepareMarginfiWithdraw
  BY <1>0, <1>10 DEF PrepareMarginfiWithdraw, TronTools
<1>11. CASE PrepareMarginfiBorrow
  BY <1>0, <1>11 DEF PrepareMarginfiBorrow, TronTools
<1>12. CASE PrepareMarginfiRepay
  BY <1>0, <1>12 DEF PrepareMarginfiRepay, TronTools
<1>13. CASE PrepareKaminoObligationInit
  BY <1>0, <1>13 DEF PrepareKaminoObligationInit, TronTools
<1>14. CASE PrepareKaminoSupply
  BY <1>0, <1>14 DEF PrepareKaminoSupply, TronTools, FinalizeKaminoOp
<1>15. CASE PrepareKaminoWithdraw
  BY <1>0, <1>15 DEF PrepareKaminoWithdraw, TronTools, FinalizeKaminoOp
<1>16. CASE PrepareKaminoBorrow
  BY <1>0, <1>16 DEF PrepareKaminoBorrow, TronTools, FinalizeKaminoOp
<1>17. CASE PrepareKaminoRepay
  BY <1>0, <1>17 DEF PrepareKaminoRepay, TronTools, FinalizeKaminoOp
<1>18. CASE PrepareJupiterSwap
  BY <1>0, <1>18 DEF PrepareJupiterSwap, TronTools
<1>19. CASE PrepareMarinadeStake
  BY <1>0, <1>19 DEF PrepareMarinadeStake, TronTools
<1>20. CASE PrepareMarinadeImmediateUnstake
  BY <1>0, <1>20 DEF PrepareMarinadeImmediateUnstake, TronTools
<1>21. CASE PrepareJitoStakePoolDeposit
  BY <1>0, <1>21 DEF PrepareJitoStakePoolDeposit, TronTools
<1> QED
  BY <1>1, <1>2, <1>3, <1>4, <1>5, <1>6, <1>7, <1>8, <1>9, <1>10, <1>11, <1>12, <1>13, <1>14, <1>15, <1>16, <1>17, <1>18, <1>19, <1>20, <1>21

LEMMA BittensorPrepares ==
  ASSUME IInv,
         \/ PrepareBittensorNativeSend \/ PrepareBittensorAddStake \/ PrepareBittensorAddStakeLimit
         \/ PrepareBittensorRemoveStake \/ PrepareBittensorRemoveStakeLimit \/ PrepareBittensorMoveStake
         \/ PrepareBittensorSwapStake \/ PrepareBittensorTransferStake
  PROVE  IInv'
<1>0. ASSUME NEW tool, tool \notin TronTools, NEW r \in Asked(tool), NEW fields, Makes(r, fields)
      PROVE  IInv'
  BY <1>0, OtherTools
<1>1. CASE PrepareBittensorNativeSend
  BY <1>0, <1>1 DEF PrepareBittensorNativeSend, TronTools
<1>2. CASE PrepareBittensorAddStake
  BY <1>0, <1>2 DEF PrepareBittensorAddStake, TronTools
<1>3. CASE PrepareBittensorAddStakeLimit
  BY <1>0, <1>3 DEF PrepareBittensorAddStakeLimit, TronTools
<1>4. CASE PrepareBittensorRemoveStake
  BY <1>0, <1>4 DEF PrepareBittensorRemoveStake, TronTools
<1>5. CASE PrepareBittensorRemoveStakeLimit
  BY <1>0, <1>5 DEF PrepareBittensorRemoveStakeLimit, TronTools
<1>6. CASE PrepareBittensorMoveStake
  BY <1>0, <1>6 DEF PrepareBittensorMoveStake, TronTools
<1>7. CASE PrepareBittensorSwapStake
  BY <1>0, <1>7 DEF PrepareBittensorSwapStake, TronTools
<1>8. CASE PrepareBittensorTransferStake
  BY <1>0, <1>8 DEF PrepareBittensorTransferStake, TronTools
<1> QED
  BY <1>1, <1>2, <1>3, <1>4, <1>5, <1>6, <1>7, <1>8

-----------------------------------------------------------------------------
(* Previewing and sending                                                   *)

LEMMA SendStep ==
  ASSUME IInv, NEW c \in Calls, NEW h \in Handles, MaySend(c, h), Signed(c, h)
  PROVE  IInv'
<1>1. PICK key \in Accounts \cup {Stranger} :
         calls' = [calls EXCEPT ![c] = [pc |-> "signed", handle |-> h, by |-> key]]
  BY DEF Signed
<1>2. calls' \in [Calls -> CallRec]
  BY <1>1 DEF IInv, ChainTypes, CallRec, Owners
<1>3. UNCHANGED <<family, nonces, taken, landed, store, issued, now>>
  BY DEF Signed, storeVars, chainVars
<1>4. issued[h] # None
  BY DEF MaySend, Lookup, IInv, HeldOK
<1>5. ASSUME NEW d \in Calls PROVE CallOK(d)'
  <2>1. CASE d = c
    BY <2>1, <1>1, <1>3, <1>4 DEF CallOK, IInv, ChainTypes, Owners
  <2>2. CASE d # c
    <3>1. CallOK(d) /\ calls'[d] = calls[d]
      BY <2>2, <1>1 DEF IInv, ChainTypes
    <3> QED BY <3>1, <1>3 DEF CallOK, Whole
  <2> QED BY <2>1, <2>2
<1>6. StoreStep({})
  BY <1>3 DEF StoreStep, IInv, ChainTypes
<1> QED BY <1>2, <1>3, <1>5, <1>6, RecordStep

\* What a call submits is what was issued; a node takes it from its account only.
LEMMA SubmitStep ==
  ASSUME IInv, NEW c \in Calls, NEW valid, Submits(c, issued[calls[c].handle], valid)
  PROVE  IInv'
<1> DEFINE h == calls[c].handle
           tx == issued[h]
<1>1. /\ calls[c].pc = "signed" /\ h \in Handles /\ tx # None /\ calls[c].by \in Owners
      /\ calls[c] \in CallRec
  BY DEF Submits, IInv, CallOK, ChainTypes
<1>2. UNCHANGED <<family, nonces, landed, store, issued, now>>
  BY DEF Submits, storeVars
<1> DEFINE Took == /\ calls[c].by = tx.from
                   /\ taken' = [taken EXCEPT ![h] = @ \cup {[by |-> calls[c].by, tx |-> tx]}]
<1>3. \/ Took /\ calls' = [calls EXCEPT ![c].pc = "taken", ![c].by = None]
      \/ UNCHANGED taken /\ calls' = [calls EXCEPT ![c].pc = "refused", ![c].by = None]
  BY DEF Submits, NodeWouldTake
<1> HIDE DEF Took
<1>4. /\ \/ Took /\ calls'[c].pc = "taken"
         \/ UNCHANGED taken /\ calls'[c].pc = "refused"
      /\ calls'[c].handle = h /\ calls'[c] \in CallRec
      /\ \A d \in Calls \ {c} : calls'[d] = calls[d]
      /\ calls' \in [Calls -> CallRec]
  BY <1>1, <1>3 DEF IInv, ChainTypes, CallRec
<1>5. /\ DOMAIN taken' = Handles /\ taken' = [g \in Handles |-> taken'[g]]
      /\ \A g \in Handles : taken[g] \subseteq taken'[g]
      /\ calls'[c].pc = "taken" => Whole(h) \in taken'[h]
      /\ \A g \in Handles : TakenOK(g)'
  <2>1. CASE UNCHANGED taken /\ calls'[c].pc = "refused"
    BY <2>1, <1>2 DEF IInv, ChainTypes, TakenOK, Whole
  <2>2. CASE Took
    <3>1. [by |-> calls[c].by, tx |-> tx] = Whole(h)
      BY <2>2 DEF Took, Whole
    <3>2. taken'[h] = taken[h] \cup {Whole(h)} /\ \A g \in Handles \ {h} : taken'[g] = taken[g]
      BY <2>2, <3>1, <1>1 DEF Took, IInv, ChainTypes
    <3>3. DOMAIN taken' = Handles /\ taken' = [g \in Handles |-> taken'[g]]
      BY <2>2 DEF Took, IInv, ChainTypes
    <3>4. ASSUME NEW g \in Handles PROVE TakenOK(g)'
      <4>1. Whole(g)' = Whole(g) /\ TakenOK(g)
        BY <1>2 DEF Whole, IInv
      <4>2. CASE g = h
        BY <4>1, <4>2, <3>2, <2>2, <1>1, <1>2 DEF Took, TakenOK
      <4>3. CASE g # h
        BY <4>1, <4>3, <3>2, <1>2 DEF TakenOK
      <4> QED BY <4>2, <4>3
    <3> QED BY <3>2, <3>3, <3>4
  <2> HIDE DEF h, tx
  <2> QED BY <2>1, <2>2, <1>4
<1>6. ChainTypes'
  BY <1>2, <1>4, <1>5 DEF IInv, ChainTypes
<1>7. ASSUME NEW g \in Handles PROVE Whole(g)' = Whole(g)
  BY <1>2 DEF Whole
<1>8. ASSUME NEW d \in Calls PROVE CallOK(d)'
  <2>1. CallOK(d)
    BY DEF IInv
  <2>2. CASE d = c
    BY <2>2, <1>1, <1>2, <1>4, <1>5, <1>7 DEF CallOK
  <2>3. CASE d # c
    BY <2>1, <2>3, <1>2, <1>4, <1>5, <1>7 DEF CallOK
  <2> QED BY <2>2, <2>3
<1>9. ASSUME NEW g \in Handles PROVE LandedOK(g)' /\ HeldOK(g)'
  <2>1. LandedOK(g)'
    BY <1>2 DEF IInv, LandedOK, Once
  <2>2. HeldOK(g)'
    BY <1>2, <1>5, <1>7 DEF IInv, HeldOK, Held
  <2> QED BY <2>1, <2>2
<1> QED BY <1>5, <1>6, <1>8, <1>9 DEF IInv

\* Of a handle nothing is executed after it was: the block it refers to, or its number, is
\* that of the handle.
LEMMA ExecutedOnce ==
  ASSUME IInv, NEW h \in Handles, NEW tx, tx = issued[h], Executes(h, tx),
         NEW l, landed' = [landed EXCEPT ![h] = Append(@, l)]
  PROVE  /\ landed[h] = <<>> /\ landed'[h] = <<l>>
         /\ \A g \in Handles \ {h} : landed'[g] = landed[g]
<1>2. landed[h] = <<>>
  <2> SUFFICES ASSUME NEW k, Once(h, k) PROVE FALSE
    BY DEF IInv, LandedOK
  <2>1. CASE family = "bittensor"
    <3>1. tx.nonce \in Nat /\ tx.nonce < nonces[tx.from]
      BY <2>1 DEF Once
    <3>2. tx.nonce = nonces[tx.from]
      BY <2>1 DEF Executes
    <3> QED BY <3>1, <3>2
  <2>2. CASE family # "bittensor"
    <3>1. landed[h] = <<k>> /\ k.ref = tx.ref
      BY <2>2 DEF Once
    <3>2. 1 \in DOMAIN <<k>> /\ <<k>>[1] = k
      OBVIOUS
    <3>3. \A i \in DOMAIN landed[h] : landed[h][i].ref # tx.ref
      BY <2>2 DEF Executes
    <3> QED BY <3>1, <3>2, <3>3
  <2> QED BY <2>1, <2>2
<1>3. landed'[h] = <<l>> /\ \A g \in Handles \ {h} : landed'[g] = landed[g]
  <2>1. Append(<<>>, l) = <<l>>
    OBVIOUS
  <2> QED BY <2>1, <1>2 DEF IInv, ChainTypes
<1> QED BY <1>2, <1>3

LEMMA LandStep ==
  ASSUME IInv, NEW h \in Handles, NEW t \in taken[h], NEW valid, NEW effect,
         Lands(h, t, valid, effect)
  PROVE  IInv'
<1> DEFINE tx == issued[h]
<1>1. t.tx = tx /\ t.by = tx.from /\ tx.from \in Owners /\ tx # None
  BY DEF IInv, TakenOK, Whole
<1>2. UNCHANGED <<family, calls, taken, store, issued, now>>
  BY DEF Lands, storeVars
<1>3. PICK l : l = [by |-> t.by, ref |-> tx.ref, level |-> level, done |-> effect]
  OBVIOUS
<1>4. landed'[h] = <<l>> /\ \A g \in Handles \ {h} : landed'[g] = landed[g]
  <2>1. landed' = [landed EXCEPT ![h] = Append(@, l)] /\ Executes(h, tx)
    BY <1>1, <1>3 DEF Lands
  <2> QED BY <2>1, ExecutedOnce
<1>5. /\ nonces' \in [Owners -> Nat] /\ \A a \in Owners : nonces[a] <= nonces'[a]
      /\ family = "bittensor" => nonces'[tx.from] = nonces[tx.from] + 1
  <2>1. nonces \in [Owners -> Nat]
    BY DEF IInv, ChainTypes
  <2>2. nonces' = [nonces EXCEPT ![tx.from] = IF family = "bittensor" THEN @ + 1 ELSE @]
    BY <1>1 DEF Lands
  <2> QED BY <2>1, <2>2, <1>1
<1>6. family = "bittensor" => tx.nonce = nonces[tx.from] /\ nonces'[tx.from] = nonces[tx.from] + 1
  BY <1>1, <1>5 DEF Lands, Executes
<1>7. DOMAIN landed' = Handles /\ landed' = [g \in Handles |-> landed'[g]]
  BY DEF Lands, IInv, ChainTypes
<1>8. ChainTypes'
  BY <1>2, <1>5, <1>7 DEF IInv, ChainTypes
<1>9. ASSUME NEW d \in Calls PROVE CallOK(d)'
  BY <1>2, <1>9 DEF IInv, CallOK, Whole
<1>10. ASSUME NEW g \in Handles PROVE TakenOK(g)' /\ HeldOK(g)'
  BY <1>2, <1>10 DEF IInv, TakenOK, HeldOK, Held, Whole
<1>11. ASSUME NEW g \in Handles PROVE LandedOK(g)'
  <2>1. CASE g = h
    <3>1. l.by = tx.from /\ l.ref = tx.ref
      BY <1>1, <1>3
    <3>2. issued'[g] = tx /\ landed'[g] = <<l>>
      BY <2>1, <1>2, <1>4
    <3>3. family = "bittensor" => tx.nonce \in Nat /\ tx.nonce < nonces'[tx.from]
      BY <1>1, <1>6 DEF IInv, ChainTypes
    <3> HIDE DEF tx
    <3>4. Once(g, l)'
      BY <3>1, <3>2, <3>3, <1>1, <1>2 DEF Once
    <3> QED BY <3>4 DEF LandedOK
  <2>2. CASE g # h
    <3>1. landed'[g] = landed[g] /\ issued'[g] = issued[g]
      BY <2>2, <1>2, <1>4
    <3>2. ASSUME NEW k, Once(g, k) PROVE Once(g, k)'
      <4>1. CASE family = "bittensor"
        BY <3>1, <3>2, <4>1, <1>2, <1>5 DEF Once, IInv, ChainTypes
      <4>2. CASE family # "bittensor"
        BY <3>1, <3>2, <4>2, <1>2 DEF Once
      <4> QED BY <4>1, <4>2
    <3> QED BY <3>1, <3>2 DEF IInv, LandedOK
  <2> QED BY <2>1, <2>2
<1> QED BY <1>8, <1>9, <1>10, <1>11 DEF IInv

LEMMA AnswerStep ==
  ASSUME IInv, NEW c \in Calls, Answered(c, calls[c].pc = "taken")
  PROVE  IInv'
<1> DEFINE h == calls[c].handle
<1>1. /\ calls' = [calls EXCEPT ![c] = Idle]
      /\ UNCHANGED <<family, nonces, taken, landed, issued, now>>
  BY DEF Answered, chainVars
<1>2. h \in Handles /\ (calls[c].pc = "taken" => Whole(h) \in taken[h])
  BY DEF Answered, IInv, CallOK
<1>3. calls' \in [Calls -> CallRec]
  BY <1>1 DEF IInv, ChainTypes, CallRec, Idle
<1>4. ASSUME NEW d \in Calls PROVE CallOK(d)'
  <2>1. CASE d = c
    BY <2>1, <1>1 DEF CallOK, IInv, ChainTypes, Idle
  <2>2. CASE d # c
    <3>1. CallOK(d) /\ calls'[d] = calls[d]
      BY <2>2, <1>1 DEF IInv, ChainTypes
    <3> QED BY <3>1, <1>1 DEF CallOK, Whole
  <2> QED BY <2>1, <2>2
<1>5. CASE calls[c].pc = "taken" /\ TransitionToSent(h)
  <2>1. StoreStep({h})
    BY <1>2, <1>5, SentStores DEF IInv
  <2>2. \A g \in Handles \cap {h} : Whole(g) \in taken[g]
    BY <1>2, <1>5
  <2> HIDE DEF h
  <2> QED BY <2>1, <2>2, <1>1, <1>3, <1>4, RecordStep
<1>6. CASE UNCHANGED store
  <2>1. StoreStep({})
    BY <1>6 DEF StoreStep, IInv, ChainTypes
  <2> QED BY <2>1, <1>1, <1>3, <1>4, RecordStep
<1> QED BY <1>5, <1>6 DEF Answered

\* A preview or a cancellation leaves the calls alone.
LEMMA StoreOnly ==
  ASSUME IInv, StoreStep({}), UNCHANGED <<family, calls, nonces, taken, landed, issued, now>>
  PROVE  IInv'
<1>1. \A c \in Calls : CallOK(c)'
  BY DEF IInv, CallOK, Whole
<1>2. calls' \in [Calls -> CallRec]
  BY DEF IInv, ChainTypes
<1> QED BY <1>1, <1>2, RecordStep

LEMMA PreviewStep ==
  ASSUME IInv, NEW h \in Handles, Previewed(h)
  PROVE  IInv'
<1>1. PICK t \in Tokens : TransitionToPreviewed(h, [token |-> t, nonce |-> 0])
  BY DEF Previewed
<1>2. [token |-> t, nonce |-> 0] \in PreviewPinned
  BY DEF PreviewPinned
<1>3. StoreStep({})
  BY <1>1, <1>2, PreviewedStores DEF IInv
<1> QED BY <1>3, StoreOnly DEF Previewed, chainVars

-----------------------------------------------------------------------------
(* The accounts, the chain and time                                         *)

LEMMA InitHolds == Init => IInv
<1> SUFFICES ASSUME Init PROVE IInv
  OBVIOUS
<1>1. ChainTypes
  BY DEF Init, StoreInit, ChainTypes, CallRec, Idle
<1>2. \A c \in Calls : CallOK(c)
  BY DEF Init, CallOK, Idle
<1>3. \A h \in Handles : TakenOK(h) /\ LandedOK(h) /\ HeldOK(h)
  BY DEF Init, StoreInit, TakenOK, LandedOK, HeldOK, Held
<1> QED BY <1>1, <1>2, <1>3 DEF IInv

\* Neither the records nor what is on chain of a handle is touched.
LEMMA StillStep ==
  ASSUME IInv, UNCHANGED <<family, calls, nonces, taken, landed, store, issued, now>>
  PROVE  IInv'
<1>1. now' \in Nat /\ nonces' \in [Owners -> Nat] /\ \A a \in Owners : nonces[a] <= nonces'[a]
  BY DEF IInv, ChainTypes
<1> QED BY <1>1, WorldStep

LEMMA PairStep == ASSUME IInv, Pair PROVE IInv'
BY StillStep DEF Pair, storeVars

LEMMA CommonStep == ASSUME IInv, Common PROVE IInv'
<1>1. CASE Cancel
  <2>1. PICK h \in Handles : TransitionToCancelled(h)
    BY <1>1 DEF Cancel
  <2>2. StoreStep({})
    BY <2>1, CancelledStores DEF IInv
  <2> QED BY <1>1, <2>2, StoreOnly DEF Cancel, chainVars
<1>2. CASE Unpair
  BY <1>2, StillStep DEF Unpair, storeVars
<1>3. CASE SetDemoWallet
  BY <1>3, StillStep DEF SetDemoWallet, storeVars, chainVars
<1>4. CASE OthersSend
  <2>1. PICK b \in Accounts : nonces' = [nonces EXCEPT ![b] = @ + 1]
    BY <1>4 DEF OthersSend
  <2>2. nonces \in [Owners -> Nat] /\ now \in Nat
    BY DEF IInv, ChainTypes
  <2>3. nonces' \in [Owners -> Nat] /\ \A a \in Owners : nonces[a] <= nonces'[a]
    <3>1. b \in Owners
      BY DEF Owners
    <3>2. nonces' \in [Owners -> Nat]
      BY <2>1, <2>2, <3>1
    <3>3. ASSUME NEW a \in Owners PROVE nonces[a] <= nonces'[a]
      BY <2>1, <2>2, <3>1
    <3> QED BY <3>2, <3>3
  <2>4. now' \in Nat /\ UNCHANGED <<family, calls, taken, landed, store, issued>>
    BY <1>4, <2>2 DEF OthersSend, storeVars
  <2> QED BY <2>3, <2>4, WorldStep
<1>5. CASE LevelMoves
  BY <1>5, StillStep DEF LevelMoves, storeVars
<1>6. CASE Tick
  <2>1. UNCHANGED <<family, calls, nonces, taken, landed, store, issued>> /\ now' = now + 1
    BY <1>6 DEF Tick
  <2>2. now' \in Nat /\ nonces' \in [Owners -> Nat] /\ \A a \in Owners : nonces[a] <= nonces'[a]
    BY <2>1 DEF IInv, ChainTypes
  <2> QED BY <2>1, <2>2, WorldStep
<1> QED BY <1>1, <1>2, <1>3, <1>4, <1>5, <1>6 DEF Common

LEMMA SolanaStep == ASSUME IInv, SolanaNext PROVE IInv'
<1>1. CASE PairSolanaLedger
  BY <1>1, PairStep DEF PairSolanaLedger
<1>2. ASSUME NEW h \in Handles, PreviewSolana(h) PROVE IInv'
  BY <1>2, PreviewStep DEF PreviewSolana
<1>3. ASSUME NEW c \in Calls, NEW h \in Handles, SolanaSign(c, h) PROVE IInv'
  BY <1>3, SendStep DEF SolanaSign
<1>4. ASSUME NEW c \in Calls, SolanaSubmit(c) PROVE IInv'
  BY <1>4, SubmitStep DEF SolanaSubmit, SolanaSubmitted
<1>5. ASSUME NEW c \in Calls, SolanaAnswer(c) PROVE IInv'
  BY <1>5, AnswerStep DEF SolanaAnswer
<1>6. ASSUME NEW h \in Handles, SolanaLands(h) PROVE IInv'
  BY <1>6, LandStep DEF SolanaLands
<1> QED BY <1>1, <1>2, <1>3, <1>4, <1>5, <1>6, SolanaPrepares DEF SolanaNext

LEMMA TronStep == ASSUME IInv, TronNext PROVE IInv'
<1>1. CASE PairTronLedger
  BY <1>1, PairStep DEF PairTronLedger
<1>2. ASSUME NEW h \in Handles,
             \/ PreviewTronWithdraw(h) \/ PreviewTronStake(h) \/ PreviewTronApproval(h)
             \/ PreviewTronSwap(h) \/ PreviewTronSend(h)
      PROVE  IInv'
  BY <1>2, PreviewStep DEF PreviewTronWithdraw, PreviewTronStake, PreviewTronApproval,
                           PreviewTronSwap, PreviewTronSend, PreviewTron
<1>3. ASSUME NEW c \in Calls, NEW h \in Handles, TronSign(c, h) PROVE IInv'
  BY <1>3, SendStep DEF TronSign
<1>4. ASSUME NEW c \in Calls, TronSubmit(c) PROVE IInv'
  BY <1>4, SubmitStep DEF TronSubmit, TronSubmitted
<1>5. ASSUME NEW c \in Calls, TronAnswer(c) PROVE IInv'
  BY <1>5, AnswerStep DEF TronAnswer, TronBroadcastOk
<1>6. ASSUME NEW h \in Handles, TronLands(h) PROVE IInv'
  BY <1>6, LandStep DEF TronLands
<1> QED BY <1>1, <1>2, <1>3, <1>4, <1>5, <1>6, TronPrepares DEF TronNext

LEMMA BittensorStep == ASSUME IInv, BittensorNext PROVE IInv'
<1>1. CASE PairBittensorLedger
  BY <1>1, PairStep DEF PairBittensorLedger
<1>2. ASSUME NEW h \in Handles, PreviewBittensor(h) PROVE IInv'
  BY <1>2, PreviewStep DEF PreviewBittensor
<1>3. ASSUME NEW c \in Calls, NEW h \in Handles, BittensorSign(c, h) PROVE IInv'
  BY <1>3, SendStep DEF BittensorSign
<1>4. ASSUME NEW c \in Calls, BittensorSubmit(c) PROVE IInv'
  BY <1>4, SubmitStep DEF BittensorSubmit, BittensorSubmitted
<1>5. ASSUME NEW c \in Calls, BittensorAnswer(c) PROVE IInv'
  BY <1>5, AnswerStep DEF BittensorAnswer
<1>6. ASSUME NEW h \in Handles, BittensorLands(h) PROVE IInv'
  BY <1>6, LandStep DEF BittensorLands
<1> QED BY <1>1, <1>2, <1>3, <1>4, <1>5, <1>6, BittensorPrepares DEF BittensorNext

-----------------------------------------------------------------------------
(* The limits                                                               *)

LEMMA PairGivesSome ==
    ASSUME NEW n \in Nat, NEW first, "tron" \in Families, NEW l \in Levels["tron"]
    PROVE  PairGives(n, first, l) \in Nat
<1> DEFINE sold == SoldReserve(first, l)
           bought == BoughtReserve(first, l)
<1>1. Pools[l][1] \in Nat \ {0} /\ Pools[l][2] \in Nat \ {0}
  BY TronAssumption
<1>2. sold \in Nat /\ sold > 0 /\ bought \in Nat
  BY <1>1 DEF SoldReserve, BoughtReserve
<1> HIDE DEF sold, bought
<1>3. n * bought \in Nat /\ sold + n \in Nat /\ sold + n > 0
  BY <1>2
<1>4. (n * bought) \div (sold + n) \in Nat
  BY <1>3, Floor
<1> QED BY <1>4 DEF PairGives, sold, bought

LEMMA SwapGivesSome ==
    ASSUME NEW n \in Nat, NEW path, "tron" \in Families, NEW l \in Levels["tron"]
    PROVE  CallGetAmountsOut(n, path, l) \in Nat
BY PairGivesSome DEF CallGetAmountsOut

\* What the chain asks of a limited transaction that takes effect at a level.
WithinLimits(tx, l) ==
    /\ tx.tool = "prepare_sunswap_swap" => CallGetAmountsOut(tx.amount, tx.asked.path, l) >= tx.bound
    /\ tx.tool = "prepare_bittensor_add_stake_limit" => l <= tx.bound
    /\ tx.tool = "prepare_bittensor_remove_stake_limit" => l >= tx.bound

Slippages == 0..9999

SwapFloor(tx) ==
    (CallGetAmountsOut(tx.amount, tx.asked.path, tx.seen) * (10000 - SlippageBps(tx.asked))) \div 10000

SwapBoundOK(tx) ==
    tx.tool = "prepare_sunswap_swap" =>
        /\ family = "tron"
        /\ tx.amount \in Nat /\ tx.seen \in Levels["tron"] /\ SlippageBps(tx.asked) \in Slippages
        /\ tx.bound = SwapFloor(tx)

StakeBoundOK(tx) ==
    /\ tx.tool \in BittensorLimited =>
           family = "bittensor" /\ tx.seen \in Nat /\ ToleranceBps(tx.asked) \in Nat
    /\ tx.tool = "prepare_bittensor_add_stake_limit" =>
           tx.bound = CeilingPrice(tx.seen, ToleranceBps(tx.asked))
    /\ tx.tool = "prepare_bittensor_remove_stake_limit" =>
           /\ ToleranceBps(tx.asked) <= 10000
           /\ tx.bound = FloorPrice(tx.seen, ToleranceBps(tx.asked))

\* A limited transaction carries the bound of the price that it was prepared at, and what
\* was executed kept to it.
LimitInv ==
    /\ level \in Levels[family] /\ recent \in Levels[family]
    /\ \A h \in Handles : issued[h] # None => SwapBoundOK(issued[h]) /\ StakeBoundOK(issued[h])
    /\ \A h \in Handles : \A i \in DOMAIN landed[h] :
          /\ landed[h][i].level \in Levels[family]
          /\ landed[h][i].done => WithinLimits(issued[h], landed[h][i].level)

LimitedTools == {"prepare_sunswap_swap"} \cup BittensorLimited

LEMMA LevelStep ==
  ASSUME LimitInv, UNCHANGED <<family, issued, landed>>,
         level' \in Levels[family], recent' \in Levels[family]
  PROVE  LimitInv'
<1>1. \A h \in Handles : issued[h] # None => (SwapBoundOK(issued[h]) /\ StakeBoundOK(issued[h]))'
  BY DEF LimitInv, SwapBoundOK, StakeBoundOK
<1> QED BY <1>1 DEF LimitInv, WithinLimits

LEMMA LimitMakesStep ==
  ASSUME IInv, LimitInv, NEW r, NEW fields, Makes(r, fields),
         SwapBoundOK(Built(r, fields)), StakeBoundOK(Built(r, fields))
  PROVE  LimitInv'
<1> DEFINE tx == Built(r, fields)
<1>1. PICK h \in Handles : CreateHandle(h, tx)
  BY DEF Makes
<1>2. UNCHANGED <<family, level, recent, landed>> /\ SwapBoundOK(tx) /\ StakeBoundOK(tx)
  BY DEF Makes, chainVars
<1> HIDE DEF tx
<1>3. /\ issued[h] = None /\ issued'[h] = tx
      /\ \A g \in Handles \ {h} : issued'[g] = issued[g]
  BY <1>1 DEF CreateHandle, IInv, ChainTypes
<1>4. landed[h] = <<>>
  BY <1>3 DEF IInv, LandedOK, Once
<1>5. ASSUME NEW g \in Handles, issued'[g] # None
      PROVE  SwapBoundOK(issued[g])' /\ StakeBoundOK(issued[g])'
  <2>1. SwapBoundOK(issued'[g]) /\ StakeBoundOK(issued'[g])
    BY <1>2, <1>3, <1>5 DEF LimitInv
  <2> QED BY <2>1, <1>2 DEF SwapBoundOK, StakeBoundOK
<1>6. ASSUME NEW g \in Handles, NEW i \in DOMAIN landed[g]
      PROVE  /\ landed[g][i].level \in Levels[family]
             /\ landed[g][i].done => WithinLimits(issued'[g], landed[g][i].level)
  <2>1. g # h
    BY <1>4, <1>6
  <2> QED BY <2>1, <1>3, <1>6 DEF LimitInv
<1> QED BY <1>2, <1>5, <1>6 DEF LimitInv, WithinLimits

LEMMA ReadLevels ==
    ASSUME LimitInv, NEW l \in Read
    PROVE  l \in Levels[family]
BY DEF LimitInv, Read

\* A request of a tool is one of its family.
LEMMA AskedTool ==
    ASSUME IInv, NEW tool, NEW r \in Asked(tool)
    PROVE  r.tool = tool /\ tool \in DOMAIN Requests[family] /\ family \in Families
           /\ r \in Requests[family][tool]
<1>1. tool \in DOMAIN Requests[family] /\ r \in Requests[family][tool]
  BY DEF Asked
<1>2. family \in Families
  BY DEF IInv, ChainTypes
<1> QED BY <1>1, <1>2, DeviceAssumption

\* What the encoders set of a transaction, beside what all have in common.
NamedFields == {"from", "to", "amount", "ref", "until", "nonce", "seen", "bound", "deadline"}

LEMMA FreeMakesStep ==
  ASSUME IInv, LimitInv, NEW tool, tool \notin LimitedTools, NEW r \in Asked(tool), NEW fields,
         DOMAIN fields \subseteq NamedFields, Makes(r, fields)
  PROVE  LimitInv'
<1>1. Built(r, fields).tool = r.tool
  BY DEF Built, Joined, NamedFields, NoTx
<1>2. Built(r, fields).tool \notin LimitedTools
  BY <1>1, AskedTool
<1>3. SwapBoundOK(Built(r, fields)) /\ StakeBoundOK(Built(r, fields))
  BY <1>2 DEF SwapBoundOK, StakeBoundOK, LimitedTools, BittensorLimited
<1> QED BY <1>3, LimitMakesStep

LEMMA ExtendedFields ==
    ASSUME NEW fields, DOMAIN fields \subseteq NamedFields
    PROVE  DOMAIN Extended(fields) \subseteq NamedFields
BY DEF Extended, Joined, NamedFields

LEMMA RecentFields ==
    ASSUME NEW fields, DOMAIN fields \subseteq NamedFields
    PROVE  DOMAIN Recent(fields) \subseteq NamedFields
BY DEF Recent, Joined, NamedFields

LEMMA ExtrinsicFields ==
    ASSUME NEW fields, DOMAIN fields \subseteq NamedFields
    PROVE  DOMAIN Extrinsic(fields) \subseteq NamedFields
BY DEF Extrinsic, Joined, NamedFields

LEMMA SolanaIsFree ==
  ASSUME IInv, LimitInv,
         \/ PrepareSolanaNativeSend \/ PrepareSolanaSplSend
         \/ PrepareSolanaNonceInit \/ PrepareSolanaNonceClose
         \/ PrepareSolanaDelegate \/ PrepareSolanaDeactivate
         \/ PrepareSolanaWithdraw \/ PrepareMarginfiAccountInit
         \/ PrepareMarginfiSupply \/ PrepareMarginfiWithdraw
         \/ PrepareMarginfiBorrow \/ PrepareMarginfiRepay
         \/ PrepareKaminoObligationInit \/ PrepareKaminoSupply
         \/ PrepareKaminoWithdraw \/ PrepareKaminoBorrow \/ PrepareKaminoRepay
         \/ PrepareJupiterSwap \/ PrepareMarinadeStake
         \/ PrepareMarinadeImmediateUnstake \/ PrepareJitoStakePoolDeposit
  PROVE  LimitInv'
<1>0. ASSUME NEW tool, tool \notin LimitedTools, NEW r \in Asked(tool), NEW fields,
             DOMAIN fields \subseteq NamedFields, Makes(r, Recent(fields))
      PROVE  LimitInv'
  BY <1>0, RecentFields, FreeMakesStep
<1>1. CASE PrepareSolanaNativeSend
  BY <1>0, <1>1 DEF PrepareSolanaNativeSend, BuildSolanaTransferTx, LimitedTools, BittensorLimited, NamedFields
<1>2. CASE PrepareSolanaSplSend
  BY <1>0, <1>2 DEF PrepareSolanaSplSend, BuildSplTransferTx, LimitedTools, BittensorLimited, NamedFields
<1>3. CASE PrepareSolanaNonceInit
  BY <1>0, <1>3 DEF PrepareSolanaNonceInit, BuildNonceInitTx, LimitedTools, BittensorLimited, NamedFields
<1>4. CASE PrepareSolanaNonceClose
  BY <1>0, <1>4 DEF PrepareSolanaNonceClose, BuildNonceCloseTx, LimitedTools, BittensorLimited, NamedFields
<1>5. CASE PrepareSolanaDelegate
  BY <1>0, <1>5 DEF PrepareSolanaDelegate, BuildDelegateTx, LimitedTools, BittensorLimited, NamedFields
<1>6. CASE PrepareSolanaDeactivate
  BY <1>0, <1>6 DEF PrepareSolanaDeactivate, BuildDeactivateTx, LimitedTools, BittensorLimited, NamedFields
<1>7. CASE PrepareSolanaWithdraw
  BY <1>0, <1>7 DEF PrepareSolanaWithdraw, BuildWithdrawTx, LimitedTools, BittensorLimited, NamedFields
<1>8. CASE PrepareMarginfiAccountInit
  BY <1>0, <1>8 DEF PrepareMarginfiAccountInit, LimitedTools, BittensorLimited, NamedFields
<1>9. CASE PrepareMarginfiSupply
  BY <1>0, <1>9 DEF PrepareMarginfiSupply, MarginfiTx, LimitedTools, BittensorLimited, NamedFields
<1>10. CASE PrepareMarginfiWithdraw
  BY <1>0, <1>10 DEF PrepareMarginfiWithdraw, MarginfiTx, LimitedTools, BittensorLimited, NamedFields
<1>11. CASE PrepareMarginfiBorrow
  BY <1>0, <1>11 DEF PrepareMarginfiBorrow, MarginfiTx, LimitedTools, BittensorLimited, NamedFields
<1>12. CASE PrepareMarginfiRepay
  BY <1>0, <1>12 DEF PrepareMarginfiRepay, MarginfiTx, LimitedTools, BittensorLimited, NamedFields
<1>13. CASE PrepareKaminoObligationInit
  BY <1>0, <1>13 DEF PrepareKaminoObligationInit, LimitedTools, BittensorLimited, NamedFields
<1>14. CASE PrepareKaminoSupply
  BY <1>0, <1>14 DEF PrepareKaminoSupply, FinalizeKaminoOp, LimitedTools, BittensorLimited, NamedFields
<1>15. CASE PrepareKaminoWithdraw
  BY <1>0, <1>15 DEF PrepareKaminoWithdraw, FinalizeKaminoOp, LimitedTools, BittensorLimited, NamedFields
<1>16. CASE PrepareKaminoBorrow
  BY <1>0, <1>16 DEF PrepareKaminoBorrow, FinalizeKaminoOp, LimitedTools, BittensorLimited, NamedFields
<1>17. CASE PrepareKaminoRepay
  BY <1>0, <1>17 DEF PrepareKaminoRepay, FinalizeKaminoOp, LimitedTools, BittensorLimited, NamedFields
<1>18. CASE PrepareJupiterSwap
  BY <1>0, <1>18 DEF PrepareJupiterSwap, LimitedTools, BittensorLimited, NamedFields
<1>19. CASE PrepareMarinadeStake
  BY <1>0, <1>19 DEF PrepareMarinadeStake, LimitedTools, BittensorLimited, NamedFields
<1>20. CASE PrepareMarinadeImmediateUnstake
  BY <1>0, <1>20 DEF PrepareMarinadeImmediateUnstake, LimitedTools, BittensorLimited, NamedFields
<1>21. CASE PrepareJitoStakePoolDeposit
  BY <1>0, <1>21 DEF PrepareJitoStakePoolDeposit, LimitedTools, BittensorLimited, NamedFields
<1> QED BY <1>1, <1>2, <1>3, <1>4, <1>5, <1>6, <1>7, <1>8, <1>9, <1>10, <1>11, <1>12, <1>13,
       <1>14, <1>15, <1>16, <1>17, <1>18, <1>19, <1>20, <1>21

LEMMA TronIsFree ==
  ASSUME IInv, LimitInv,
         \/ PrepareTronNativeSend \/ PrepareTronTrc20Send
         \/ PrepareTronTokenApprove \/ PrepareTronRevokeApproval
         \/ PrepareTronStakeFreeze \/ PrepareTronStakeUnfreeze
         \/ PrepareTronWithdrawExpireUnfreeze \/ PrepareTronStakeVote
         \/ PrepareTronStakeClaimRewards
  PROVE  LimitInv'
<1>0. ASSUME NEW tool, tool \notin LimitedTools, NEW r \in Asked(tool), NEW fields,
             DOMAIN fields \subseteq NamedFields, Makes(r, Extended(fields))
      PROVE  LimitInv'
  BY <1>0, ExtendedFields, FreeMakesStep
<1>1. CASE PrepareTronNativeSend
  BY <1>0, <1>1 DEF PrepareTronNativeSend, EncodeTronTransfer, LimitedTools, BittensorLimited, NamedFields
<1>2. CASE PrepareTronTrc20Send
  BY <1>0, <1>2 DEF PrepareTronTrc20Send, EncodeTronTrc20Transfer, LimitedTools, BittensorLimited, NamedFields
<1>3. CASE PrepareTronTokenApprove
  BY <1>0, <1>3 DEF PrepareTronTokenApprove, EncodeTronTrc20Approve, LimitedTools, BittensorLimited, NamedFields
<1>4. CASE PrepareTronRevokeApproval
  BY <1>0, <1>4 DEF PrepareTronRevokeApproval, EncodeTronTrc20Approve, LimitedTools, BittensorLimited, NamedFields
<1>5. CASE PrepareTronStakeFreeze
  BY <1>0, <1>5 DEF PrepareTronStakeFreeze, EncodeFreezeBalanceV2, LimitedTools, BittensorLimited, NamedFields
<1>6. CASE PrepareTronStakeUnfreeze
  BY <1>0, <1>6 DEF PrepareTronStakeUnfreeze, EncodeUnfreezeBalanceV2, LimitedTools, BittensorLimited, NamedFields
<1>7. CASE PrepareTronWithdrawExpireUnfreeze
  BY <1>0, <1>7 DEF PrepareTronWithdrawExpireUnfreeze, EncodeWithdrawExpireUnfreeze, LimitedTools, BittensorLimited, NamedFields
<1>8. CASE PrepareTronStakeVote
  BY <1>0, <1>8 DEF PrepareTronStakeVote, EncodeVoteWitness, LimitedTools, BittensorLimited, NamedFields
<1>9. CASE PrepareTronStakeClaimRewards
  BY <1>0, <1>9 DEF PrepareTronStakeClaimRewards, EncodeWithdrawBalance, LimitedTools, BittensorLimited, NamedFields
<1> QED BY <1>1, <1>2, <1>3, <1>4, <1>5, <1>6, <1>7, <1>8, <1>9

LEMMA BittensorIsFree ==
  ASSUME IInv, LimitInv,
         \/ PrepareBittensorNativeSend \/ PrepareBittensorAddStake
         \/ PrepareBittensorRemoveStake \/ PrepareBittensorMoveStake
         \/ PrepareBittensorSwapStake \/ PrepareBittensorTransferStake
  PROVE  LimitInv'
<1>0. ASSUME NEW tool, tool \notin LimitedTools, NEW r \in Asked(tool), NEW fields,
             DOMAIN fields \subseteq NamedFields, Makes(r, Extrinsic(fields))
      PROVE  LimitInv'
  BY <1>0, ExtrinsicFields, FreeMakesStep
<1>1. CASE PrepareBittensorNativeSend
  BY <1>0, <1>1 DEF PrepareBittensorNativeSend, BuildNative, LimitedTools, BittensorLimited, NamedFields
<1>2. CASE PrepareBittensorAddStake
  BY <1>0, <1>2 DEF PrepareBittensorAddStake, BuildStakeCall, LimitedTools, BittensorLimited, NamedFields
<1>3. CASE PrepareBittensorRemoveStake
  BY <1>0, <1>3 DEF PrepareBittensorRemoveStake, BuildStakeCall, LimitedTools, BittensorLimited, NamedFields
<1>4. CASE PrepareBittensorMoveStake
  BY <1>0, <1>4 DEF PrepareBittensorMoveStake, BuildStakeCall, LimitedTools, BittensorLimited, NamedFields
<1>5. CASE PrepareBittensorSwapStake
  BY <1>0, <1>5 DEF PrepareBittensorSwapStake, BuildStakeCall, LimitedTools, BittensorLimited, NamedFields
<1>6. CASE PrepareBittensorTransferStake
  BY <1>0, <1>6 DEF PrepareBittensorTransferStake, BuildStakeCall, LimitedTools, BittensorLimited, NamedFields
<1> QED BY <1>1, <1>2, <1>3, <1>4, <1>5, <1>6

\* The swap asks for what the pool gives at the level that was read, less the slippage.
LEMMA SwapIsBounded ==
  ASSUME IInv, LimitInv, PrepareSunswapSwap
  PROVE  LimitInv'
<1>1. PICK r \in Asked("prepare_sunswap_swap"), l \in Read :
         /\ SunswapAccepts(r)
         /\ Makes(r, EncodeSunswapSwap(r, FetchSunswapQuote(r, l), l))
  BY DEF PrepareSunswapSwap
<1> DEFINE q == FetchSunswapQuote(r, l)
           fields == EncodeSunswapSwap(r, q, l)
           tx == Built(r, fields)
<1>2. r.tool = "prepare_sunswap_swap" /\ "prepare_sunswap_swap" \in DOMAIN Requests[family]
      /\ family \in Families /\ r \in Requests[family]["prepare_sunswap_swap"]
  BY AskedTool
<1>3. family = "tron"
  BY <1>2, DeviceAssumption, ChainAssumption, BittensorAssumption
     DEF TronTools, BittensorDispatch
<1>4. TronAmount(r.amount, r.decimals) \in Nat
  <2>1. KnownToken(r) /\ TronAmount(r.amount, r.decimals) # Bad
    BY <1>1 DEF SunswapAccepts, Parses, TronAmount
  <2>2. KnownToken(r) => TronAmount(r.amount, r.decimals) \in Nat \cup {Bad}
    BY <1>2, <1>3, TronAssumption
  <2> QED BY <2>1, <2>2
<1>5. l \in Levels["tron"] /\ SlippageBps(r) \in Slippages
  BY <1>1, <1>3, ReadLevels DEF SunswapAccepts, Slippages
<1>6. /\ DOMAIN fields = {"from", "to", "amount", "seen", "bound", "deadline", "until"}
      /\ fields["amount"] = TronAmount(r.amount, r.decimals)
      /\ fields["seen"] = l
      /\ fields["bound"] = AmountOutMin(r, q)
  BY DEF EncodeSunswapSwap, Extended, Joined
<1> HIDE DEF fields
<1>7. /\ tx.tool = r.tool /\ tx.asked = r
      /\ tx.amount = TronAmount(r.amount, r.decimals)
      /\ tx.seen = l /\ tx.bound = AmountOutMin(r, q)
  BY <1>6 DEF Built, Joined, NoTx
<1>8. q.out = CallGetAmountsOut(tx.amount, r.path, l)
  BY <1>7 DEF FetchSunswapQuote
<1> HIDE DEF tx
<1>9. tx.bound = SwapFloor(tx)
  BY <1>7, <1>8 DEF AmountOutMin, SwapFloor
<1>10. SwapBoundOK(tx)
  BY <1>3, <1>4, <1>5, <1>7, <1>9 DEF SwapBoundOK
<1>11. StakeBoundOK(tx)
  BY <1>2, <1>7 DEF StakeBoundOK, BittensorLimited
<1> QED BY <1>1, <1>10, <1>11, LimitMakesStep DEF tx, fields

\* A limited call of Bittensor carries the price that was read, up or down by the tolerance.
LEMMA StakeIsBounded ==
  ASSUME IInv, LimitInv, PrepareBittensorAddStakeLimit \/ PrepareBittensorRemoveStakeLimit
  PROVE  LimitInv'
<1> DEFINE Fields(r, price, bound) ==
       Extrinsic([to |-> r.to, amount |-> TaoAmount(r.amount), seen |-> price, bound |-> bound])
<1>1. ASSUME NEW tool \in BittensorLimited, NEW r \in Asked(tool), NEW price \in Read
      PROVE  r.tool = tool /\ family = "bittensor" /\ price \in Nat /\ ToleranceBps(r) \in Nat
  <2>1. r.tool = tool /\ tool \in DOMAIN Requests[family] /\ family \in Families
        /\ r \in Requests[family][tool]
    BY <1>1, AskedTool
  <2>2. family = "bittensor"
    BY <1>1, <2>1, DeviceAssumption, ChainAssumption, TronAssumption
       DEF TronTools, BittensorDispatch, BittensorLimited
  <2>3. price \in Nat
    BY <2>1, ReadLevels, DeviceAssumption
  <2>4. ToleranceBps(r) \in Nat
    BY <1>1, <2>1, <2>2, BittensorAssumption
  <2> QED BY <2>1, <2>2, <2>3, <2>4
<1>2. ASSUME NEW r, NEW price, NEW bound
      PROVE  LET tx == Built(r, Fields(r, price, bound))
             IN  tx.tool = r.tool /\ tx.asked = r /\ tx.seen = price /\ tx.bound = bound
  <2> DEFINE fields == Fields(r, price, bound)
  <2>1. /\ DOMAIN fields = {"to", "amount", "seen", "bound", "nonce", "ref"}
        /\ fields["seen"] = price /\ fields["bound"] = bound
    BY DEF Extrinsic, Joined
  <2> HIDE DEF fields
  <2>2. LET tx == Built(r, fields)
        IN  tx.tool = r.tool /\ tx.asked = r /\ tx.seen = price /\ tx.bound = bound
    BY <2>1 DEF Built, Joined, NoTx
  <2> QED BY <2>2 DEF fields
<1>3. CASE PrepareBittensorAddStakeLimit
  <2>1. PICK r \in Asked("prepare_bittensor_add_stake_limit"), price \in Read :
           Makes(r, BuildAddStakeLimit(r, price))
    BY <1>3 DEF PrepareBittensorAddStakeLimit
  <2> DEFINE bound == CeilingPrice(price, ToleranceBps(r))
  <2>2. BuildAddStakeLimit(r, price) = Fields(r, price, bound)
    BY DEF BuildAddStakeLimit
  <2>3. r.tool = "prepare_bittensor_add_stake_limit" /\ family = "bittensor" /\ price \in Nat
        /\ ToleranceBps(r) \in Nat
    BY <1>1 DEF BittensorLimited
  <2> DEFINE tx == Built(r, Fields(r, price, bound))
  <2>4. tx.tool = r.tool /\ tx.asked = r /\ tx.seen = price /\ tx.bound = bound
    BY <1>2
  <2> HIDE DEF tx
  <2>5. SwapBoundOK(tx) /\ StakeBoundOK(tx)
    BY <2>3, <2>4 DEF SwapBoundOK, StakeBoundOK
  <2> QED BY <2>1, <2>2, <2>5, LimitMakesStep DEF tx
<1>4. CASE PrepareBittensorRemoveStakeLimit
  <2>1. PICK r \in Asked("prepare_bittensor_remove_stake_limit"), price \in Read :
           ToleranceBps(r) <= 10000 /\ Makes(r, BuildRemoveStakeLimit(r, price))
    BY <1>4 DEF PrepareBittensorRemoveStakeLimit
  <2> DEFINE bound == FloorPrice(price, ToleranceBps(r))
  <2>2. BuildRemoveStakeLimit(r, price) = Fields(r, price, bound)
    BY DEF BuildRemoveStakeLimit
  <2>3. r.tool = "prepare_bittensor_remove_stake_limit" /\ family = "bittensor" /\ price \in Nat
        /\ ToleranceBps(r) \in Nat
    BY <1>1 DEF BittensorLimited
  <2> DEFINE tx == Built(r, Fields(r, price, bound))
  <2>4. tx.tool = r.tool /\ tx.asked = r /\ tx.seen = price /\ tx.bound = bound
    BY <1>2
  <2> HIDE DEF tx
  <2>5. SwapBoundOK(tx) /\ StakeBoundOK(tx)
    BY <2>1, <2>3, <2>4 DEF SwapBoundOK, StakeBoundOK
  <2> QED BY <2>1, <2>2, <2>5, LimitMakesStep DEF tx
<1> QED BY <1>3, <1>4

\* A submission executes nothing.
LEMMA LimitSubmitStep ==
  ASSUME LimitInv, NEW c \in Calls, NEW tx, NEW valid, Submits(c, tx, valid)
  PROVE  LimitInv'
BY LevelStep DEF Submits, storeVars, LimitInv

\* What a family's chain executes with effect kept to the limits it carries.
LEMMA LimitLandStep ==
  ASSUME IInv, LimitInv, NEW h \in Handles, NEW t \in taken[h], NEW valid, NEW effect,
         Lands(h, t, valid, effect),
         effect => WithinLimits(issued[h], level)
  PROVE  LimitInv'
<1>1. UNCHANGED <<family, level, recent, issued>>
  BY DEF Lands, storeVars
<1>2. PICK l : l = [by |-> t.by, ref |-> t.tx.ref, level |-> level, done |-> effect]
  OBVIOUS
<1>3. landed'[h] = <<l>> /\ \A g \in Handles \ {h} : landed'[g] = landed[g]
  <2>1. landed' = [landed EXCEPT ![h] = Append(@, l)] /\ Executes(h, t.tx)
    BY <1>2 DEF Lands
  <2>2. t.tx = issued[h]
    BY DEF IInv, TakenOK, Whole
  <2> QED BY <2>1, <2>2, ExecutedOnce
<1>4. ASSUME NEW g \in Handles, NEW i \in DOMAIN landed'[g]
      PROVE  /\ landed'[g][i].level \in Levels[family]
             /\ landed'[g][i].done => WithinLimits(issued[g], landed'[g][i].level)
  <2>1. CASE g = h
    <3>1. i \in DOMAIN <<l>>
      BY <1>3, <1>4, <2>1
    <3>2. landed'[g][i] = l
      BY <1>3, <2>1, <3>1
    <3> QED BY <1>2, <2>1, <3>2 DEF LimitInv
  <2>2. CASE g # h
    BY <1>3, <1>4, <2>2 DEF LimitInv
  <2> QED BY <2>1, <2>2
<1>5. \A g \in Handles : issued[g] # None => (SwapBoundOK(issued[g]) /\ StakeBoundOK(issued[g]))'
  BY <1>1 DEF LimitInv, SwapBoundOK, StakeBoundOK
<1> QED BY <1>1, <1>4, <1>5 DEF LimitInv, WithinLimits

LEMMA LimitAnswerStep ==
  ASSUME LimitInv, NEW c \in Calls, NEW success, Answered(c, success)
  PROVE  LimitInv'
BY LevelStep DEF Answered, chainVars, LimitInv

LEMMA LimitPreviewStep ==
  ASSUME LimitInv, NEW h \in Handles, Previewed(h)
  PROVE  LimitInv'
BY LevelStep DEF Previewed, chainVars, LimitInv

LEMMA LimitSignStep ==
  ASSUME LimitInv, NEW c \in Calls, NEW h \in Handles, Signed(c, h)
  PROVE  LimitInv'
BY LevelStep DEF Signed, chainVars, storeVars, LimitInv

LEMMA LimitPairStep == ASSUME LimitInv, Pair PROVE LimitInv'
BY LevelStep DEF Pair, storeVars, LimitInv

LEMMA LimitCommonStep == ASSUME LimitInv, Common PROVE LimitInv'
<1>1. CASE Cancel
  BY <1>1, LevelStep DEF Cancel, chainVars, LimitInv
<1>2. CASE Unpair
  BY <1>2, LevelStep DEF Unpair, storeVars, LimitInv
<1>3. CASE SetDemoWallet
  BY <1>3, LevelStep DEF SetDemoWallet, storeVars, chainVars, LimitInv
<1>4. CASE OthersSend
  BY <1>4, LevelStep DEF OthersSend, storeVars, LimitInv
<1>5. CASE LevelMoves
  BY <1>5, LevelStep DEF LevelMoves, storeVars, LimitInv
<1>6. CASE Tick
  BY <1>6, LevelStep DEF Tick, LimitInv
<1> QED BY <1>1, <1>2, <1>3, <1>4, <1>5, <1>6 DEF Common

\* What a node took was issued.
LEMMA TakenIssued ==
    ASSUME IInv, NEW h \in Handles, NEW t \in taken[h]
    PROVE  issued[h] # None /\ t.tx = issued[h]
BY DEF IInv, TakenOK, Whole

LEMMA LimitSolanaStep == ASSUME IInv, LimitInv, SolanaNext PROVE LimitInv'
<1>1. CASE PairSolanaLedger
  BY <1>1, LimitPairStep DEF PairSolanaLedger
<1>2. ASSUME NEW h \in Handles, PreviewSolana(h) PROVE LimitInv'
  BY <1>2, LimitPreviewStep DEF PreviewSolana
<1>3. ASSUME NEW c \in Calls, NEW h \in Handles, SolanaSign(c, h) PROVE LimitInv'
  BY <1>3, LimitSignStep DEF SolanaSign
<1>4. ASSUME NEW c \in Calls, SolanaSubmit(c) PROVE LimitInv'
  BY <1>4, LimitSubmitStep DEF SolanaSubmit
<1>5. ASSUME NEW c \in Calls, SolanaAnswer(c) PROVE LimitInv'
  BY <1>5, LimitAnswerStep DEF SolanaAnswer
<1>6. ASSUME NEW h \in Handles, SolanaLands(h) PROVE LimitInv'
  <2> DEFINE tx == issued[h]
  <2>1. PICK t \in taken[h] : Lands(h, t, TRUE, SolanaSucceeds(t.tx))
    BY <1>6 DEF SolanaLands
  <2>2. SwapBoundOK(tx) /\ StakeBoundOK(tx) /\ family = "solana" /\ t.tx = tx
    BY <1>6, TakenIssued DEF SolanaLands, LimitInv
  <2>3. WithinLimits(tx, level)
    BY <2>2 DEF WithinLimits, SwapBoundOK, StakeBoundOK, BittensorLimited
  <2> QED BY <2>1, <2>2, <2>3, LimitLandStep
<1> QED BY <1>1, <1>2, <1>3, <1>4, <1>5, <1>6, SolanaIsFree DEF SolanaNext

LEMMA LimitTronStep == ASSUME IInv, LimitInv, TronNext PROVE LimitInv'
<1>1. CASE PairTronLedger
  BY <1>1, LimitPairStep DEF PairTronLedger
<1>2. ASSUME NEW h \in Handles,
             \/ PreviewTronWithdraw(h) \/ PreviewTronStake(h) \/ PreviewTronApproval(h)
             \/ PreviewTronSwap(h) \/ PreviewTronSend(h)
      PROVE  LimitInv'
  BY <1>2, LimitPreviewStep DEF PreviewTronWithdraw, PreviewTronStake, PreviewTronApproval,
                                PreviewTronSwap, PreviewTronSend, PreviewTron
<1>3. ASSUME NEW c \in Calls, NEW h \in Handles, TronSign(c, h) PROVE LimitInv'
  BY <1>3, LimitSignStep DEF TronSign
<1>4. ASSUME NEW c \in Calls, TronSubmit(c) PROVE LimitInv'
  BY <1>4, LimitSubmitStep DEF TronSubmit
<1>5. ASSUME NEW c \in Calls, TronAnswer(c) PROVE LimitInv'
  BY <1>5, LimitAnswerStep DEF TronAnswer
<1>6. ASSUME NEW h \in Handles, TronLands(h) PROVE LimitInv'
  <2> DEFINE tx == issued[h]
  <2>1. PICK t \in taken[h] : Lands(h, t, TronTakes(t.tx), TronSucceeds(t.tx))
    BY <1>6 DEF TronLands
  <2>2. SwapBoundOK(tx) /\ StakeBoundOK(tx) /\ family = "tron" /\ t.tx = tx
    BY <1>6, TakenIssued DEF TronLands, LimitInv
  <2>3. TronSucceeds(tx) => WithinLimits(tx, level)
    BY <2>2 DEF WithinLimits, StakeBoundOK, BittensorLimited, TronSucceeds
  <2> QED BY <2>1, <2>2, <2>3, LimitLandStep
<1> QED BY <1>1, <1>2, <1>3, <1>4, <1>5, <1>6, TronIsFree, SwapIsBounded DEF TronNext

LEMMA LimitBittensorStep == ASSUME IInv, LimitInv, BittensorNext PROVE LimitInv'
<1>1. CASE PairBittensorLedger
  BY <1>1, LimitPairStep DEF PairBittensorLedger
<1>2. ASSUME NEW h \in Handles, PreviewBittensor(h) PROVE LimitInv'
  BY <1>2, LimitPreviewStep DEF PreviewBittensor
<1>3. ASSUME NEW c \in Calls, NEW h \in Handles, BittensorSign(c, h) PROVE LimitInv'
  BY <1>3, LimitSignStep DEF BittensorSign
<1>4. ASSUME NEW c \in Calls, BittensorSubmit(c) PROVE LimitInv'
  BY <1>4, LimitSubmitStep DEF BittensorSubmit
<1>5. ASSUME NEW c \in Calls, BittensorAnswer(c) PROVE LimitInv'
  BY <1>5, LimitAnswerStep DEF BittensorAnswer
<1>6. ASSUME NEW h \in Handles, BittensorLands(h) PROVE LimitInv'
  <2> DEFINE tx == issued[h]
  <2>1. PICK t \in taken[h] : Lands(h, t, TRUE, AddStakeSucceeds(t.tx) /\ RemoveStakeSucceeds(t.tx))
    BY <1>6 DEF BittensorLands
  <2>2. SwapBoundOK(tx) /\ StakeBoundOK(tx) /\ family = "bittensor" /\ t.tx = tx
    BY <1>6, TakenIssued DEF BittensorLands, LimitInv
  <2>3. AddStakeSucceeds(tx) /\ RemoveStakeSucceeds(tx) => WithinLimits(tx, level)
    BY <2>2 DEF WithinLimits, SwapBoundOK, AddStakeSucceeds, RemoveStakeSucceeds
  <2> QED BY <2>1, <2>2, <2>3, LimitLandStep
<1> QED BY <1>1, <1>2, <1>3, <1>4, <1>5, <1>6, BittensorIsFree, StakeIsBounded DEF BittensorNext

-----------------------------------------------------------------------------
(* What holds                                                               *)

\* Every state that is reached is one the steps above start from.
THEOREM ChainInvariance == Spec => []IInv
<1>1. IInv /\ [Next]_vars => IInv'
  <2> SUFFICES ASSUME IInv, [Next]_vars PROVE IInv'
    OBVIOUS
  <2>1. CASE Next
    BY <2>1, CommonStep, SolanaStep, TronStep, BittensorStep DEF Next
  <2>2. CASE UNCHANGED vars
    BY <2>2, StillStep DEF vars, storeVars, chainVars
  <2> QED BY <2>1, <2>2
<1> QED BY <1>1, InitHolds, PTL DEF Spec

\* However often, and however many at a time, calls of send_transaction send a handle of
\* Solana, TRON or Bittensor, it is executed once: a second broadcast carries the same
\* blockhash or block reference, or a number that is used up.
THEOREM HandlesPayOnce == Spec => []PaysOnce
<1>1. IInv => PaysOnce
  <2> SUFFICES ASSUME IInv, NEW h \in Handles PROVE Len(landed[h]) <= 1
    BY DEF PaysOnce
  <2>1. CASE landed[h] = <<>>
    BY <2>1
  <2>2. ASSUME NEW l, landed[h] = <<l>> PROVE Len(landed[h]) <= 1
    <3>1. Len(<<l>>) = 1
      OBVIOUS
    <3> QED BY <2>2, <3>1
  <2> QED BY <2>1, <2>2 DEF IInv, LandedOK, Once
<1> QED BY <1>1, ChainInvariance, PTL

\* A handle becomes sent only on the answer of a node that took its transaction, whole and
\* signed by the account it was prepared for.
THEOREM SentIsTaken == Spec => []SentMeansTaken
<1>1. IInv => SentMeansTaken
  BY DEF IInv, HeldOK, SentMeansTaken, Whole
<1> QED BY <1>1, ChainInvariance, PTL

\* Whichever account is paired when it is sent and whichever Ledger signs, what is executed
\* is the account's that the handle was prepared for.
THEOREM ShownAccountPays == Spec => []LandsFromShown
<1>1. IInv => LandsFromShown
  <2> SUFFICES ASSUME IInv, NEW h \in Handles, NEW i \in DOMAIN landed[h]
               PROVE  landed[h][i].by = issued[h].from
    BY DEF LandsFromShown
  <2>1. landed[h] # <<>>
    OBVIOUS
  <2>2. PICK l : landed[h] = <<l>> /\ l.by = issued[h].from
    BY <2>1 DEF IInv, LandedOK, Once
  <2>3. i \in DOMAIN <<l>>
    BY <2>2
  <2>4. <<l>>[i] = l
    BY <2>3
  <2> QED BY <2>2, <2>4
<1> QED BY <1>1, ChainInvariance, PTL

\* A handle of TRON can be previewed and sent only while its transaction is valid, because
\* every encoder ends with an extension as long as a handle lives.
THEOREM TronOffersLiveTransactions == Spec => []OfferedWhileValid
<1>1. IInv => OfferedWhileValid
  <2> SUFFICES ASSUME IInv, NEW h \in Handles, family = "tron", Held(h), ~Expired(h)
               PROVE  now <= issued[h].until
    BY DEF OfferedWhileValid
  <2>1. issued[h].until \in Nat /\ store[h].createdAt + TTL <= issued[h].until
    BY DEF IInv, HeldOK
  <2>2. store[h].createdAt \in Nat /\ now \in Nat
    BY DEF IInv, ChainTypes, Held, HandleRecord
  <2> QED BY <2>1, <2>2, TTLAssumption DEF Expired
<1> QED BY <1>1, ChainInvariance, PTL

\* The bounds that limited transactions carry are those of the price they were prepared at.
THEOREM LimitInvariance == Spec => []LimitInv
<1>1. Init => LimitInv
  BY DEF Init, StoreInit, LimitInv
<1>2. LimitInv /\ IInv /\ [Next]_vars => LimitInv'
  <2> SUFFICES ASSUME LimitInv, IInv, [Next]_vars PROVE LimitInv'
    OBVIOUS
  <2>1. CASE Next
    BY <2>1, LimitCommonStep, LimitSolanaStep, LimitTronStep, LimitBittensorStep DEF Next
  <2>2. CASE UNCHANGED vars
    BY <2>2, LevelStep DEF vars, storeVars, chainVars, LimitInv
  <2> QED BY <2>1, <2>2
<1> QED BY <1>1, <1>2, ChainInvariance, PTL DEF Spec

\* A swap of SunSwap and a limited call of Bittensor take effect within the slippage or the
\* tolerance of the price they were prepared at: rounding gives away less than one unit.
THEOREM LimitsBind == Spec => []LimitsHold
<1>1. ASSUME IInv, LimitInv, NEW h \in Handles, NEW i \in DOMAIN landed[h], landed[h][i].done
      PROVE  /\ issued[h] # None /\ SwapBoundOK(issued[h]) /\ StakeBoundOK(issued[h])
             /\ WithinLimits(issued[h], landed[h][i].level)
             /\ landed[h][i].level \in Levels[family] /\ family \in Families
  <2>1. issued[h] # None
    <3>1. landed[h] # <<>>
      BY <1>1
    <3>2. PICK l : Once(h, l)
      BY <3>1, <1>1 DEF IInv, LandedOK
    <3> QED BY <3>2 DEF Once
  <2> QED BY <1>1, <2>1 DEF LimitInv, IInv, ChainTypes
<1>2. IInv /\ LimitInv => SwapsDeliver
  <2> SUFFICES ASSUME IInv, LimitInv, NEW h \in Handles, NEW i \in DOMAIN landed[h],
                      landed[h][i].done, issued[h].tool = "prepare_sunswap_swap"
               PROVE  LET tx == issued[h]
                          Delivers(l) == CallGetAmountsOut(tx.amount, tx.asked.path, l)
                      IN  10000 * (Delivers(landed[h][i].level) + 1) >
                              Delivers(tx.seen) * (10000 - SlippageBps(tx.asked))
    BY DEF SwapsDeliver
  <2> DEFINE tx == issued[h]
             got == CallGetAmountsOut(tx.amount, tx.asked.path, landed[h][i].level)
             quoted == CallGetAmountsOut(tx.amount, tx.asked.path, tx.seen)
  <2>1. /\ SwapBoundOK(tx) /\ WithinLimits(tx, landed[h][i].level)
        /\ landed[h][i].level \in Levels[family] /\ family \in Families
    BY <1>1
  <2>2. PICK bps : bps = SlippageBps(tx.asked)
    OBVIOUS
  <2>3. /\ family = "tron" /\ tx.amount \in Nat /\ tx.seen \in Levels["tron"]
        /\ bps \in Slippages /\ tx.bound = (quoted * (10000 - bps)) \div 10000
    BY <2>1, <2>2 DEF SwapBoundOK, SwapFloor
  <2>4. got >= tx.bound /\ got \in Nat /\ quoted \in Nat /\ bps \in 0..9999
    BY <2>1, <2>3, SwapGivesSome DEF WithinLimits, Slippages
  <2>5. PICK q : q = quoted
    OBVIOUS
  <2>6. PICK n : n = q * (10000 - bps)
    OBVIOUS
  <2>7. n \in Nat
    <3>1. PICK k : k = 10000 - bps
      OBVIOUS
    <3>2. k \in Nat /\ q \in Nat
      BY <2>4, <2>5, <3>1
    <3>3. q * k \in Nat
      BY <3>2
    <3> QED BY <2>6, <3>1, <3>3
  <2>8. tx.bound = n \div 10000
    BY <2>3, <2>5, <2>6
  <2>9. n < (n \div 10000) * 10000 + 10000 /\ n \div 10000 \in Nat
    BY <2>7, Floor
  <2> HIDE DEF got, quoted
  <2>10. 10000 * (got + 1) > n
    BY <2>4, <2>7, <2>8, <2>9
  <2>11. n = quoted * (10000 - SlippageBps(tx.asked))
    BY <2>2, <2>5, <2>6
  <2> QED BY <2>10, <2>11 DEF got, quoted
<1>3. IInv /\ LimitInv => StakeLimitsHold
  <2> SUFFICES ASSUME IInv, LimitInv, NEW h \in Handles, NEW i \in DOMAIN landed[h],
                      landed[h][i].done
               PROVE  LET tx == issued[h]
                          paid == landed[h][i].level
                          bps == ToleranceBps(tx.asked)
                      IN  /\ tx.tool = "prepare_bittensor_add_stake_limit" =>
                                10000 * paid <= tx.seen * (10000 + bps)
                          /\ tx.tool = "prepare_bittensor_remove_stake_limit" =>
                                10000 * paid > tx.seen * (10000 - bps) - 10000
    BY DEF StakeLimitsHold
  <2> DEFINE tx == issued[h]
             paid == landed[h][i].level
             bps == ToleranceBps(tx.asked)
             seen == tx.seen
  <2>1. /\ StakeBoundOK(tx) /\ WithinLimits(tx, paid) /\ paid \in Nat
    BY <1>1, DeviceAssumption
  <2>2. CASE tx.tool = "prepare_bittensor_add_stake_limit"
    <3>1. /\ seen \in Nat /\ bps \in Nat /\ paid <= (seen * (10000 + bps)) \div 10000
      BY <2>1, <2>2 DEF StakeBoundOK, WithinLimits, BittensorLimited, CeilingPrice
    <3>2. PICK n : n = seen * (10000 + bps)
      OBVIOUS
    <3> HIDE DEF seen, bps, paid
    <3>3. n \in Nat
      BY <3>1, <3>2
    <3>4. (n \div 10000) * 10000 <= n /\ n \div 10000 \in Nat
      BY <3>3, Floor
    <3>5. 10000 * paid <= seen * (10000 + bps)
      BY <2>1, <3>1, <3>2, <3>3, <3>4
    <3> QED BY <2>2, <3>5 DEF seen, bps, paid
  <2>3. CASE tx.tool = "prepare_bittensor_remove_stake_limit"
    <3>1. /\ seen \in Nat /\ bps \in Nat /\ bps <= 10000
          /\ paid >= (seen * (10000 - bps)) \div 10000
      BY <2>1, <2>3 DEF StakeBoundOK, WithinLimits, BittensorLimited, FloorPrice
    <3>2. PICK n : n = seen * (10000 - bps)
      OBVIOUS
    <3> HIDE DEF seen, bps, paid
    <3>3. n \in Nat
      BY <3>1, <3>2
    <3>4. n < (n \div 10000) * 10000 + 10000 /\ n \div 10000 \in Nat
      BY <3>3, Floor
    <3>5. 10000 * paid > seen * (10000 - bps) - 10000
      BY <2>1, <3>1, <3>2, <3>3, <3>4
    <3> QED BY <2>3, <3>5 DEF seen, bps, paid
  <2> QED BY <2>2, <2>3
<1>4. IInv /\ LimitInv => LimitsHold
  BY <1>2, <1>3 DEF LimitsHold
<1> QED BY <1>4, ChainInvariance, LimitInvariance, PTL
=============================================================================
