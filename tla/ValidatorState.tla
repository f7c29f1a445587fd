--------------------------- MODULE ValidatorState ---------------------------
(***************************************************************************)
(* The state object of a validator (src/state/validator), together with    *)
(* the receipts it holds: one goroutine with two indexes of receipts (by   *)
(* payout and by id) and one goroutine per receipt that relays the         *)
(* receipt's updates and reports its closing.                              *)
(***************************************************************************)
EXTENDS ReceiptState

CONSTANTS
    PayoutOf,    \* Receipts -> payouts: the payout of each receipt
    UpdateCap,   \* capacity of updateReceiptC and of internalC
    MaxStake     \* bound on the stake values of the network

PayoutsOfReceipts == {PayoutOf[r] : r \in Receipts}
None == "none"

ASSUME ValidatorStateAssumption ==
    None \notin Receipts /\ UpdateCap \in Nat /\ MaxStake \in Nat

VARIABLES
    vctx,      \* "open", "closed"
    vloop,     \* loopInternal: "run", "dead"
    vint,      \* internalC: receipts to add, with the data read before
    byPayout,  \* receiptsByPayoutId
    receiptsById, \* the map, as a set of receipts
    holder,    \* receiptHolder.d: version of the data held
    rcancel,   \* receipts whose goroutine was canceled
    ri,        \* where the goroutine of each receipt is
    updateC,   \* updateReceiptC: <<receipt, version>>
    deleteC,   \* deleteReceiptC, capacity 1
    vErrorC,   \* errorC, capacity 1
    stake      \* StakeStatus: activated and total stake

validatorVars == <<vctx, vloop, vint, byPayout, receiptsById, holder, rcancel, ri,
                   updateC, deleteC, vErrorC, stake>>
vdVars == <<receiptVars, validatorVars>>

\* none -> ask (OnData) -> run -> update (blocked on updateC) -> run ...
\* -> del | err -> done
RiStates == {"none", "ask", "wait", "run", "update", "del", "err", "done"}

\* CreateValidator
VdInit ==
    /\ ReceiptInit
    /\ vctx = "open"
    /\ vloop = "run"
    /\ vint = <<>>
    /\ byPayout = [p \in PayoutsOfReceipts |-> None]
    /\ receiptsById = {}
    /\ holder = [r \in Receipts |-> 0]
    /\ rcancel = {}
    /\ ri = [r \in Receipts |-> "none"]
    /\ updateC = <<>>
    /\ deleteC = <<>>
    /\ vErrorC = <<>>
    /\ stake = [activated |-> 0, total |-> 0]

-----------------------------------------------------------------------------
(* The router and the network.                                             *)

\* Validator.UpdateReceipt: r.Data(), then a closure on internalC.  The
\* router calls it once for each receipt object.
UpdateReceipt(r) ==
    /\ vctx = "open" /\ rctx[r] = "open"
    /\ ri[r] = "none" /\ r \notin {vint[i][1] : i \in DOMAIN vint}
    /\ Len(vint) < UpdateCap
    /\ vint' = Append(vint, <<r, rdata[r]>>)
    /\ UNCHANGED <<receiptVars, vctx, vloop, byPayout, receiptsById, holder, rcancel,
                   ri, updateC, deleteC, vErrorC, stake>>

VdClose ==
    /\ vctx = "open"
    /\ vctx' = "closed"
    /\ UNCHANGED <<receiptVars, vloop, vint, byPayout, receiptsById, holder, rcancel,
                   ri, updateC, deleteC, vErrorC, stake>>

\* activatedStakeHome.StreamC and totalStatkeHome.StreamC
OnStake(f, n) ==
    /\ vloop = "run"
    /\ stake' = [stake EXCEPT ![f] = n]
    /\ UNCHANGED <<receiptVars, vctx, vloop, vint, byPayout, receiptsById, holder,
                   rcancel, ri, updateC, deleteC, vErrorC>>

\* A stake subscription fails.
StakeError ==
    /\ vloop = "run"
    /\ vloop' = "dead" /\ vctx' = "closed"
    /\ UNCHANGED <<receiptVars, vint, byPayout, receiptsById, holder, rcancel, ri,
                   updateC, deleteC, vErrorC, stake>>

\* StakeStatus.Share as a fraction: zero without a total.
Share(s) == IF s.total = 0 THEN <<0, 1>> ELSE <<s.activated, s.total>>

-----------------------------------------------------------------------------
(* loopInternal.                                                           *)

\* on_receipt: a second receipt of the same payout is ignored.
VdOnReceipt ==
    /\ vloop = "run" /\ vint # <<>>
    /\ vint' = Tail(vint)
    /\ LET r == Head(vint)[1] IN
       IF byPayout[PayoutOf[r]] # None
       THEN UNCHANGED <<byPayout, receiptsById, holder, ri>>
       ELSE /\ byPayout' = [byPayout EXCEPT ![PayoutOf[r]] = r]
            /\ receiptsById' = receiptsById \cup {r}
            /\ holder' = [holder EXCEPT ![r] = Head(vint)[2]]
            /\ ri' = [ri EXCEPT ![r] = "ask"]
    /\ UNCHANGED <<receiptVars, vctx, vloop, rcancel, updateC, deleteC,
                   vErrorC, stake>>

\* on_receipt_update
on_receipt_update ==
    /\ vloop = "run" /\ updateC # <<>>
    /\ updateC' = Tail(updateC)
    /\ LET p == PayoutOf[Head(updateC)[1]] IN
       holder' = IF byPayout[p] = None THEN holder
                 ELSE [holder EXCEPT ![byPayout[p]] = Head(updateC)[2]]
    /\ UNCHANGED <<receiptVars, vctx, vloop, vint, byPayout, receiptsById, rcancel,
                   ri, deleteC, vErrorC, stake>>

\* Mutant: only the index by payout is cleared.
OnDeleteByPayout ==
    /\ vloop = "run" /\ deleteC # <<>>
    /\ deleteC' = Tail(deleteC)
    /\ byPayout' = [byPayout EXCEPT ![PayoutOf[Head(deleteC)]] = None]
    /\ rcancel' = rcancel \cup {Head(deleteC)}
    /\ UNCHANGED <<receiptVars, vctx, vloop, vint, receiptsById, holder, ri, updateC,
                   vErrorC, stake>>

\* <-deleteReceiptC
OnDelete ==
    /\ vloop = "run" /\ deleteC # <<>>
    /\ deleteC' = Tail(deleteC)
    /\ LET r == Head(deleteC)
           h == byPayout[PayoutOf[r]] IN
       /\ byPayout' = [byPayout EXCEPT ![PayoutOf[r]] = None]
       /\ rcancel' = IF h = None THEN rcancel ELSE rcancel \cup {h}
       /\ receiptsById' = receiptsById \ {r}
    /\ UNCHANGED <<receiptVars, vctx, vloop, vint, holder, ri, updateC,
                   vErrorC, stake>>

\* <-errorC or <-doneC; the deferred cancel ends the context of all.
VdFinish ==
    /\ vloop = "run"
    /\ vErrorC # <<>> \/ vctx = "closed"
    /\ vloop' = "dead" /\ vctx' = "closed"
    /\ UNCHANGED <<receiptVars, vint, byPayout, receiptsById, holder, rcancel, ri,
                   updateC, deleteC, vErrorC, stake>>

-----------------------------------------------------------------------------
(* receiptInternal.loop                                                    *)

Sets(r, s) == ri' = [ri EXCEPT ![r] = s]

\* sub := r.OnData(): a request that is answered by the receipt's loop; a
\* receipt that has ended in between never answers.
RiAsk(r) ==
    /\ ri[r] = "ask"
    /\ rsub' = [rsub EXCEPT ![r] = "asked"]
    /\ Sets(r, "wait")
    /\ UNCHANGED <<rctx, rloop, rver, rdata, rdataC, rstaker, stakers,
                   registered, rstream, rerr, vctx, vloop, vint, byPayout,
                   receiptsById, holder, rcancel, updateC, deleteC, vErrorC, stake>>

RiAnswered(r) ==
    /\ ri[r] = "wait" /\ rsub[r] = "open"
    /\ Sets(r, "run")
    /\ UNCHANGED <<receiptVars, vctx, vloop, vint, byPayout, receiptsById, holder,
                   rcancel, updateC, deleteC, vErrorC, stake>>

\* <-sub.StreamC, then a send on updateC that nothing interrupts
RiUpdate(r) ==
    /\ ri[r] = "run" /\ rstream[r] # <<>>
    /\ Len(updateC) < UpdateCap
    /\ updateC' = Append(updateC, <<r, Head(rstream[r])>>)
    /\ rstream' = [rstream EXCEPT ![r] = Tail(@)]
    /\ UNCHANGED <<rctx, rloop, rver, rdata, rdataC, rstaker, stakers,
                   registered, rsub, rerr, vctx, vloop, vint, byPayout, receiptsById,
                   holder, rcancel, ri, deleteC, vErrorC, stake>>

\* Mutant: any end of the subscription is taken for the receipt's closing.
RiErrorIsClose(r) ==
    /\ ri[r] = "run"
    /\ rerr[r] # <<>> \/ r \in rcancel \/ vctx = "closed"
    /\ Sets(r, "del")
    /\ UNCHANGED <<receiptVars, vctx, vloop, vint, byPayout, receiptsById, holder,
                   rcancel, updateC, deleteC, vErrorC, stake>>

\* <-sub.ErrorC or <-doneC: nil stands for the receipt's closing.
RiBreak(r) ==
    /\ ri[r] = "run"
    /\ \/ rerr[r] = <<"full">> /\ Sets(r, "err")
       \/ rerr[r] = <<"nil">> /\ Sets(r, "del")
       \/ (r \in rcancel \/ vctx = "closed") /\ Sets(r, "del")
    /\ UNCHANGED <<receiptVars, vctx, vloop, vint, byPayout, receiptsById, holder,
                   rcancel, updateC, deleteC, vErrorC, stake>>

\* ri.deleteC <- pair, ri.errorC <- err: blocking sends
RiReport(r) ==
    /\ \/ /\ ri[r] = "del" /\ deleteC = <<>>
          /\ deleteC' = <<r>>
          /\ UNCHANGED vErrorC
       \/ /\ ri[r] = "err" /\ vErrorC = <<>>
          /\ vErrorC' = <<r>>
          /\ UNCHANGED deleteC
    /\ Sets(r, "done")
    /\ UNCHANGED <<receiptVars, vctx, vloop, vint, byPayout, receiptsById, holder,
                   rcancel, updateC, stake>>

-----------------------------------------------------------------------------
(* Look-ups, run as closures by the loop.                                  *)

ReceiptByPayoutId(p) == IF byPayout[p] = None THEN 0 ELSE holder[byPayout[p]]
VdReceiptById(r) == IF r \in receiptsById THEN holder[r] ELSE 0
AllReceipt == {byPayout[p] : p \in PayoutsOfReceipts} \ {None}

ValidatorLoop ==
    VdOnReceipt \/ on_receipt_update \/ OnDelete \/ VdFinish

RiLoop(r) == RiAsk(r) \/ RiAnswered(r) \/ RiUpdate(r) \/ RiBreak(r) \/ RiReport(r)

VdNext ==
    \/ ReceiptNext /\ UNCHANGED validatorVars
    \/ \E r \in Receipts : UpdateReceipt(r) \/ RiLoop(r)
    \/ VdClose \/ StakeError
    \/ \E f \in {"activated", "total"}, n \in 0 .. MaxStake : OnStake(f, n)
    \/ ValidatorLoop

VdSpec == VdInit /\ [][VdNext]_vdVars

-----------------------------------------------------------------------------
VdTypeOK ==
    /\ ReceiptTypeOK
    /\ vctx \in {"open", "closed"} /\ vloop \in {"run", "dead"}
    /\ byPayout \in [PayoutsOfReceipts -> Receipts \cup {None}]
    /\ receiptsById \subseteq Receipts
    /\ ri \in [Receipts -> RiStates]
    /\ Len(updateC) <= UpdateCap /\ Len(deleteC) <= 1 /\ Len(vErrorC) <= 1
    /\ stake \in [activated : 0 .. MaxStake, total : 0 .. MaxStake]

\* The two indexes hold the same receipts, and a look-up by either gives the
\* same data: a delete that comes late, when another receipt of the payout
\* may have taken its place, never splits them.
IndexesAgree ==
    /\ AllReceipt = receiptsById
    /\ \A r \in receiptsById : ReceiptByPayoutId(PayoutOf[r]) = VdReceiptById(r)

\* While the validator is open, a receipt leaves the index only after its own
\* object was closed: neither an evicted subscription nor the closing of
\* another receipt removes it.
OnlyClosedLeave ==
    [][\A r \in receiptsById :
          r \notin receiptsById' => rctx[r] = "closed" \/ vctx = "closed"]_vdVars
=============================================================================
