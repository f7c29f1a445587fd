---------------------------- MODULE ReceiptState ----------------------------
(***************************************************************************)
(* The state objects of receipts (src/state/receipt): one goroutine each,  *)
(* fed by the router through dataC (the account) and internalC (the stake  *)
(* that supports the receipt, and questions).  Its home has one            *)
(* subscription here, the one that the validator's state opens.            *)
(***************************************************************************)
EXTENDS Naturals, Sequences, FiniteSetsExt

CONSTANTS
    Receipts,    \* receipt accounts
    Managers,    \* stakers' manager accounts
    Stake,       \* Managers -> delegated stake
    RQueueCap,   \* capacity of dataC, internalC and of the subscription
    MaxReceiptUpdate  \* bound on the updates of receipts by the router

\* Stake is a number of lamports.
ASSUME ReceiptStateAssumption ==
    (\A m \in Managers : Stake[m] \in Nat) /\ RQueueCap \in Nat

VARIABLES
    rctx,     \* the context of each receipt: "open", "closed"
    rloop,    \* loopInternal of each receipt: "run", "dead"
    rver,     \* (external) version of the account as the router knows it
    rdata,    \* version of in.data
    rdataC,   \* contents of dataC
    rstaker,  \* contents of internalC: managers whose stake is registered
    stakers,  \* in.stakers: the managers known
    registered, \* in.registeredStake
    rsub,     \* the validator's subscription: "none", "asked", "open"
    rstream,  \* contents of its StreamC
    rerr      \* contents of its ErrorC: <<>>, <<"nil">>, <<"full">>

receiptVars == <<rctx, rloop, rver, rdata, rdataC, rstaker, stakers,
                 registered, rsub, rstream, rerr>>

\* CreateReceipt
ReceiptInit ==
    /\ rctx = [r \in Receipts |-> "open"]
    /\ rloop = [r \in Receipts |-> "run"]
    /\ rver = [r \in Receipts |-> 1]
    /\ rdata = [r \in Receipts |-> 1]
    /\ rdataC = [r \in Receipts |-> <<>>]
    /\ rstaker = [r \in Receipts |-> <<>>]
    /\ stakers = [r \in Receipts |-> {}]
    /\ registered = [r \in Receipts |-> 0]
    /\ rsub = [r \in Receipts |-> "none"]
    /\ rstream = [r \in Receipts |-> <<>>]
    /\ rerr = [r \in Receipts |-> <<>>]

\* The updates that receipts had so far.
ReceiptUpdates == MapThenSumSet(LAMBDA q : rver[q] - 1, Receipts)

\* Receipt.Update
ReceiptUpdate(r) ==
    /\ rctx[r] = "open"
    /\ ReceiptUpdates < MaxReceiptUpdate
    /\ Len(rdataC[r]) < RQueueCap
    /\ rver' = [rver EXCEPT ![r] = @ + 1]
    /\ rdataC' = [rdataC EXCEPT ![r] = Append(@, rver'[r])]
    /\ UNCHANGED <<rctx, rloop, rdata, rstaker, stakers, registered, rsub,
                   rstream, rerr>>

\* Receipt.UpdateStaker: the router repeats it for every update of the
\* staker receipt.
UpdateStaker(r, m) ==
    /\ rctx[r] = "open"
    /\ Len(rstaker[r]) < RQueueCap
    /\ rstaker' = [rstaker EXCEPT ![r] = Append(@, m)]
    /\ UNCHANGED <<rctx, rloop, rver, rdata, rdataC, stakers, registered,
                   rsub, rstream, rerr>>

ReceiptClose(r) ==
    /\ rctx[r] = "open"
    /\ rctx' = [rctx EXCEPT ![r] = "closed"]
    /\ UNCHANGED <<rloop, rver, rdata, rdataC, rstaker, stakers, registered,
                   rsub, rstream, rerr>>

\* on_data: Broadcast, with the eviction of a full subscription.
ReceiptOnData(r) ==
    /\ rloop[r] = "run" /\ rdataC[r] # <<>>
    /\ rdata' = [rdata EXCEPT ![r] = Head(rdataC[r])]
    /\ rdataC' = [rdataC EXCEPT ![r] = Tail(@)]
    /\ IF rsub[r] # "open"
       THEN UNCHANGED <<rsub, rstream, rerr>>
       ELSE IF Len(rstream[r]) < RQueueCap
            THEN /\ rstream' = [rstream EXCEPT ![r] = Append(@, rdata'[r])]
                 /\ UNCHANGED <<rsub, rerr>>
            ELSE /\ rerr' = [rerr EXCEPT ![r] = <<"full">>]
                 /\ rsub' = [rsub EXCEPT ![r] = "none"]
                 /\ UNCHANGED rstream
    /\ UNCHANGED <<rctx, rloop, rver, rstaker, stakers, registered>>

\* on_staker
on_staker(r) ==
    /\ rloop[r] = "run" /\ rstaker[r] # <<>>
    /\ LET m == Head(rstaker[r]) IN
       IF m \in stakers[r]
       THEN UNCHANGED <<stakers, registered>>
       ELSE /\ stakers' = [stakers EXCEPT ![r] = @ \cup {m}]
            /\ registered' = [registered EXCEPT ![r] = @ + Stake[m]]
    /\ rstaker' = [rstaker EXCEPT ![r] = Tail(@)]
    /\ UNCHANGED <<rctx, rloop, rver, rdata, rdataC, rsub, rstream, rerr>>

\* receiptHome.Receive
ReceiptReceive(r) ==
    /\ rloop[r] = "run" /\ rsub[r] = "asked"
    /\ rsub' = [rsub EXCEPT ![r] = "open"]
    /\ UNCHANGED <<rctx, rloop, rver, rdata, rdataC, rstaker, stakers,
                   registered, rstream, rerr>>

\* finish and the deferred receiptHome.Close(): a nil error to subscribers.
ReceiptFinish(r) ==
    /\ rloop[r] = "run" /\ rctx[r] = "closed"
    /\ rloop' = [rloop EXCEPT ![r] = "dead"]
    /\ rerr' = [rerr EXCEPT ![r] = IF rsub[r] = "open" THEN <<"nil">> ELSE @]
    /\ UNCHANGED <<rctx, rver, rdata, rdataC, rstaker, stakers, registered,
                   rsub, rstream>>

ReceiptLoop(r) ==
    ReceiptOnData(r) \/ on_staker(r) \/ ReceiptReceive(r) \/ ReceiptFinish(r)

ReceiptNext ==
    \E r \in Receipts :
        \/ ReceiptUpdate(r) \/ ReceiptClose(r) \/ ReceiptLoop(r)
        \/ \E m \in Managers : UpdateStaker(r, m)

ReceiptTypeOK ==
    /\ rctx \in [Receipts -> {"open", "closed"}]
    /\ rloop \in [Receipts -> {"run", "dead"}]
    /\ rdata \in [Receipts -> Nat \ {0}]
    /\ stakers \in [Receipts -> SUBSET Managers]
    /\ rsub \in [Receipts -> {"none", "asked", "open"}]
    /\ \A r \in Receipts : Len(rerr[r]) <= 1 /\ Len(rstream[r]) <= RQueueCap

\* The total stake of a set of managers: one pair for each unit of each.
StakeOf(S) == Cardinality(UNION {{m} \X (1 .. Stake[m]) : m \in S})

\* The stake registered for a receipt is that of the stakers known to it,
\* each counted once however often the router repeats its update.
RegisteredOnce == \A r \in Receipts : registered[r] = StakeOf(stakers[r])
=============================================================================
