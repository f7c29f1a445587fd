--------------------------- MODULE ServiceProofs ---------------------------
(***************************************************************************)
(* Proofs about the payout's state object and the services, for every      *)
(* value of their constants: PayoutSteady, PublishedRight and              *)
(* PayoutsFiledOnce.                                                       *)
(***************************************************************************)
EXTENDS Services, SequenceFacts, TLAPS

-----------------------------------------------------------------------------
(* PayoutState.                                                            *)

\* What may lie in internalC.
Closures ==
    [op : {"bids"}, arg : BidLists]
      \cup [op : {"receipt", "delete"}, arg : Receipts]
      \cup [op : Calls, arg : {None}]

\* The shape of bidInfo.
InfoShape ==
    bi = [final |-> bi.final, closed |-> bi.closed, list |-> bi.list,
          search |-> bi.search]

\* The channels hold what the senders put there, and loopInternal is blocked
\* in Receipt() only while receipts are left to send.
PyTyped ==
    /\ dataC \in Seq(BOOLEAN) /\ internalC \in Seq(Closures)
    /\ InfoShape
    /\ loop = "send" => left > 0

PyInv == PyTypeOK /\ PyTyped /\ SubscribersCurrent

\* The validators of the receipts are finitely many.
LEMMA ValidatorsFinite ==
  /\ Cardinality(Validators) \in Nat
  /\ \A S \in SUBSET Validators :
        Cardinality(S) \in Nat /\ Cardinality(S) <= Cardinality(Validators)
<1> DEFINE f == [r \in Receipts |-> ValidatorOf[r]]
<1>0. f \in Surjection(Receipts, Validators)
  BY DEF Surjection, Validators
<1>1. IsFiniteSet(Validators)
  BY <1>0, PayoutStateAssumption, FS_Surjection
<1>2. QED
  BY <1>1, FS_CardinalityType, FS_Subset

\* A closure that is sent.
LEMMA PyEnqueue ==
  ASSUME PyInv, NEW f \in Closures, Enqueue(f)
  PROVE  internalC' \in Seq(Closures) /\ Len(internalC') <= QueueCap
<1>1. internalC \in Seq(Closures) /\ Len(internalC) < QueueCap /\ internalC' = Append(internalC, f)
  BY DEF PyInv, PyTyped, Enqueue, Room
<1>2. internalC' \in Seq(Closures) /\ Len(internalC') = Len(internalC) + 1 /\ Len(internalC) \in Nat
  BY <1>1, AppendTyped
<1>3. QED
  BY <1>1, <1>2, PayoutStateAssumption

\* The router and the receipts.
LEMMA PyRouter ==
  ASSUME PyInv,
         \/ \E b \in BOOLEAN : Update(b)
         \/ \E bl \in BidLists : UpdateBidList(bl)
         \/ \E r \in Receipts : UpdateReceipt(r) \/ ReceiptCloses(r) \/ receipt_delete(r)
         \/ UpdateReceiptCanceled
         \/ Close
  PROVE  PyInv'
<1> USE DEF PyInv, PyTyped, PyTypeOK, InfoShape, SubscribersCurrent
<1>1. ASSUME NEW b \in BOOLEAN, Update(b) PROVE PyInv'
  <2>1. dataC \in Seq(BOOLEAN) /\ dataC' = Append(dataC, b) /\ Len(dataC) < QueueCap
    BY <1>1 DEF Update
  <2>2. dataC' \in Seq(BOOLEAN) /\ Len(dataC') <= QueueCap
    BY <2>1, AppendTyped, PayoutStateAssumption
  <2>3. QED
    BY <1>1, <2>2 DEF Update
<1>2. ASSUME NEW bl \in BidLists, UpdateBidList(bl) PROVE PyInv'
  <2>1. [op |-> "bids", arg |-> bl] \in Closures
    BY DEF Closures
  <2>2. internalC' \in Seq(Closures) /\ Len(internalC') <= QueueCap
    BY <1>2, <2>1, PyEnqueue DEF UpdateBidList
  <2>3. QED
    BY <1>2, <2>2 DEF UpdateBidList
<1>3. ASSUME NEW r \in Receipts, UpdateReceipt(r) PROVE PyInv'
  <2>1. [op |-> "receipt", arg |-> r] \in Closures
    BY DEF Closures
  <2>2. internalC' \in Seq(Closures) /\ Len(internalC') <= QueueCap
    BY <1>3, <2>1, PyEnqueue DEF UpdateReceipt
  <2>3. QED
    BY <1>3, <2>2 DEF UpdateReceipt
<1>4. ASSUME NEW r \in Receipts, ReceiptCloses(r) PROVE PyInv'
  BY <1>4 DEF ReceiptCloses
<1>5. ASSUME NEW r \in Receipts, receipt_delete(r) PROVE PyInv'
  <2>1. [op |-> "delete", arg |-> r] \in Closures
    BY DEF Closures
  <2>2. internalC' \in Seq(Closures) /\ Len(internalC') <= QueueCap
    BY <1>5, <2>1, PyEnqueue DEF receipt_delete
  <2>3. QED
    BY <1>5, <2>2 DEF receipt_delete
<1>6. CASE UpdateReceiptCanceled
  BY <1>6 DEF UpdateReceiptCanceled
<1>7. CASE Close
  BY <1>7 DEF Close
<1>8. QED
  BY <1>1, <1>2, <1>3, <1>4, <1>5, <1>6, <1>7

\* The callers.
LEMMA PyCallers ==
  ASSUME PyInv, (\E op \in Calls : Ask(op)) \/ Put \/ Canceled \/ ReadOne
  PROVE  PyInv'
<1> USE DEF PyInv, PyTyped, PyTypeOK, InfoShape, SubscribersCurrent
<1>1. ASSUME NEW op \in Calls, Ask(op) PROVE PyInv'
  <2>1. caller' \in CallStates
    BY <1>1 DEF Ask, CallStates, At
  <2>2. QED
    BY <1>1, <2>1 DEF Ask
<1>2. CASE Put
  <2>1. caller.op \in Calls
    BY <1>2 DEF Put, CallStates, At, Idle
  <2>2. [op |-> caller.op, arg |-> None] \in Closures
    BY <2>1 DEF Closures
  <2>3. internalC' \in Seq(Closures) /\ Len(internalC') <= QueueCap
    BY <1>2, <2>2, PyEnqueue DEF Put
  <2>4. caller' \in CallStates
    BY <1>2, <2>1 DEF Put, CallStates, At
  <2>5. QED
    BY <1>2, <2>3, <2>4 DEF Put
<1>3. CASE Canceled
  BY <1>3 DEF Canceled, CallStates
<1>4. CASE ReadOne
  BY <1>4 DEF ReadOne, CallStates
<1>5. QED
  BY <1>1, <1>2, <1>3, <1>4

\* What bid_status reports is never the zero status.
LEMMA StatusReported ==
  ASSUME NEW b, b.final \in BOOLEAN, b.closed \in BOOLEAN
  PROVE  /\ BidStatusOf(b) # NoStatus
         /\ Stage(BidStatusOf(b)) = IF b.closed THEN 3 ELSE IF b.final THEN 2 ELSE 1
<1>1. CASE b.closed
  <2>1. BidStatusOf(b) = [bid |-> <<>>, final |-> TRUE, open |-> FALSE]
    BY <1>1 DEF BidStatusOf
  <2>2. QED
    BY <1>1, <2>1 DEF NoStatus, Stage
<1>2. CASE ~b.closed
  <2>1. BidStatusOf(b) = [bid |-> [i \in DOMAIN b.list |-> b.list[i].val],
                          final |-> b.final, open |-> TRUE]
    BY <1>2 DEF BidStatusOf
  <2>2. QED
    BY <1>2, <2>1 DEF NoStatus, Stage
<1>3. QED
  BY <1>1, <1>2

\* The status reported by the zero status and by bidInfo.
LEMMA StageOfLast ==
  ASSUME PyInv
  PROVE  /\ Stage(last) \in 0 .. 3
         /\ bi.final \in BOOLEAN /\ bi.closed \in BOOLEAN
         /\ ~bi.final /\ ~bi.closed => Stage(last) <= 1
<1>1. bi.final \in BOOLEAN /\ bi.closed \in BOOLEAN
  BY DEF PyInv, PyTypeOK
<1>2. CASE last = NoStatus
  <2>1. Stage(last) = 0
    BY <1>2 DEF Stage, NoStatus
  <2>2. QED
    BY <1>1, <2>1
<1>3. CASE last # NoStatus
  <2>1. last = BidStatusOf(bi)
    BY <1>3 DEF PyInv, SubscribersCurrent
  <2>2. Stage(last) = IF bi.closed THEN 3 ELSE IF bi.final THEN 2 ELSE 1
    BY <1>1, <2>1, StatusReported
  <2>3. QED
    BY <1>1, <2>2
<1>4. QED
  BY <1>2, <1>3

\* close_bid_list reports the last stage.
LEMMA PyCloses ==
  ASSUME PyInv, close_bid_list
  PROVE  /\ InfoShape' /\ bi'.final \in BOOLEAN /\ bi'.closed \in BOOLEAN
         /\ SubscribersCurrent' /\ Stage(last') >= Stage(last)
<1>1. bi.final \in BOOLEAN /\ bi.closed \in BOOLEAN /\ InfoShape
  BY DEF PyInv, PyTypeOK, PyTyped
<1>2. /\ bi' = [bi EXCEPT !.closed = TRUE] /\ last' = BidStatusOf(bi') /\ told' = NoStatus
  BY DEF close_bid_list, BroadcastBids
<1>3. /\ bi'.final = bi.final /\ bi'.closed = TRUE /\ InfoShape'
  BY <1>1, <1>2 DEF InfoShape
<1>4. Stage(last') = 3
  <2>1. PICK b : b = bi'
    OBVIOUS
  <2>2. b.final \in BOOLEAN /\ b.closed \in BOOLEAN /\ b.closed = TRUE
    BY <1>1, <1>3, <2>1
  <2>3. Stage(BidStatusOf(b)) = IF b.closed THEN 3 ELSE IF b.final THEN 2 ELSE 1
    BY <2>2, StatusReported
  <2>4. Stage(BidStatusOf(b)) = 3
    BY <2>2, <2>3
  <2>5. QED
    BY <1>2, <2>1, <2>4
<1>5. Stage(last) \in 0 .. 3
  BY StageOfLast
<1>6. QED
  BY <1>1, <1>2, <1>3, <1>4, <1>5 DEF SubscribersCurrent

\* on_bid_list takes a list only before the final one.
LEMMA PyTakesList ==
  ASSUME PyInv, NEW bl \in BidLists, on_bid_list(bl)
  PROVE  /\ InfoShape' /\ bi'.final \in BOOLEAN /\ bi'.closed \in BOOLEAN
         /\ SubscribersCurrent' /\ Stage(last') >= Stage(last)
<1>1. /\ bi.final \in BOOLEAN /\ bi.closed \in BOOLEAN /\ InfoShape
      /\ SubscribersCurrent /\ bl.final \in BOOLEAN
  BY PayoutStateAssumption DEF PyInv, PyTypeOK, PyTyped
<1>2. Stage(last) \in 0 .. 3 /\ (~bi.final /\ ~bi.closed => Stage(last) <= 1)
  BY StageOfLast
<1>3. CASE bi.final
  <2>1. bi' = bi /\ last' = last /\ told' = told
    BY <1>3 DEF on_bid_list
  <2>2. QED
    BY <1>1, <1>2, <2>1 DEF InfoShape, SubscribersCurrent
<1>4. CASE ~bi.final
  <2>1. \E l, s : bi' = [bi EXCEPT !.final = bl.final, !.list = l, !.search = s]
    BY <1>4 DEF on_bid_list
  <2>2. last' = BidStatusOf(bi') /\ told' = NoStatus
    BY <1>4 DEF on_bid_list, BroadcastBids
  <2>3. InfoShape' /\ bi'.final = bl.final /\ bi'.closed = bi.closed
    BY <1>1, <2>1 DEF InfoShape
  <2>4. Stage(last') \in 1 .. 3 /\ (bi.closed => Stage(last') = 3)
    BY <1>1, <2>2, <2>3, StatusReported
  <2>5. Stage(last') >= Stage(last)
    BY <1>1, <1>2, <1>4, <2>4
  <2>6. QED
    BY <1>1, <2>2, <2>3, <2>5 DEF SubscribersCurrent
<1>5. QED
  BY <1>1, <1>3, <1>4

\* The loop.
LEMMA PyLoop ==
  ASSUME PyInv, on_data \/ RunClosure \/ SendOne \/ Finish
  PROVE  PyInv'
<1>0. /\ PyTypeOK /\ PyTyped /\ SubscribersCurrent
  BY DEF PyInv
<1>1. CASE on_data
  <2>1. /\ Tail(dataC) \in Seq(BOOLEAN) /\ Len(Tail(dataC)) <= QueueCap
        /\ dataC' = Tail(dataC)
    <3>1. dataC \in Seq(BOOLEAN) /\ dataC # <<>> /\ Len(dataC) <= QueueCap /\ dataC' = Tail(dataC)
      BY <1>0, <1>1 DEF on_data, PyTyped, PyTypeOK
    <3>2. QED
      BY <3>1, TailTyped, PayoutStateAssumption
  <2>2. /\ InfoShape' /\ bi'.final \in BOOLEAN /\ bi'.closed \in BOOLEAN
        /\ SubscribersCurrent'
    <3>1. CASE Head(dataC)
      BY <1>1, <3>1, PyCloses DEF on_data
    <3>2. CASE ~Head(dataC)
      BY <1>0, <1>1, <3>2 DEF on_data, PyTypeOK, PyTyped, InfoShape, SubscribersCurrent
    <3>3. QED
      BY <3>1, <3>2
  <2>3. QED
    BY <1>0, <1>1, <2>1, <2>2 DEF on_data, PyInv, PyTypeOK, PyTyped
<1>2. CASE RunClosure
  <2>1. PICK f : f = Head(internalC)
    OBVIOUS
  <2>2. /\ internalC \in Seq(Closures) /\ internalC # <<>> /\ Len(internalC) <= QueueCap
        /\ internalC' = Tail(internalC) /\ loop = "run"
        /\ UNCHANGED <<ctx, dataC, ropen, updates, ansC>>
    BY <1>0, <1>2 DEF RunClosure, PyTyped, PyTypeOK
  <2>3. f \in Closures /\ internalC' \in Seq(Closures) /\ Len(internalC') <= QueueCap
    BY <2>1, <2>2, TailTyped, PayoutStateAssumption
  <2>4. SUFFICES /\ bi'.final \in BOOLEAN /\ bi'.closed \in BOOLEAN /\ InfoShape'
                 /\ SubscribersCurrent'
                 /\ receipts' \in [Validators -> Receipts \cup {None}]
                 /\ deleters' \subseteq Receipts
                 /\ rt' \in Receipts \cup {"idle"}
                 /\ caller' \in CallStates
                 /\ left' \in 0 .. Cardinality(Validators)
                 /\ loop' \in {"run", "send"}
                 /\ loop' = "send" => left' > 0
    BY <1>0, <2>2, <2>3 DEF PyInv, PyTypeOK, PyTyped
  <2>5. ASSUME bi' = bi, last' = last, told' \in {told, NoStatus, BidStatusOf(bi)}
        PROVE  bi'.final \in BOOLEAN /\ bi'.closed \in BOOLEAN /\ InfoShape' /\ SubscribersCurrent'
    BY <1>0, <2>5 DEF PyTypeOK, PyTyped, InfoShape, SubscribersCurrent
  <2>6. CASE /\ f.op = "bids" /\ on_bid_list(f.arg)
             /\ UNCHANGED <<receipts, deleters, rt, caller, loop, left>>
    <3>1. f.arg \in BidLists
      BY <2>3, <2>6 DEF Closures, Calls
    <3>2. /\ InfoShape' /\ bi'.final \in BOOLEAN /\ bi'.closed \in BOOLEAN
          /\ SubscribersCurrent'
      BY <2>6, <3>1, PyTakesList
    <3>3. QED
      BY <1>0, <2>2, <2>6, <3>2 DEF PyTypeOK
  <2>7. CASE /\ f.op = "receipt" /\ on_receipt(f.arg)
             /\ rt' = IF rt = f.arg THEN "idle" ELSE rt
             /\ UNCHANGED <<bi, book, last, caller, told, loop, left>>
    <3>1. f.arg \in Receipts
      BY <2>3, <2>7 DEF Closures, Calls
    <3>2. receipts' \in [Validators -> Receipts \cup {None}] /\ deleters' \subseteq Receipts
      BY <1>0, <2>7, <3>1 DEF on_receipt, PyTypeOK
    <3>3. QED
      BY <1>0, <2>2, <2>5, <2>7, <3>2 DEF PyTypeOK
  <2>8. CASE /\ f.op \in {"delete", "CloseSignal"}
             /\ UNCHANGED <<bi, book, last, receipts, deleters, rt, caller, told, loop, left>>
    BY <1>0, <2>2, <2>5, <2>8 DEF PyTypeOK
  <2>9. CASE /\ f.op = "Data"
             /\ caller' = IF caller = At("wait", "Data") THEN Idle ELSE caller
             /\ UNCHANGED <<bi, book, last, receipts, deleters, rt, told, loop, left>>
    BY <1>0, <2>2, <2>5, <2>9 DEF PyTypeOK, CallStates
  <2>10. CASE /\ f.op = "Receipt"
              /\ caller' = IF caller = At("wait", "Receipt")
                           THEN At("read", "Receipt") ELSE caller
              /\ left' = Cardinality({v \in Validators : receipts[v] # None})
              /\ loop' = IF left' = 0 THEN "run" ELSE "send"
              /\ UNCHANGED <<bi, book, last, receipts, deleters, rt, told>>
    <3>1. left' \in 0 .. Cardinality(Validators)
      BY <2>10, ValidatorsFinite
    <3>2. QED
      BY <1>0, <2>2, <2>5, <2>10, <3>1, ValidatorsFinite DEF PyTypeOK, CallStates
  <2>11. CASE /\ f.op = "BidStatus" /\ AnswerBidStatus
              /\ UNCHANGED <<bi, book, last, receipts, deleters, rt, loop, left>>
    <3>1. told' \in {told, NoStatus, BidStatusOf(bi)} /\ caller' \in CallStates
      BY <1>0, <2>11 DEF AnswerBidStatus, PyTypeOK, CallStates
    <3>2. QED
      BY <1>0, <2>2, <2>5, <2>11, <3>1 DEF PyTypeOK
  <2>12. QED
    BY <1>2, <2>1, <2>6, <2>7, <2>8, <2>9, <2>10, <2>11 DEF RunClosure
<1>3. CASE SendOne
  <2>1. left > 0 /\ left \in 0 .. Cardinality(Validators) /\ ansC \in 0 .. 1
    BY <1>0, <1>3 DEF SendOne, PyTypeOK, PyTyped
  <2>2. left' \in 0 .. Cardinality(Validators) /\ ansC' \in 0 .. 1
    BY <1>3, <2>1, ValidatorsFinite DEF SendOne
  <2>3. QED
    BY <1>0, <1>3, <2>2, ValidatorsFinite
       DEF SendOne, PyInv, PyTypeOK, PyTyped, InfoShape, SubscribersCurrent
<1>4. CASE Finish
  BY <1>0, <1>4 DEF Finish, PyInv, PyTypeOK, PyTyped, InfoShape, SubscribersCurrent, CallStates
<1>5. QED
  BY <1>1, <1>2, <1>3, <1>4

LEMMA PyInitial == PyInit => PyInv
<1> SUFFICES ASSUME PyInit PROVE PyInv
  OBVIOUS
<1>1. /\ dataC = <<>> /\ internalC = <<>> /\ last = NoStatus /\ loop = "run" /\ ctx = "open"
      /\ deleters = {} /\ rt = "idle" /\ caller = Idle /\ told = NoStatus /\ left = 0 /\ ansC = 0
      /\ bi = [final |-> FALSE, closed |-> FALSE, list |-> <<>>,
               search |-> [u \in Users |-> NoBid]]
      /\ receipts = [v \in Validators |-> None]
  BY DEF PyInit
<1>2. dataC \in Seq(BOOLEAN) /\ internalC \in Seq(Closures) /\ Len(dataC) = 0 /\ Len(internalC) = 0
  BY <1>1
<1>3. QED
  BY <1>1, <1>2, ValidatorsFinite, PayoutStateAssumption
     DEF PyInv, PyTypeOK, PyTyped, InfoShape, SubscribersCurrent, CallStates

LEMMA PyStep == ASSUME PyInv, [PyNext]_payoutVars PROVE PyInv'
<1>1. CASE PyNext
  BY <1>1, PyRouter, PyCallers, PyLoop DEF PyNext
<1>2. CASE UNCHANGED payoutVars
  BY <1>2 DEF payoutVars, PyInv, PyTypeOK, PyTyped, InfoShape, SubscribersCurrent
<1>3. QED
  BY <1>1, <1>2

\* The inductive invariant of the payout's state object.
THEOREM PyInvariance == PySpec => []PyInv
<1>1. PyInv /\ [PyNext]_payoutVars => PyInv'
  BY PyStep
<1>2. QED
  BY PyInitial, <1>1, PTL DEF PySpec

\* A step that leaves the bids and the receipts alone says nothing new.
LEMMA PySays ==
  ASSUME PyInv, PyNext
  PROVE  /\ Stage(last') >= Stage(last)
         /\ \A v \in Validators : receipts[v] # None => receipts'[v] = receipts[v]
<1>0. Stage(last) \in 0 .. 3
  BY StageOfLast
<1>1. CASE last' = last /\ receipts' = receipts
  BY <1>0, <1>1
<1>2. CASE on_data
  <2>1. receipts' = receipts
    BY <1>2 DEF on_data
  <2>2. CASE Head(dataC)
    BY <1>2, <2>1, <2>2, PyCloses DEF on_data
  <2>3. CASE ~Head(dataC)
    <3>1. last' = last
      BY <1>2, <2>3 DEF on_data
    <3>2. QED
      BY <1>1, <2>1, <3>1
  <2>4. QED
    BY <2>2, <2>3
<1>3. CASE RunClosure
  <2>1. PICK f : f = Head(internalC)
    OBVIOUS
  <2>2. f \in Closures
    <3>1. internalC \in Seq(Closures) /\ internalC # <<>>
      BY <1>3 DEF RunClosure, PyInv, PyTyped
    <3>2. QED
      BY <2>1, <3>1, TailTyped
  <2>3. CASE f.op = "bids" /\ on_bid_list(f.arg) /\ receipts' = receipts
    <3>1. f.arg \in BidLists
      BY <2>2, <2>3 DEF Closures, Calls
    <3>2. QED
      BY <2>3, <3>1, PyTakesList
  <2>4. CASE f.op = "receipt" /\ on_receipt(f.arg) /\ last' = last
    <3>1. f.arg \in Receipts /\ receipts \in [Validators -> Receipts \cup {None}]
      BY <2>2, <2>4 DEF Closures, Calls, PyInv, PyTypeOK
    <3>2. \A v \in Validators : receipts[v] # None => receipts'[v] = receipts[v]
      BY <2>4, <3>1 DEF on_receipt
    <3>3. QED
      BY <1>0, <2>4, <3>2
  <2>5. QED
    BY <1>1, <1>3, <2>1, <2>3, <2>4 DEF RunClosure
<1>4. QED
  <2>1. ASSUME \E b \in BOOLEAN : Update(b) PROVE last' = last /\ receipts' = receipts
    BY <2>1 DEF Update
  <2>2. ASSUME \E bl \in BidLists : UpdateBidList(bl) PROVE last' = last /\ receipts' = receipts
    BY <2>2 DEF UpdateBidList
  <2>3. ASSUME \E r \in Receipts : UpdateReceipt(r) \/ ReceiptCloses(r) \/ receipt_delete(r)
        PROVE  last' = last /\ receipts' = receipts
    BY <2>3 DEF UpdateReceipt, ReceiptCloses, receipt_delete
  <2>4. ASSUME UpdateReceiptCanceled \/ Close \/ (\E op \in Calls : Ask(op)) \/ Put \/ Canceled \/ ReadOne
        PROVE  last' = last /\ receipts' = receipts
    BY <2>4 DEF UpdateReceiptCanceled, Close, Ask, Put, Canceled, ReadOne
  <2>5. ASSUME SendOne \/ Finish PROVE last' = last /\ receipts' = receipts
    BY <2>5 DEF SendOne, Finish
  <2>6. QED
    BY <1>1, <1>2, <1>3, <2>1, <2>2, <2>3, <2>4, <2>5 DEF PyNext

\* What a payout has said stays said (on_bid_list, close_bid_list,
\* on_receipt): for every queue, every set of bid lists and receipts the
\* status of the bids only advances and a validator's receipt is not replaced.
THEOREM PayoutIsSteady == PySpec => PayoutSteady
<1>1. PyInv /\ [PyNext]_payoutVars =>
        /\ [Stage(last') >= Stage(last)]_payoutVars
        /\ [\A v \in Validators : receipts[v] # None => receipts'[v] = receipts[v]]_payoutVars
  BY PySays
<1>2. QED
  BY PyInvariance, <1>1, PTL DEF PySpec, PayoutSteady, StatusAdvances, ReceiptsStable

-----------------------------------------------------------------------------
(* SlotHome.                                                               *)

\* What waits in the stream are slots that have passed.
ShPassed ==
    /\ shstream \in Seq(Nat)
    /\ \A i \in 1 .. Len(shstream) : shstream[i] <= shtip

ShInv == ShTypeOK /\ ShPassed

\* A slot that has passed may be broadcast.
LEMMA ShSends ==
  ASSUME ShInv, NEW s \in 0 .. shtip, sendBroadcat(s)
  PROVE  shslot' \in 0 .. ShMaxSlot /\ shtop' \in 0 .. shtip
  BY SlotHomeAssumption DEF ShInv, ShTypeOK, sendBroadcat

LEMMA ShStep == ASSUME ShInv, [ShNext]_slotVars PROVE ShInv'
<1>0. /\ shstream \in Seq(Nat) /\ Len(shstream) \in Nat /\ shtip \in Nat
      /\ ShMaxSlot \in Nat /\ ShLag \in Nat /\ ShStreamCap \in Nat
      /\ Finalized \in 0 .. shtip
  BY SlotHomeAssumption, LenProperties DEF ShInv, ShPassed, ShTypeOK, Finalized
<1>1. CASE ShTip
  <2>1. CASE shstream' = shstream
    BY <1>0, <1>1, <2>1 DEF ShTip, ShInv, ShTypeOK, ShPassed
  <2>2. CASE shstream' = Append(shstream, shtip') /\ Len(shstream) < ShStreamCap
    <3>1. PICK t : t = shtip + 1
      OBVIOUS
    <3>2. t \in Nat /\ shtip' = t /\ shtip < ShMaxSlot /\ shtip < t
      BY <1>0, <1>1, <3>1 DEF ShTip
    <3>3. /\ shstream' \in Seq(Nat) /\ Len(shstream') = Len(shstream) + 1
          /\ \A i \in 1 .. Len(shstream) : shstream'[i] = shstream[i]
          /\ shstream'[Len(shstream) + 1] = t
      BY <1>0, <2>2, <3>2, AppendTyped
    <3>4. ASSUME NEW i \in 1 .. Len(shstream') PROVE shstream'[i] <= t
      <4>1. CASE i \in 1 .. Len(shstream)
        <5>1. shstream[i] <= shtip /\ shstream[i] \in Nat
          BY <1>0, <4>1, ElementOfSeq DEF ShInv, ShPassed
        <5>2. QED
          BY <1>0, <3>2, <3>3, <4>1, <5>1
      <4>2. CASE i = Len(shstream) + 1
        BY <3>2, <3>3, <4>2
      <4>3. QED
        BY <1>0, <3>3, <4>1, <4>2
    <3>5. ShPassed'
      BY <3>2, <3>3, <3>4 DEF ShPassed
    <3>6. QED
      BY <1>0, <1>1, <2>2, <3>1, <3>2, <3>3, <3>5 DEF ShTip, ShInv, ShTypeOK
  <2>3. QED
    BY <1>1, <2>1, <2>2 DEF ShTip
<1>2. CASE ShDone \/ ShSubscribe \/ ShEnds
  BY <1>2 DEF ShDone, ShSubscribe, ShEnds, ShInv, ShTypeOK, ShPassed
<1>3. CASE OnTimer
  <2>1. CASE sendBroadcat(Finalized) /\ UNCHANGED <<shctx, shloop>>
    <3>1. shslot' \in 0 .. ShMaxSlot /\ shtop' \in 0 .. shtip
      BY <1>0, <2>1, ShSends
    <3>2. QED
      BY <1>3, <2>1, <3>1 DEF OnTimer, ShInv, ShTypeOK, ShPassed
  <2>2. CASE shloop' = "dead" /\ shctx' = "done" /\ UNCHANGED <<shslot, shlast, shtop>>
    BY <1>3, <2>2 DEF OnTimer, ShInv, ShTypeOK, ShPassed
  <2>3. QED
    BY <1>3, <2>1, <2>2 DEF OnTimer
<1>4. CASE OnStream
  <2>1. /\ shstream # <<>> /\ shstream' = Tail(shstream) /\ sendBroadcat(Head(shstream))
        /\ UNCHANGED <<shctx, shloop, shtip, shcall>>
    BY <1>4 DEF OnStream
  <2>2. /\ Head(shstream) \in Nat /\ Tail(shstream) \in Seq(Nat)
        /\ Head(shstream) = shstream[1] /\ Len(shstream) \in Nat \ {0}
        /\ Len(Tail(shstream)) = Len(shstream) - 1
        /\ \A i \in 1 .. Len(Tail(shstream)) : Tail(shstream)[i] = shstream[i + 1]
    BY <1>0, <2>1, TailTyped
  <2>3. Head(shstream) \in 0 .. shtip
    BY <1>0, <2>2 DEF ShInv, ShPassed
  <2>4. shslot' \in 0 .. ShMaxSlot /\ shtop' \in 0 .. shtip
    BY <2>1, <2>3, ShSends
  <2>5. ShPassed'
    BY <1>0, <2>1, <2>2 DEF ShInv, ShPassed
  <2>6. Len(shstream') <= ShStreamCap
    BY <1>0, <2>1, <2>2 DEF ShInv, ShTypeOK
  <2>7. QED
    BY <2>1, <2>4, <2>5, <2>6 DEF ShInv, ShTypeOK
<1>5. ASSUME NEW c \in ShCallers, TimeStart(c) \/ TimeAnswer(c) \/ TimeCanceled(c)
      PROVE  ShInv'
  BY <1>5 DEF TimeStart, TimeAnswer, TimeCanceled, ShInv, ShTypeOK, ShPassed
<1>6. CASE UNCHANGED slotVars
  BY <1>6 DEF slotVars, ShInv, ShTypeOK, ShPassed
<1>7. QED
  BY <1>1, <1>2, <1>3, <1>4, <1>5, <1>6 DEF ShNext

\* The types of the slot home, whose stream never runs ahead of the chain.
THEOREM ShInvariance == ShSpec => []ShInv
<1>1. ShInit => ShInv
  <2> SUFFICES ASSUME ShInit PROVE ShInv
    OBVIOUS
  <2>1. shstream = <<>> /\ shstream \in Seq(Nat) /\ Len(shstream) = 0
    BY DEF ShInit
  <2>2. QED
    BY <2>1, SlotHomeAssumption DEF ShInit, ShInv, ShTypeOK, ShPassed
<1>2. ShInv /\ [ShNext]_slotVars => ShInv'
  BY ShStep
<1>3. QED
  BY <1>1, <1>2, PTL DEF ShSpec

-----------------------------------------------------------------------------
(* ValidatorRelay.                                                         *)

LEMMA YrStep == ASSUME YrTypeOK, [YrNext]_yrVars PROVE YrTypeOK'
<1> USE ValidatorRelayAssumption DEF YrTypeOK
<1>1. CASE YrDone \/ Tick \/ YrEnds
  BY <1>1 DEF YrDone, Tick, YrEnds
<1>9. CASE NextBox
  BY <1>9 DEF NextBox
<1>2. CASE OnStake
  BY <1>2 DEF OnStake
<1>3. ASSUME NEW n \in 0 .. YrMaxTps, OnNetwork(n) PROVE YrTypeOK'
  BY <1>3 DEF OnNetwork
<1>4. ASSUME NEW c \in YrCallers, Submit(c) \/ YrCanceled(c) PROVE YrTypeOK'
  BY <1>4 DEF Submit, YrCanceled
<1>5. ASSUME NEW c \in YrCallers, Take(c) PROVE YrTypeOK'
  BY <1>5 DEF Take, Exceeded
<1>6. ASSUME NEW c \in YrCallers, loopRpcSendTx(c) \/ Answer(c) PROVE YrTypeOK'
  BY <1>6 DEF loopRpcSendTx, Answer
<1>7. CASE UNCHANGED yrVars
  BY <1>7 DEF yrVars
<1>8. QED
  BY <1>1, <1>2, <1>3, <1>4, <1>5, <1>6, <1>7, <1>9 DEF YrNext, YrRun

\* The types of the validator's relay: what it may send is never more than
\* the network carries.
THEOREM YrInvariance == YrSpec => []YrTypeOK
<1>1. YrInit => YrTypeOK
  BY ValidatorRelayAssumption DEF YrInit, YrTypeOK
<1>2. YrTypeOK /\ [YrNext]_yrVars => YrTypeOK'
  BY YrStep
<1>3. QED
  BY <1>1, <1>2, PTL DEF YrSpec

-----------------------------------------------------------------------------
(* NetworkState.                                                           *)

\* g is right from the k-th element of the list on.
SumsUp(l, g, k) ==
    \A j \in k .. Len(l) + 1 :
        g[j] = IF j = Len(l) + 1 THEN 0 ELSE NtBlock(l[j]).count + g[j + 1]

\* The recursive definition of SumFrom defines a function: its values can be
\* filled in from the end of the list.
LEMMA SumFromUnfolds ==
  ASSUME NEW l \in Seq(Nat)
  PROVE  /\ SumFrom(l) \in [1 .. Len(l) + 1 -> Nat]
         /\ SumsUp(l, SumFrom(l), 1)
<1> DEFINE n == Len(l)
           D == 1 .. n + 1
           Filled == {d \in Nat : d <= n => \E g \in [D -> Nat] : SumsUp(l, g, n + 1 - d)}
<1>0. n \in Nat /\ \A j \in 1 .. n : l[j] \in Nat
  BY LenProperties, ElementOfSeq
<1>1. 0 \in Filled
  <2>1. PICK g : g = [k \in D |-> 0]
    OBVIOUS
  <2>2. g \in [D -> Nat] /\ SumsUp(l, g, n + 1)
    BY <1>0, <2>1 DEF SumsUp
  <2>3. QED
    BY <1>0, <2>2
<1>2. ASSUME NEW d \in Nat, d \in Filled PROVE d + 1 \in Filled
  <2>1. SUFFICES ASSUME d + 1 <= n
                 PROVE  \E g \in [D -> Nat] : SumsUp(l, g, n + 1 - (d + 1))
    OBVIOUS
  <2>2. PICK g \in [D -> Nat] : SumsUp(l, g, n + 1 - d)
    BY <1>0, <1>2, <2>1
  <2>3. PICK m : m = n - d
    OBVIOUS
  <2>4. /\ m \in 1 .. n /\ m \in D /\ m + 1 \in D /\ m + 1 = n + 1 - d
        /\ n + 1 - (d + 1) = m
    BY <1>0, <2>1, <2>3
  <2>5. PICK h : h = [g EXCEPT ![m] = l[m] + g[m + 1]]
    OBVIOUS
  <2>6. /\ h \in [D -> Nat] /\ h[m] = l[m] + g[m + 1]
        /\ \A j \in m + 1 .. n + 1 : h[j] = g[j]
    <3>0. PICK v : v = l[m] + g[m + 1]
      OBVIOUS
    <3>1. v = l[m] + g[m + 1] /\ v \in Nat
      BY <1>0, <2>2, <2>4, <3>0
    <3>2. h = [g EXCEPT ![m] = v]
      BY <2>5, <3>1
    <3>3. h \in [D -> Nat] /\ h[m] = v
      BY <2>2, <2>4, <3>1, <3>2
    <3>4. \A j \in m + 1 .. n + 1 : j \in D /\ j # m
      BY <1>0, <2>4
    <3>5. QED
      BY <2>2, <3>1, <3>2, <3>3, <3>4
  <2>7. ASSUME NEW j \in m .. n + 1
        PROVE  h[j] = IF j = n + 1 THEN 0 ELSE NtBlock(l[j]).count + h[j + 1]
    <3>1. CASE j = m
      BY <1>0, <2>4, <2>6, <3>1 DEF NtBlock
    <3>2. CASE j # m
      <4>1. j \in m + 1 .. n + 1 /\ j \in n + 1 - d .. n + 1
        BY <1>0, <2>4, <3>2
      <4>2. g[j] = IF j = n + 1 THEN 0 ELSE NtBlock(l[j]).count + g[j + 1]
        BY <2>2, <4>1 DEF SumsUp
      <4>3. j # n + 1 => j + 1 \in m + 1 .. n + 1
        BY <1>0, <2>4, <4>1
      <4>4. QED
        BY <2>6, <4>1, <4>2, <4>3
    <3>3. QED
      BY <3>1, <3>2
  <2>8. SumsUp(l, h, m)
    BY <2>7 DEF SumsUp
  <2>9. QED
    BY <2>4, <2>6, <2>8
<1>3. \A d \in Nat : d \in Filled
  <2> HIDE DEF Filled
  <2>1. QED
    BY <1>1, <1>2, InductionSet
<1>4. PICK g \in [D -> Nat] : SumsUp(l, g, 1)
  <2>1. n \in Filled
    BY <1>0, <1>3
  <2>2. n + 1 - n = 1
    BY <1>0
  <2>3. QED
    BY <1>0, <2>1, <2>2
<1>5. g = [k \in D |-> IF k = n + 1 THEN 0 ELSE NtBlock(l[k]).count + g[k + 1]]
  BY <1>4 DEF SumsUp
<1>6. SumFrom(l) = [k \in D |-> IF k = n + 1 THEN 0 ELSE NtBlock(l[k]).count + SumFrom(l)[k + 1]]
  BY <1>5 DEF SumFrom
<1>7. PICK s : s = SumFrom(l)
  OBVIOUS
<1>8. DOMAIN s = D /\ SumsUp(l, s, 1)
  BY <1>6, <1>7 DEF SumsUp
<1> DEFINE Same == {d \in Nat : d <= n => s[n + 1 - d] = g[n + 1 - d]}
<1>9. 0 \in Same
  BY <1>0, <1>4, <1>8 DEF SumsUp
<1>10. ASSUME NEW d \in Nat, d \in Same PROVE d + 1 \in Same
  <2>1. SUFFICES ASSUME d + 1 <= n PROVE s[n + 1 - (d + 1)] = g[n + 1 - (d + 1)]
    OBVIOUS
  <2>2. PICK m : m = n + 1 - (d + 1)
    OBVIOUS
  <2>3. m \in 1 .. n + 1 /\ m # n + 1 /\ n + 1 - d = m + 1 /\ d <= n
    BY <1>0, <2>1, <2>2
  <2>4. s[m] = NtBlock(l[m]).count + s[m + 1] /\ g[m] = NtBlock(l[m]).count + g[m + 1]
    BY <1>4, <1>8, <2>3 DEF SumsUp
  <2>5. QED
    BY <1>10, <2>2, <2>3, <2>4
<1>11. \A d \in Nat : d \in Same
  <2> HIDE DEF Same
  <2>1. QED
    BY <1>9, <1>10, InductionSet
<1>12. ASSUME NEW k \in D PROVE s[k] = g[k]
  <2>1. PICK d : d = n + 1 - k
    OBVIOUS
  <2>2. d \in Nat /\ d <= n /\ n + 1 - d = k
    BY <1>0, <2>1
  <2>3. d \in Same
    BY <1>11, <2>2
  <2>4. QED
    BY <2>2, <2>3
<1>13. s = [k \in D |-> g[k]]
  BY <1>6, <1>7, <1>12
<1>14. s \in [D -> Nat]
  BY <1>4, <1>13
<1>15. QED
  BY <1>7, <1>8, <1>14

\* The sum over consecutive blocks, in closed form.
LEMMA SumConsecutive ==
  ASSUME NEW l \in Seq(Nat), Len(l) > 0, \A i \in 1 .. Len(l) : l[i] = i
  PROVE  SumFrom(l)[2] * 2 = Len(l) * (Len(l) + 1) - 2
<1>1. PICK n : n = Len(l)
  OBVIOUS
<1>2. PICK s : s = SumFrom(l)
  OBVIOUS
<1>3. /\ n \in Nat /\ n > 0
      /\ s \in [1 .. n + 1 -> Nat]
      /\ s[n + 1] = 0
      /\ \A j \in 1 .. n : s[j] = j + s[j + 1]
  BY <1>1, <1>2, SumFromUnfolds, LenProperties DEF SumsUp, NtBlock
<1>4. PICK a : a = n * (n + 1)
  OBVIOUS
<1>5. a \in Nat
  BY <1>3, <1>4
<1> DEFINE Sum == {d \in Nat : d <= n => s[n + 1 - d] * 2 = a - (n + 1 - d) * (n - d)}
<1>6. 0 \in Sum
  <2>1. n + 1 - 0 = n + 1 /\ n - 0 = n /\ (n + 1) * n = a
    BY <1>3, <1>4
  <2>2. s[n + 1 - 0] * 2 = a - (n + 1 - 0) * (n - 0)
    BY <1>3, <1>5, <2>1
  <2>3. QED
    BY <2>2
<1>7. ASSUME NEW d \in Nat, d \in Sum PROVE d + 1 \in Sum
  <2>1. SUFFICES ASSUME d + 1 <= n
                 PROVE  s[n + 1 - (d + 1)] * 2 = a - (n + 1 - (d + 1)) * (n - (d + 1))
    OBVIOUS
  <2>2. PICK m : m = n - d
    OBVIOUS
  <2>3. /\ m \in 1 .. n /\ n + 1 - d = m + 1 /\ n + 1 - (d + 1) = m /\ n - (d + 1) = m - 1
        /\ d <= n /\ m + 1 \in 1 .. n + 1 /\ m \in 1 .. n + 1
    BY <1>3, <2>1, <2>2
  <2>4. s[m + 1] * 2 = a - (m + 1) * m /\ s[m] = m + s[m + 1]
    BY <1>3, <1>7, <2>2, <2>3
  <2>5. s[m] \in Nat /\ s[m + 1] \in Nat /\ m \in Int
    BY <1>3, <2>3
  <2>6. PICK q : q = m * m
    OBVIOUS
  <2>7. q \in Int /\ (m + 1) * m = q + m /\ m * (m - 1) = q - m
    BY <2>5, <2>6
  <2>8. s[m] * 2 = a - m * (m - 1)
    <3>1. PICK v : v = s[m + 1]
      OBVIOUS
    <3>2. v \in Nat /\ v * 2 = a - (q + m) /\ s[m] = m + v
      BY <2>4, <2>5, <2>7, <3>1
    <3>3. (m + v) * 2 = a - (q - m)
      BY <1>5, <2>5, <2>7, <3>2
    <3>4. QED
      BY <2>7, <3>2, <3>3
  <2>9. QED
    BY <2>3, <2>8
<1>8. \A d \in Nat : d \in Sum
  <2> HIDE DEF Sum
  <2>1. QED
    BY <1>6, <1>7, InductionSet
<1>9. n - 1 \in Nat /\ n - 1 <= n /\ n + 1 - (n - 1) = 2 /\ n - (n - 1) = 1
  BY <1>3
<1>10. s[2] * 2 = a - 2 * 1
  BY <1>8, <1>9
<1>11. QED
  BY <1>1, <1>2, <1>4, <1>5, <1>10

NtResults == [n : Nat, body : BOOLEAN]
NtOne(body) == IF body THEN 1 ELSE 0

\* The number of blocks with contents up to the k-th result in rawC.
NtBefore(k) == IF k = 1 THEN Len(nlist) + Len(nsub) ELSE nraw[k - 1].n

\* The results in rawC, and the one that loopInternal holds, are numbered
\* from where the subscription ends, one up for each that has contents.
NtNumbered ==
    /\ \A k \in 1 .. Len(nraw) : nraw[k].n = NtBefore(k) + NtOne(nraw[k].body)
    /\ nhold = NtNone => nnext = NtBefore(Len(nraw) + 1)
    /\ nhold # NtNone =>
        nhold.n = nnext /\ nnext = NtBefore(Len(nraw) + 1) + NtOne(nhold.body)

\* The blocks from the websocket to the list of loopTps are consecutive: in
\* the subscription always, before it as long as nothing was dropped.
NtOrder ==
    /\ nlist \in Seq(Nat) /\ nsub \in Seq(Nat) /\ nraw \in Seq(NtResults)
    /\ \A i \in 1 .. Len(nlist) : nlist[i] = i
    /\ \A i \in 1 .. Len(nsub) : nsub[i] = Len(nlist) + i
    /\ ~nlost => NtNumbered

NtInv == NtTypeOK /\ NtOrder /\ AverageExact

\* The facts about the lengths that every step needs.
LEMMA NtLengths ==
  ASSUME NtInv
  PROVE  /\ NtTypeOK /\ NtOrder /\ AverageExact
         /\ Len(nlist) \in Nat /\ Len(nsub) \in Nat /\ Len(nraw) \in Nat
         /\ nnext \in Nat /\ nnil \in Nat /\ nhold \in NtResults
         /\ \A k \in 1 .. Len(nraw) : nraw[k] \in NtResults
         /\ NtMaxBlock \in Nat /\ NtMaxNil \in Nat /\ NtRawCap \in Nat /\ NtSubCap \in Nat
<1>1. NtTypeOK /\ NtOrder /\ AverageExact
  BY DEF NtInv
<1>2. Len(nlist) \in Nat /\ Len(nsub) \in Nat /\ Len(nraw) \in Nat
  BY <1>1, LenProperties DEF NtOrder
<1>3. \A k \in 1 .. Len(nraw) : nraw[k] \in NtResults
  BY <1>1, ElementOfSeq DEF NtOrder
<1>4. nnext \in Nat /\ nnil \in Nat /\ nhold \in NtResults
  BY <1>1, NetworkStateAssumption DEF NtTypeOK, NtResults
<1>5. QED
  BY <1>1, <1>2, <1>3, <1>4, NetworkStateAssumption

\* The number before every place of rawC and after its end.
LEMMA NtBeforeNat ==
  ASSUME NtInv, NEW k \in 1 .. Len(nraw) + 1
  PROVE  NtBefore(k) \in Nat
<1>1. CASE k = 1
  BY <1>1, NtLengths DEF NtBefore
<1>2. CASE k # 1
  <2>1. k - 1 \in 1 .. Len(nraw)
    BY <1>2, NtLengths
  <2>2. nraw[k - 1].n \in Nat
    BY <2>1, NtLengths DEF NtResults
  <2>3. QED
    BY <1>2, <2>2 DEF NtBefore
<1>3. QED
  BY <1>1, <1>2

LEMMA NtTakes == ASSUME NtInv, TakeBlock PROVE NtInv'
<1>1. /\ nhold = NtNone
      /\ \/ /\ nnext < NtMaxBlock /\ nnext' = nnext + 1 /\ nnil' = nnil
            /\ nhold' = NtResult(nnext + 1, TRUE)
         \/ /\ nnil < NtMaxNil /\ nnil' = nnil + 1 /\ nnext' = nnext
            /\ nhold' = NtResult(nnext, FALSE)
      /\ UNCHANGED <<nctx, nrun, nraw, nsub, nlost, nlist, nstat, nvotes>>
  BY DEF TakeBlock
<1>2. /\ nhold' \in [n : 0 .. NtMaxBlock, body : BOOLEAN] /\ nhold' # NtNone
      /\ nhold'.n = nnext' /\ nnext' = nnext + NtOne(nhold'.body)
      /\ nnext' \in 0 .. NtMaxBlock /\ nnil' \in 0 .. NtMaxNil
  <2>1. nnext \in Nat /\ nnil \in Nat /\ nnext <= NtMaxBlock /\ nnil <= NtMaxNil
        /\ NtMaxBlock \in Nat /\ NtMaxNil \in Nat
    BY NtLengths DEF NtTypeOK
  <2>2. CASE /\ nnext < NtMaxBlock /\ nnext' = nnext + 1 /\ nnil' = nnil
             /\ nhold' = NtResult(nnext + 1, TRUE)
    <3>1. PICK m : m = nnext + 1
      OBVIOUS
    <3>2. m \in 0 .. NtMaxBlock /\ m # 0 /\ nhold' = [n |-> m, body |-> TRUE] /\ nnext' = m
      BY <2>1, <2>2, <3>1 DEF NtResult
    <3>3. nhold'.n = m /\ nhold'.body = TRUE /\ NtNone.n = 0
      BY <3>2 DEF NtNone, NtResult
    <3>4. nhold' \in [n : 0 .. NtMaxBlock, body : BOOLEAN] /\ nhold' # NtNone
      BY <3>2, <3>3
    <3>5. NtOne(nhold'.body) = 1
      BY <3>3 DEF NtOne
    <3>6. nnil' \in 0 .. NtMaxNil
      BY <2>1, <2>2
    <3>7. QED
      BY <2>1, <3>1, <3>2, <3>3, <3>4, <3>5, <3>6
  <2>3. CASE /\ nnil < NtMaxNil /\ nnil' = nnil + 1 /\ nnext' = nnext
             /\ nhold' = NtResult(nnext, FALSE)
    <3>1. nhold' = [n |-> nnext, body |-> FALSE] /\ nnext \in 0 .. NtMaxBlock
      BY <2>1, <2>3 DEF NtResult
    <3>2. nhold'.n = nnext /\ nhold'.body = FALSE /\ NtNone.body = TRUE
      BY <3>1 DEF NtNone, NtResult
    <3>3. nhold' \in [n : 0 .. NtMaxBlock, body : BOOLEAN] /\ nhold' # NtNone
      BY <3>1, <3>2
    <3>4. NtOne(nhold'.body) = 0
      BY <3>2 DEF NtOne
    <3>5. nnil' \in 0 .. NtMaxNil
      BY <2>1, <2>3
    <3>6. nnext' = nnext + NtOne(nhold'.body) /\ nnext' \in 0 .. NtMaxBlock /\ nhold'.n = nnext'
      <4>1. nnext' = nnext /\ nnext = nnext + 0
        BY <2>1, <2>3
      <4>2. QED
        BY <3>1, <3>2, <3>4, <4>1
    <3>7. QED
      BY <3>3, <3>5, <3>6
  <2>4. QED
    BY <1>1, <2>2, <2>3
<1>3. ~nlost => NtNumbered'
  <2>1. SUFFICES ASSUME ~nlost PROVE NtNumbered'
    OBVIOUS
  <2>2. NtNumbered
    BY <2>1, NtLengths DEF NtOrder
  <2>3. nraw' = nraw /\ nlist' = nlist /\ nsub' = nsub
    BY <1>1
  <2>4. nnext = NtBefore(Len(nraw) + 1)
    BY <1>1, <2>2 DEF NtNumbered
  <2>5. nnext' = NtBefore(Len(nraw) + 1) + NtOne(nhold'.body)
    BY <1>2, <2>4
  <2>6. QED
    BY <1>2, <2>2, <2>3, <2>5 DEF NtNumbered, NtBefore
<1>4. NtOrder'
  BY <1>1, <1>3, NtLengths DEF NtOrder
<1>5. NtTypeOK' /\ AverageExact'
  BY <1>1, <1>2, NtLengths DEF NtTypeOK, AverageExact
<1>6. QED
  BY <1>4, <1>5 DEF NtInv

LEMMA NtSends == ASSUME NtInv, SendRaw PROVE NtInv'
<1>1. /\ nhold # NtNone /\ Len(nraw) < NtRawCap /\ nraw' = Append(nraw, nhold) /\ nhold' = NtNone
      /\ UNCHANGED <<nctx, nrun, nnext, nnil, nsub, nlost, nlist, nstat, nvotes>>
  BY DEF SendRaw
<1>2. /\ nraw' \in Seq(NtResults) /\ Len(nraw') = Len(nraw) + 1
      /\ \A i \in 1 .. Len(nraw) : nraw'[i] = nraw[i]
      /\ nraw'[Len(nraw) + 1] = nhold
  BY <1>1, NtLengths, AppendTyped DEF NtOrder
<1>3. ~nlost => NtNumbered'
  <2>1. SUFFICES ASSUME ~nlost PROVE NtNumbered'
    OBVIOUS
  <2>2. NtNumbered
    BY <2>1, NtLengths DEF NtOrder
  <2>3. PICK m : m = Len(nraw)
    OBVIOUS
  <2>4. /\ m \in Nat /\ Len(nraw') = m + 1 /\ nraw'[m + 1] = nhold
        /\ \A i \in 1 .. m : nraw'[i] = nraw[i]
        /\ \A k \in 1 .. m : nraw[k].n = NtBefore(k) + NtOne(nraw[k].body)
        /\ nhold.n = nnext /\ nnext = NtBefore(m + 1) + NtOne(nhold.body)
    BY <1>1, <1>2, <2>2, <2>3, NtLengths DEF NtNumbered
  <2>5. ASSUME NEW k \in 1 .. m + 1 PROVE NtBefore(k)' = NtBefore(k)
    <3>1. CASE k = 1
      BY <1>1, <3>1 DEF NtBefore
    <3>2. CASE k # 1
      <4>1. k - 1 \in 1 .. m
        BY <2>4, <3>2
      <4>2. QED
        BY <2>4, <3>2, <4>1 DEF NtBefore
    <3>3. QED
      BY <3>1, <3>2
  <2>6. ASSUME NEW k \in 1 .. m + 1
        PROVE  nraw'[k].n = NtBefore(k)' + NtOne(nraw'[k].body)
    <3>1. CASE k = m + 1
      BY <2>4, <2>5, <3>1
    <3>2. CASE k # m + 1
      <4>1. k \in 1 .. m
        BY <2>4, <3>2
      <4>2. QED
        BY <2>4, <2>5, <4>1
    <3>3. QED
      BY <3>1, <3>2
  <2>7. NtBefore(m + 2)' = nnext
    <3>1. m + 2 # 1 /\ m + 2 - 1 = m + 1
      BY <2>4
    <3>2. QED
      BY <2>4, <3>1 DEF NtBefore
  <2>8. Len(nraw') + 1 = m + 2
    BY <2>4
  <2>9. QED
    BY <1>1, <2>4, <2>6, <2>7, <2>8 DEF NtNumbered
<1>4. NtOrder'
  BY <1>1, <1>2, <1>3, NtLengths DEF NtOrder
<1>5. NtTypeOK' /\ AverageExact'
  <2>1. NtNone \in [n : 0 .. NtMaxBlock, body : BOOLEAN]
    BY NtLengths DEF NtNone, NtResult
  <2>2. QED
    BY <1>1, <1>2, <2>1, NtLengths DEF NtTypeOK, AverageExact
<1>6. QED
  BY <1>4, <1>5 DEF NtInv

LEMMA NtCounts == ASSUME NtInv, CountBlock PROVE NtInv'
<1>1. /\ nraw # <<>> /\ nraw' = Tail(nraw)
      /\ UNCHANGED <<nctx, nrun, nnext, nnil, nhold, nlist, nstat, nvotes>>
      /\ \/ (nlost \/ ~Head(nraw).body) /\ nsub' = nsub /\ nlost' = nlost
         \/ /\ ~nlost /\ Head(nraw).body /\ Len(nsub) < NtSubCap
            /\ nsub' = Append(nsub, Head(nraw).n) /\ nlost' = nlost
         \/ ~nlost /\ nlost' = TRUE /\ nsub' = nsub
  BY DEF CountBlock
<1>2. PICK b : b = Head(nraw)
  OBVIOUS
<1>3. /\ b \in NtResults /\ nraw' \in Seq(NtResults) /\ b = nraw[1]
      /\ Len(nraw) \in Nat \ {0} /\ Len(nraw') = Len(nraw) - 1
      /\ \A i \in 1 .. Len(nraw') : nraw'[i] = nraw[i + 1]
  BY <1>1, <1>2, NtLengths, TailTyped DEF NtOrder
<1>4. Len(nraw') <= NtRawCap /\ b.n \in Nat /\ b.body \in BOOLEAN
  BY <1>1, <1>3, NtLengths DEF NtTypeOK, NtResults
\* What is left of rawC is numbered as before, from the result just taken on.
<1>5. ASSUME ~nlost, nlost' = nlost, Len(nsub') \in Nat,
             Len(nlist) + Len(nsub') = Len(nlist) + Len(nsub) + NtOne(b.body)
      PROVE  NtNumbered'
  <2>1. NtNumbered
    BY <1>5, NtLengths DEF NtOrder
  <2>2. PICK m : m = Len(nraw')
    OBVIOUS
  <2>3. m \in Nat /\ Len(nraw) = m + 1
    BY <1>3, <2>2
  <2>4. b.n = Len(nlist) + Len(nsub')
    <3>1. 1 \in 1 .. Len(nraw)
      BY <2>3
    <3>2. nraw[1].n = NtBefore(1) + NtOne(nraw[1].body)
      BY <2>1, <3>1 DEF NtNumbered
    <3>3. QED
      BY <1>3, <1>5, <3>2 DEF NtBefore
  <2>5. ASSUME NEW k \in 1 .. m + 1 PROVE NtBefore(k)' = NtBefore(k + 1)
    <3>1. CASE k = 1
      BY <1>1, <1>3, <2>4, <3>1 DEF NtBefore
    <3>2. CASE k # 1
      <4>1. k - 1 \in 1 .. m /\ k - 1 + 1 = k /\ k + 1 - 1 = k /\ k + 1 # 1
        BY <2>3, <3>2
      <4>2. nraw'[k - 1] = nraw[k]
        BY <1>3, <2>2, <4>1
      <4>3. QED
        BY <3>2, <4>1, <4>2 DEF NtBefore
    <3>3. QED
      BY <3>1, <3>2
  <2>6. ASSUME NEW k \in 1 .. m
        PROVE  nraw'[k].n = NtBefore(k)' + NtOne(nraw'[k].body)
    <3>1. k \in 1 .. m + 1 /\ k + 1 \in 1 .. Len(nraw) /\ nraw'[k] = nraw[k + 1]
      BY <1>3, <2>2, <2>3
    <3>2. nraw[k + 1].n = NtBefore(k + 1) + NtOne(nraw[k + 1].body)
      BY <2>1, <3>1 DEF NtNumbered
    <3>3. QED
      BY <2>5, <3>1, <3>2
  <2>7. NtBefore(m + 1)' = NtBefore(m + 2)
    <3>1. m + 1 \in 1 .. m + 1 /\ m + 1 + 1 = m + 2
      BY <2>3
    <3>2. QED
      BY <2>5, <3>1
  <2>8. Len(nraw) + 1 = m + 2
    BY <2>3
  <2>9. QED
    BY <1>1, <2>1, <2>2, <2>6, <2>7, <2>8 DEF NtNumbered
<1>6. NtTypeOK' /\ NtOrder'
  <2>1. CASE nlost' /\ nsub' = nsub
    BY <1>1, <1>3, <1>4, <2>1, NtLengths DEF NtTypeOK, NtOrder
  <2>2. CASE ~nlost /\ ~b.body /\ nsub' = nsub /\ nlost' = nlost
    <3>1. Len(nsub') \in Nat /\ Len(nlist) + Len(nsub') = Len(nlist) + Len(nsub) + NtOne(b.body)
      BY <2>2, NtLengths DEF NtOne
    <3>2. NtNumbered'
      BY <1>5, <2>2, <3>1
    <3>3. QED
      BY <1>1, <1>3, <1>4, <2>2, <3>2, NtLengths DEF NtTypeOK, NtOrder
  <2>3. CASE /\ ~nlost /\ b.body /\ Len(nsub) < NtSubCap
             /\ nsub' = Append(nsub, b.n) /\ nlost' = nlost
    <3>1. /\ nsub' \in Seq(Nat) /\ Len(nsub') = Len(nsub) + 1
          /\ \A i \in 1 .. Len(nsub) : nsub'[i] = nsub[i]
          /\ nsub'[Len(nsub) + 1] = b.n
      BY <1>4, <2>3, NtLengths, AppendTyped DEF NtOrder
    <3>2. Len(nsub') \in Nat /\ Len(nlist) + Len(nsub') = Len(nlist) + Len(nsub) + NtOne(b.body)
      BY <2>3, <3>1, NtLengths DEF NtOne
    <3>3. NtNumbered'
      BY <1>5, <2>3, <3>2
    <3>4. b.n = Len(nlist) + Len(nsub) + 1
      <4>1. NtNumbered /\ 1 \in 1 .. Len(nraw)
        BY <1>3, <2>3, NtLengths DEF NtOrder
      <4>2. nraw[1].n = NtBefore(1) + NtOne(nraw[1].body)
        BY <4>1 DEF NtNumbered
      <4>3. QED
        BY <1>3, <2>3, <4>2 DEF NtBefore, NtOne
    <3>5. \A i \in 1 .. Len(nsub') : nsub'[i] = Len(nlist) + i
      <4>1. ASSUME NEW i \in 1 .. Len(nsub') PROVE nsub'[i] = Len(nlist) + i
        <5>1. CASE i \in 1 .. Len(nsub)
          BY <3>1, <5>1, NtLengths DEF NtOrder
        <5>2. CASE i = Len(nsub) + 1
          BY <3>1, <3>4, <5>2, NtLengths
        <5>3. QED
          BY <3>1, <5>1, <5>2, NtLengths
      <4>2. QED
        BY <4>1
    <3>6. NtOrder'
      BY <1>1, <1>3, <3>1, <3>3, <3>5, NtLengths DEF NtOrder
    <3>7. NtTypeOK'
      BY <1>1, <1>4, <2>3, <3>1, NtLengths DEF NtTypeOK
    <3>8. QED
      BY <3>6, <3>7
  <2>4. QED
    <3>1. nlost \in BOOLEAN
      BY NtLengths DEF NtTypeOK
    <3>2. QED
      BY <1>1, <1>2, <2>1, <2>2, <2>3, <3>1
<1>7. AverageExact'
  BY <1>1, NtLengths DEF AverageExact
<1>8. QED
  BY <1>6, <1>7 DEF NtInv

\* update gives the exact average over the consecutive blocks of a list.
LEMMA UpdateExact ==
  ASSUME NEW l \in Seq(Nat), Len(l) >= 2, \A i \in 1 .. Len(l) : l[i] = i
  PROVE  LET n == update(l).blocks
         IN  update(l).sum * 2 = (n + 1) * (n + 2) - 2 /\ update(l).dT = 2 * n
<1>1. PICK k : k = Len(l)
  OBVIOUS
<1>2. k \in Nat /\ k >= 2 /\ l[k] = k /\ l[1] = 1
  BY <1>1, LenProperties
<1>3. SumFrom(l)[2] * 2 = k * (k + 1) - 2
  BY <1>1, <1>2, SumConsecutive
<1>4. /\ update(l).blocks = k - 1 /\ update(l).sum = SumFrom(l)[2]
      /\ update(l).dT = 2 * k - 2 * 1
  <2>1. ~(Len(l) < 2)
    BY <1>1, <1>2
  <2>2. QED
    BY <1>1, <1>2, <2>1 DEF update, NtBlock
<1>5. k - 1 + 1 = k /\ k - 1 + 2 = k + 1 /\ 2 * k - 2 * 1 = 2 * (k - 1)
  BY <1>2
<1>6. QED
  BY <1>3, <1>4, <1>5

LEMMA NtAverages == ASSUME NtInv, TpsBlock PROVE NtInv'
<1>1. /\ nsub # <<>> /\ nlist' = Append(nlist, Head(nsub)) /\ nsub' = Tail(nsub)
      /\ nstat' = update(nlist')
      /\ UNCHANGED <<nctx, nrun, nnext, nnil, nhold, nraw, nlost, nvotes>>
  BY DEF TpsBlock
<1>2. /\ Head(nsub) \in Nat /\ nsub' \in Seq(Nat) /\ Head(nsub) = nsub[1]
      /\ Len(nsub) \in Nat \ {0} /\ Len(nsub') = Len(nsub) - 1
      /\ \A i \in 1 .. Len(nsub') : nsub'[i] = nsub[i + 1]
  BY <1>1, NtLengths, TailTyped DEF NtOrder
<1>3. Head(nsub) = Len(nlist) + 1
  BY <1>2, NtLengths DEF NtOrder
<1>4. /\ nlist' \in Seq(Nat) /\ Len(nlist') = Len(nlist) + 1
      /\ \A i \in 1 .. Len(nlist) : nlist'[i] = nlist[i]
      /\ nlist'[Len(nlist) + 1] = Len(nlist) + 1
  BY <1>1, <1>2, <1>3, NtLengths, AppendTyped DEF NtOrder
<1>5. \A i \in 1 .. Len(nlist') : nlist'[i] = i
  <2>1. ASSUME NEW i \in 1 .. Len(nlist') PROVE nlist'[i] = i
    <3>1. CASE i \in 1 .. Len(nlist)
      BY <1>4, <3>1, NtLengths DEF NtOrder
    <3>2. CASE i = Len(nlist) + 1
      BY <1>4, <3>2
    <3>3. QED
      BY <1>4, <3>1, <3>2, NtLengths
  <2>2. QED
    BY <2>1
<1>6. \A i \in 1 .. Len(nsub') : nsub'[i] = Len(nlist') + i
  <2>1. ASSUME NEW i \in 1 .. Len(nsub') PROVE nsub'[i] = Len(nlist') + i
    <3>1. i + 1 \in 1 .. Len(nsub) /\ nsub'[i] = nsub[i + 1]
      BY <1>2
    <3>2. nsub[i + 1] = Len(nlist) + (i + 1)
      BY <3>1, NtLengths DEF NtOrder
    <3>3. QED
      BY <1>2, <1>4, <3>1, <3>2, NtLengths
  <2>2. QED
    BY <2>1
<1>7. Len(nlist') + Len(nsub') = Len(nlist) + Len(nsub)
  BY <1>2, <1>4, NtLengths
<1>8. NtOrder'
  <2>1. ASSUME ~nlost PROVE NtNumbered'
    <3>1. NtNumbered
      BY <2>1, NtLengths DEF NtOrder
    <3>2. QED
      BY <1>1, <1>7, <3>1 DEF NtNumbered, NtBefore
  <2>2. nraw \in Seq(NtResults)
    BY NtLengths DEF NtOrder
  <2>3. QED
    BY <1>1, <1>2, <1>4, <1>5, <1>6, <2>1, <2>2 DEF NtOrder
<1>9. NtTypeOK'
  BY <1>1, <1>2, NtLengths DEF NtTypeOK
<1>10. AverageExact'
  <2>1. CASE Len(nlist') < 2
    <3>1. nstat' = nstat
      BY <1>1, <2>1 DEF update
    <3>2. QED
      BY <3>1, NtLengths DEF AverageExact
  <2>2. CASE ~(Len(nlist') < 2)
    <3>1. PICK l : l = nlist'
      OBVIOUS
    <3>2. l \in Seq(Nat) /\ Len(l) >= 2 /\ \A i \in 1 .. Len(l) : l[i] = i
      BY <1>4, <1>5, <2>2, <3>1, NtLengths
    <3>3. nstat' = update(l)
      BY <1>1, <3>1
    <3>4. QED
      BY <3>2, <3>3, UpdateExact DEF AverageExact
  <2>3. QED
    BY <2>1, <2>2
<1>11. QED
  BY <1>8, <1>9, <1>10 DEF NtInv

\* What the network statistics publish is the average over consecutive blocks
\* of the chain, whatever the order in which the four loops and the full
\* subscription interleave: a slow loopTps ends the statistics and never
\* leaves a gap in them.
THEOREM NtInvariance == NtSpec => []NtInv
<1>1. NtInit => NtInv
  <2> SUFFICES ASSUME NtInit PROVE NtInv
    OBVIOUS
  <2>1. NtTypeOK
    <3>1. nlost \in BOOLEAN /\ nvotes \in BOOLEAN /\ nrun \subseteq NtLoops
      BY Zenon DEF NtInit
    <3>2. Len(nraw) = 0 /\ Len(nsub) = 0
      BY DEF NtInit
    <3>3. QED
      BY <3>1, <3>2, NetworkStateAssumption DEF NtInit, NtTypeOK, NtNone, NtResult
  <2>2. NtOrder
    <3>1. nlist = <<>> /\ nsub = <<>> /\ nraw = <<>> /\ nnext = 0 /\ nhold = NtNone
      BY DEF NtInit
    <3>2. NtNumbered
      BY <3>1 DEF NtNumbered, NtBefore
    <3>3. QED
      BY <3>1, <3>2 DEF NtOrder
  <2>3. AverageExact
    BY DEF NtInit, AverageExact
  <2>4. QED
    BY <2>1, <2>2, <2>3 DEF NtInv
<1>2. NtInv /\ [NtNext]_netVars => NtInv'
  <2> SUFFICES ASSUME NtInv, [NtNext]_netVars PROVE NtInv'
    OBVIOUS
  <2>1. CASE NtDone
    BY <2>1, NtLengths DEF NtDone, NtInv, NtTypeOK, NtOrder, NtNumbered, NtBefore, AverageExact
  <2>2. CASE TakeBlock
    BY <2>2, NtTakes
  <2>3. CASE SendRaw
    BY <2>3, NtSends
  <2>4. CASE CountBlock
    BY <2>4, NtCounts
  <2>5. CASE TpsBlock
    BY <2>5, NtAverages
  <2>6. CASE VoteUpdate
    <3>1. nvotes' \in BOOLEAN
      BY <2>6, NtLengths DEF VoteUpdate, NtTypeOK
    <3>2. QED
      BY <2>6, <3>1, NtLengths DEF VoteUpdate, NtInv, NtTypeOK, NtOrder, NtNumbered, NtBefore, AverageExact
  <2>7. ASSUME NEW l \in NtLoops, NtEnds(l) PROVE NtInv'
    BY <2>7, NtLengths DEF NtEnds, NtInv, NtTypeOK, NtOrder, NtNumbered, NtBefore, AverageExact
  <2>8. CASE UNCHANGED netVars
    BY <2>8, NtLengths DEF netVars, NtInv, NtTypeOK, NtOrder, NtNumbered, NtBefore, AverageExact
  <2>9. QED
    BY <2>1, <2>2, <2>3, <2>4, <2>5, <2>6, <2>7, <2>8 DEF NtNext
<1>3. QED
  BY <1>1, <1>2, PTL DEF NtSpec

-----------------------------------------------------------------------------
(* Pricing.                                                                *)

PrLines == {"none", "sub", "run", "ask", "period", "stake", "data", "close",
            "fail", "report", "dead"}

\* The payouts that have rows, were listed or are announced exist; one that
\* payoutM does not know was never handed over, and neither was the one that
\* loopPipeline hands over now.
PrFiled ==
    /\ prexist \subseteq PrPayouts
    /\ prlist \in Seq(prexist) /\ prtodo \in Seq(prexist)
    /\ DOMAIN prdb = {"time", "pipeline", "payout", "network", "stake"}
    /\ prsent \in [PrPayouts -> 0 .. 1]
    /\ \A x \in PrPayouts : x \notin prseen => prsent[x] = 0
    /\ prline \in {"ask", "period"} => prhold \in prseen /\ prsent[prhold] = 0

PrInv == PrTypeOK /\ PrFiled

\* A statement of the store that is not PayoutAppend leaves the payouts.
LEMMA StoreKeepsPayouts ==
  ASSUME NEW db, DOMAIN db = {"time", "pipeline", "payout", "network", "stake"},
         NEW x, NEW slot, NEW p, NEW len,
         NEW o \in PipelineAdd(db, p) \cup NetworkAppend(db, slot)
                     \cup StakeAppend(db, slot, p) \cup BidAppend(db, x) \cup TimeAppend(db, len)
  PROVE  DOMAIN o.db = DOMAIN db /\ o.db.payout = db.payout
<1>1. CASE o \in PipelineAdd(db, p)
  BY <1>1 DEF PipelineAdd, Insert, Stored, Refused
<1>2. CASE o \in NetworkAppend(db, slot)
  BY <1>2 DEF NetworkAppend, Insert, Stored, Refused
<1>3. CASE o \in StakeAppend(db, slot, p)
  BY <1>3 DEF StakeAppend, Insert, Stored, Refused
<1>4. CASE o \in BidAppend(db, x)
  BY <1>4 DEF BidAppend, Refused
<1>5. CASE o \in TimeAppend(db, len)
  BY <1>5 DEF TimeAppend, Refused
<1>6. QED
  BY <1>1, <1>2, <1>3, <1>4, <1>5

LEMMA StoreAddsPayout ==
  ASSUME NEW db, DOMAIN db = {"time", "pipeline", "payout", "network", "stake"},
         NEW x, NEW o \in PayoutAppend(db, x)
  PROVE  DOMAIN o.db = DOMAIN db /\ o.db.payout \subseteq db.payout \cup {x}
  BY DEF PayoutAppend, Insert, Stored, Refused

\* A step that takes no payout and hands none over: the errors stay within
\* errorC, the rows of the payouts stay, and loopPipeline does not begin to
\* hand a payout over.
PrQuiet ==
    /\ prloop' \in {"run", "self", "hang", "dead"} /\ prerrs' \in 0 .. PrErrCap
    /\ prline' \in PrLines
    /\ prline' \in {"ask", "period"} => prline \in {"ask", "period"} /\ prhold' = prhold
    /\ prhold' \in PrPayouts \cup {PrNone}
    /\ DOMAIN prdb' = DOMAIN prdb /\ prdb'.payout = prdb.payout
    /\ prlist' \in Seq(prexist') /\ prtodo' \in Seq(prexist')
    /\ prexist \subseteq prexist' /\ prexist' \subseteq PrPayouts
    /\ UNCHANGED <<prseen, prsent>>

LEMMA PrQuietKeeps == ASSUME PrInv, PrQuiet PROVE PrInv'
<1>1. PrTypeOK'
  BY DEF PrInv, PrTypeOK, PrFiled, PrQuiet, PrLines
<1>2. PrFiled'
  BY DEF PrInv, PrFiled, PrQuiet
<1>3. QED
  BY <1>1, <1>2 DEF PrInv

\* What a step that leaves most of the variables alone starts from.
LEMMA PrFacts ==
  ASSUME PrInv
  PROVE  /\ prloop \in {"run", "self", "hang", "dead"} /\ prerrs \in 0 .. PrErrCap
         /\ prerrs \in Nat /\ PrErrCap \in Nat
         /\ prline \in PrLines /\ prhold \in PrPayouts \cup {PrNone}
         /\ prlist \in Seq(prexist) /\ prtodo \in Seq(prexist)
         /\ prexist \subseteq PrPayouts
         /\ DOMAIN prdb = {"time", "pipeline", "payout", "network", "stake"}
  BY PricingAssumption DEF PrInv, PrTypeOK, PrFiled, PrLines

LEMMA PrInternalQuiet ==
  ASSUME PrInv,
         \/ PrDone \/ on_pipeline \/ PrOnStake \/ OnPipelineData
         \/ PrOnNetwork \/ PrOnSlot
         \/ \E w \in {"done", "error", "lost"} : PrEnds(w)
         \/ \E x \in PrPayouts : OnBid(x)
  PROVE  PrInv'
<1>1. CASE PrDone
  BY <1>1, PrFacts, PrQuietKeeps DEF PrDone, PrQuiet
<1>2. CASE on_pipeline
  <2>1. PICK o \in PipelineAdd(prdb, PrPipe) : prdb' = o.db
    BY <1>2 DEF on_pipeline
  <2>2. DOMAIN prdb' = DOMAIN prdb /\ prdb'.payout = prdb.payout
    BY <2>1, PrFacts, StoreKeepsPayouts
  <2>3. /\ prloop' \in {prloop, "self", "hang", "dead"} /\ prline' \in {prline, "sub"}
        /\ prerrs' \in {prerrs, prerrs + 1} /\ (prerrs' = prerrs \/ prerrs < PrErrCap)
        /\ UNCHANGED <<prlist, prtodo, prseen, prhold, prexist, prsent>>
    BY <1>2 DEF on_pipeline, PrSelfReport, PrHangs, finish
  <2>4. PrQuiet
    BY <2>2, <2>3, PrFacts DEF PrQuiet, PrLines
  <2>5. QED
    BY <2>4, PrQuietKeeps
<1>3. CASE PrOnStake
  <2>1. PICK o \in StakeAppend(prdb, 0, PrPipe) : prdb' = o.db
    BY <1>3 DEF PrOnStake, Statement
  <2>2. DOMAIN prdb' = DOMAIN prdb /\ prdb'.payout = prdb.payout
    BY <2>1, PrFacts, StoreKeepsPayouts
  <2>3. PrQuiet
    BY <1>3, <2>2, PrFacts DEF PrOnStake, Statement, finish, PrQuiet, PrLines
  <2>4. QED
    BY <2>3, PrQuietKeeps
<1>4. CASE OnPipelineData
  <2>1. PrQuiet
    BY <1>4, PrFacts DEF OnPipelineData, PrQuiet, PrLines
  <2>2. QED
    BY <2>1, PrQuietKeeps
<1>5. CASE PrOnNetwork
  <2>1. PICK o \in NetworkAppend(prdb, 0) : prdb' = o.db
    BY <1>5 DEF PrOnNetwork, Statement
  <2>2. DOMAIN prdb' = DOMAIN prdb /\ prdb'.payout = prdb.payout
    BY <2>1, PrFacts, StoreKeepsPayouts
  <2>3. PrQuiet
    BY <1>5, <2>2, PrFacts DEF PrOnNetwork, Statement, finish, PrQuiet, PrLines
  <2>4. QED
    BY <2>3, PrQuietKeeps
<1>6. CASE PrOnSlot
  <2>0. PICK len : len = 10000
    OBVIOUS
  <2>1. PICK o \in TimeAppend(prdb, len) : prdb' = o.db
    BY <1>6, <2>0 DEF PrOnSlot, Statement
  <2>2. DOMAIN prdb' = DOMAIN prdb /\ prdb'.payout = prdb.payout
    BY <2>1, PrFacts, StoreKeepsPayouts
  <2>3. PrQuiet
    BY <1>6, <2>2, PrFacts DEF PrOnSlot, Statement, finish, PrQuiet, PrLines
  <2>4. QED
    BY <2>3, PrQuietKeeps
<1>7. ASSUME NEW w \in {"done", "error", "lost"}, PrEnds(w) PROVE PrInv'
  <2>1. prerrs' = prerrs \/ (prerrs > 0 /\ prerrs' = prerrs - 1)
    BY <1>7 DEF PrEnds
  <2>2. PrQuiet
    BY <1>7, <2>1, PrFacts DEF PrEnds, finish, PrQuiet, PrLines
  <2>3. QED
    BY <2>2, PrQuietKeeps
<1>8. ASSUME NEW x \in PrPayouts, OnBid(x) PROVE PrInv'
  <2>1. PICK o \in BidAppend(prdb, x) : prdb' = o.db
    BY <1>8 DEF OnBid, Statement
  <2>2. DOMAIN prdb' = DOMAIN prdb /\ prdb'.payout = prdb.payout
    BY <2>1, PrFacts, StoreKeepsPayouts
  <2>3. PrQuiet
    BY <1>8, <2>2, PrFacts DEF OnBid, Statement, finish, PrQuiet, PrLines
  <2>4. QED
    BY <2>3, PrQuietKeeps
<1>9. QED
  BY <1>1, <1>2, <1>3, <1>4, <1>5, <1>6, <1>7, <1>8

\* The sequences of a listing are sequences over what is listed.
LEMMA ListingTyped ==
  ASSUME NEW S, IsFiniteSet(S), NEW s \in SetToSeqs(S)
  PROVE  s \in Seq(S)
<1>1. PICK n : n = Cardinality(S)
  OBVIOUS
<1>2. n \in Nat
  BY <1>1, FS_CardinalityType
<1>3. s \in [1 .. n -> S]
  BY <1>1 DEF SetToSeqs
<1>4. QED
  BY <1>2, <1>3, SeqDef

LEMMA PrLineQuiet ==
  ASSUME PrInv,
         \/ LineList \/ LineAnswered \/ LineHears
         \/ \E w \in {"done", "lost", "report"} : LineEnds(w)
         \/ \E x \in PrPayouts : PrChainPayout(x)
         \/ \E x \in PrPayouts : PayReads(x) \/ PayHears(x)
         \/ \E x \in PrPayouts, w \in {"done", "lost", "report"} : PayEnds(x, w)
  PROVE  PrInv'
<1>1. CASE LineList
  <2>1. IsFiniteSet(prexist)
    BY PricingAssumption, PrFacts, FS_Subset
  <2>2. PICK s : s = prlist'
    OBVIOUS
  <2>3. s \in Seq(prexist)
    <3>1. CASE prline' = "run"
      <4>1. s \in SetToSeqs(prexist)
        BY <1>1, <2>2, <3>1 DEF LineList
      <4>2. QED
        BY <2>1, <4>1, ListingTyped
    <3>2. CASE prline' # "run"
      <4>1. s = <<>>
        BY <1>1, <2>2, <3>2 DEF LineList
      <4>2. QED
        BY <4>1
    <3>3. QED
      BY <3>1, <3>2
  <2>4. PrQuiet
    BY <1>1, <2>2, <2>3, PrFacts DEF LineList, PrQuiet, PrLines
  <2>5. QED
    BY <2>4, PrQuietKeeps
<1>2. CASE LineHears
  <2>1. PrQuiet
    BY <1>2, PrFacts DEF LineHears, PrQuiet, PrLines
  <2>2. QED
    BY <2>1, PrQuietKeeps
<1>3. ASSUME NEW w \in {"done", "lost", "report"}, LineEnds(w) PROVE PrInv'
  <2>1. prerrs' = prerrs \/ (prerrs < PrErrCap /\ prerrs' = prerrs + 1)
    BY <1>3 DEF LineEnds
  <2>2. /\ prline' = "dead" /\ prhold' = PrNone
        /\ UNCHANGED <<prloop, prdb, prlist, prtodo, prseen, prexist, prsent>>
    BY <1>3 DEF LineEnds
  <2>3. PrQuiet
    BY <2>1, <2>2, PrFacts DEF PrQuiet, PrLines
  <2>4. QED
    BY <2>3, PrQuietKeeps
<1>4. ASSUME NEW x \in PrPayouts, PrChainPayout(x) PROVE PrInv'
  <2>1. /\ prexist' = prexist \cup {x}
        /\ prtodo' = prtodo \/ prtodo' = Append(prtodo, x)
        /\ UNCHANGED <<prloop, prerrs, prdb, prline, prlist, prseen, prhold, prsent>>
    BY <1>4 DEF PrChainPayout
  <2>2. PICK T : T = prexist \cup {x}
    OBVIOUS
  <2>3. prexist \subseteq T /\ x \in T
    BY <2>2
  <2>4. prlist \in Seq(T) /\ prtodo \in Seq(T)
    BY <2>3, PrFacts, SeqMonotone
  <2>5. Append(prtodo, x) \in Seq(T)
    BY <2>3, <2>4, AppendTyped
  <2>6. PrQuiet
    BY <1>4, <2>1, <2>2, <2>4, <2>5, PrFacts DEF PrQuiet
  <2>7. QED
    BY <2>6, PrQuietKeeps
<1>5. ASSUME NEW x \in PrPayouts, PayReads(x) \/ PayHears(x) PROVE PrInv'
  <2>1. PrQuiet
    BY <1>5, PrFacts DEF PayReads, PayHears, PayStep, PrQuiet
  <2>2. QED
    BY <2>1, PrQuietKeeps
<1>6. ASSUME NEW x \in PrPayouts, NEW w \in {"done", "lost", "report"}, PayEnds(x, w)
      PROVE  PrInv'
  <2>1. prerrs' \in 0 .. PrErrCap
    <3>1. CASE w = "done"
      BY <1>6, <3>1, PrFacts DEF PayEnds
    <3>2. CASE w = "lost"
      BY <1>6, <3>2, PrFacts DEF PayEnds
    <3>3. CASE w = "report"
      BY <1>6, <3>3, PrFacts DEF PayEnds
    <3>4. QED
      BY <3>1, <3>2, <3>3
  <2>2. UNCHANGED <<prloop, prdb, prline, prlist, prtodo, prseen, prhold, prexist, prsent>>
    BY <1>6 DEF PayEnds, PayStep
  <2>3. PrQuiet
    BY <2>1, <2>2, PrFacts DEF PrQuiet
  <2>4. QED
    BY <2>3, PrQuietKeeps
<1>7. CASE LineAnswered
  <2>1. PrQuiet
    BY <1>7, PrFacts DEF LineAnswered, PrQuiet, PrLines
  <2>2. QED
    BY <2>1, PrQuietKeeps
<1>8. QED
  BY <1>1, <1>2, <1>3, <1>4, <1>5, <1>6, <1>7

\* loopPipeline takes a payout from the listing or from the subscription, and
\* what payoutM knows already it drops.
LEMMA PrTakes == ASSUME PrInv, LinePayout PROVE PrInv'
<1>1. /\ prline = "run" /\ prlist \o prtodo # <<>>
      /\ UNCHANGED <<prloop, prerrs, prdb, prexist, prsent>>
  BY DEF LinePayout
<1>2. PICK x : x = Head(prlist \o prtodo)
  OBVIOUS
<1>3. x \in prexist /\ prlist' \in Seq(prexist) /\ prtodo' \in Seq(prexist)
  <2>1. CASE prlist # <<>>
    <3>1. Head(prlist \o prtodo) = Head(prlist)
      BY <2>1, PrFacts, TailTyped, ConcatProperties
    <3>2. prlist' = Tail(prlist) /\ prtodo' = prtodo
      BY <2>1 DEF LinePayout
    <3>3. QED
      BY <1>2, <2>1, <3>1, <3>2, PrFacts, TailTyped
  <2>2. CASE prlist = <<>>
    <3>1. prlist \o prtodo = prtodo
      BY <2>2, PrFacts, ConcatEmptySeq
    <3>2. prtodo' = Tail(prtodo) /\ prlist' = prlist /\ prtodo # <<>>
      BY <1>1, <2>2, <3>1 DEF LinePayout
    <3>3. QED
      BY <1>2, <3>1, <3>2, PrFacts, TailTyped
  <2>3. QED
    BY <2>1, <2>2
<1>4. CASE x \in prseen
  <2>1. UNCHANGED <<prline, prseen, prhold>>
    BY <1>2, <1>4 DEF LinePayout, LineTakes
  <2>2. PrQuiet
    BY <1>1, <1>3, <2>1, PrFacts DEF PrQuiet
  <2>3. QED
    BY <2>2, PrQuietKeeps
<1>5. CASE x \notin prseen
  <2>1. /\ prseen' = prseen \cup {x}
        /\ prline' = "ask" /\ prhold' = x
    BY <1>2, <1>5 DEF LinePayout, LineTakes
  <2>2. x \in PrPayouts /\ prsent[x] = 0
    BY <1>3, <1>5 DEF PrInv, PrFiled
  <2>3. PrTypeOK'
    BY <1>1, <1>3, <2>1, <2>2 DEF PrInv, PrTypeOK
  <2>4. PrFiled'
    BY <1>1, <1>3, <2>1, <2>2 DEF PrInv, PrFiled
  <2>5. QED
    BY <2>3, <2>4 DEF PrInv
<1>6. QED
  BY <1>4, <1>5

LEMMA PrFiles == ASSUME PrInv, OnPeriod PROVE PrInv'
<1>1. /\ prline = "period" /\ prline' = "run" /\ prhold' = PrNone
      /\ prsent' = [prsent EXCEPT ![prhold] = @ + 1]
      /\ UNCHANGED <<prlist, prtodo, prseen, prexist>>
  BY DEF OnPeriod
<1>2. prhold \in prseen /\ prhold \in PrPayouts /\ prsent[prhold] = 0
  BY <1>1 DEF PrInv, PrTypeOK, PrFiled
<1>3. PICK o \in PayoutAppend(prdb, prhold) : prdb' = o.db
  BY DEF OnPeriod
<1>4. DOMAIN prdb' = DOMAIN prdb /\ prdb'.payout \subseteq prdb.payout \cup {prhold}
  BY <1>3, PrFacts, StoreAddsPayout
<1>5. prloop' \in {"run", "self", "hang", "dead"} /\ prerrs' \in 0 .. PrErrCap
  <2>1. /\ prloop' \in {prloop, "self", "hang", "dead"}
        /\ prerrs' = prerrs \/ (prerrs < PrErrCap /\ prerrs' = prerrs + 1)
    BY DEF OnPeriod, on_period, PrSelfReport, PrHangs, finish
  <2>2. QED
    BY <2>1, PrFacts
<1>6. PrTypeOK'
  BY <1>1, <1>2, <1>4, <1>5 DEF PrInv, PrTypeOK
<1>7. prsent' \in [PrPayouts -> 0 .. 1] /\ \A x \in PrPayouts : x # prhold => prsent'[x] = prsent[x]
  BY <1>1, <1>2 DEF PrInv, PrFiled
<1>8. PrFiled'
  BY <1>1, <1>2, <1>4, <1>7 DEF PrInv, PrFiled
<1>9. QED
  BY <1>6, <1>8 DEF PrInv

\* Every payout is handed to PayoutAppend at most once, although a payout
\* that is created while loopPipeline subscribes and lists comes twice, so
\* that the unique key of the payout table never ends the recorder.
THEOREM PrInvariance == PrSpec => [](PrTypeOK /\ PayoutRowOnce)
<1>1. PrInit => PrInv
  <2> SUFFICES ASSUME PrInit PROVE PrInv
    OBVIOUS
  <2>1. PrTypeOK
    BY PricingAssumption DEF PrInit, PrTypeOK, EmptyStore
  <2>2. PrFiled
    BY DEF PrInit, PrFiled, EmptyStore
  <2>3. QED
    BY <2>1, <2>2 DEF PrInv
<1>2. PrInv /\ [PrNext]_priceVars => PrInv'
  <2> SUFFICES ASSUME PrInv, [PrNext]_priceVars PROVE PrInv'
    OBVIOUS
  <2>1. CASE UNCHANGED priceVars
    <3>1. PrQuiet
      BY <2>1, PrFacts DEF priceVars, PrQuiet
    <3>2. QED
      BY <3>1, PrQuietKeeps
  <2>2. CASE OnPeriod
    BY <2>2, PrFiles
  <2>3. CASE LinePayout
    BY <2>3, PrTakes
  <2>4. QED
    BY <2>1, <2>2, <2>3, PrInternalQuiet, PrLineQuiet DEF PrNext, PrLine, PrPay
<1>3. PrInv => PrTypeOK /\ PayoutRowOnce
  BY DEF PrInv, PrFiled, PayoutRowOnce
<1>4. QED
  BY <1>1, <1>2, <1>3, PTL DEF PrSpec

-----------------------------------------------------------------------------
(* The pipeline relay.                                                     *)

\* The entries of the list over the payouts X: the stream of an entry has
\* RyCap places, and the status that is held is one more.
RyEntries(X) ==
    {e \in [start : Nat, m : SUBSET RyUsers, st : {"new", "run", "hold", "err", "end"},
            q : Seq(Seq(RyUsers)), evicted : BOOLEAN, del : {"new", "run", "end"}] :
        /\ e.start \in X
        /\ Len(e.q) <= RyCap + (IF e.st = "hold" THEN 1 ELSE 0)
        /\ e.st = "hold" => e.q # <<>>}

RyControl ==
    /\ rctx \in {"open", "done"} /\ rloop \in {"start", "run", "bid", "self", "hang", "dead"}
    /\ rerr \in 0 .. 1 /\ rslot \in 0 .. RyMaxSlot

\* What is on its way to loopInternal.
RyPending ==
    /\ rexist \subseteq RyPayouts
    /\ rfeed \in Seq(rexist)
    /\ DOMAIN rall = {"st", "todo"} /\ rall.todo \in Seq(rexist)
    /\ DOMAIN rcur = {"i", "todo"} /\ rcur.todo \in Seq(RyUsers)
    /\ rreq \in Seq(RyUsers) /\ Len(rreq) <= RyReqCap

RyBidders ==
    rbidder \in [RyUsers -> [st : {"none", "sub", "wait", "run", "dead"}, bid : 0 .. 1,
                             tps : 0 .. RyCap, evicted : BOOLEAN]]

RyListed == rlist \in Seq(RyEntries(rexist)) /\ SortedUnlessLate

RyInv == RyControl /\ RyPending /\ RyBidders /\ RyListed

LEMMA RyInvGives == ASSUME RyInv PROVE RyTypeOK /\ SortedUnlessLate
<1>1. \A i \in DOMAIN rlist : rlist[i] \in RyEntries(rexist)
  BY LenProperties, ElementOfSeq DEF RyInv, RyListed
<1>2. ASSUME NEW e \in RyEntries(rexist)
      PROVE  /\ e.start \in rexist /\ e.m \subseteq RyUsers
             /\ e.st \in {"new", "run", "hold", "err", "end"}
             /\ e.del \in {"new", "run", "end"}
             /\ Len(e.q) <= RyCap + 1
  <2>1. Len(e.q) \in Nat /\ RyCap \in Nat
    BY PipelineRelayAssumption, LenProperties DEF RyEntries
  <2>2. QED
    BY <2>1 DEF RyEntries
<1>3. QED
  BY <1>1, <1>2 DEF RyInv, RyControl, RyPending, RyBidders, RyListed, RyTypeOK

\* A step that changes entries in place and leaves their starts.
LEMMA RyInPlace ==
  ASSUME RyListed, rlate' = rlate, rexist' = rexist, NEW l, l = rlist',
         l = [i \in DOMAIN rlist |-> l[i]],
         \A i \in DOMAIN rlist : l[i] \in RyEntries(rexist) /\ l[i].start = rlist[i].start
  PROVE  RyListed'
<1>1. PICK n \in Nat : DOMAIN rlist = 1 .. n
  BY LenProperties DEF RyListed
<1>2. DOMAIN l = 1 .. n
  BY <1>1
<1>3. l \in [1 .. n -> RyEntries(rexist)]
  BY <1>1
<1>4. l \in Seq(RyEntries(rexist))
  BY <1>3, SeqDef
<1>5. SortedUnlessLate'
  BY <1>1, <1>2 DEF RyListed, SortedUnlessLate
<1>6. QED
  BY <1>4, <1>5 DEF RyListed

\* The entry that stands at a place of the list.
LEMMA RyEntryAt ==
  ASSUME RyListed, NEW i \in DOMAIN rlist, NEW e, e = rlist[i]
  PROVE  /\ e \in RyEntries(rexist) /\ e.start \in rexist /\ e.start \in Nat
         /\ e.q \in Seq(Seq(RyUsers)) /\ Len(e.q) \in Nat
<1>1. e \in RyEntries(rexist)
  BY LenProperties, ElementOfSeq DEF RyListed
<1>2. QED
  BY <1>1, LenProperties DEF RyEntries

\* A new state and stream of an entry.
LEMMA EntryFields ==
  ASSUME NEW X, NEW e \in RyEntries(X), NEW q \in Seq(Seq(RyUsers)),
         NEW st \in {"new", "run", "hold", "err", "end"},
         NEW room, room = (IF st = "hold" THEN 1 ELSE 0), Len(q) <= RyCap + room,
         st = "hold" => q # <<>>, NEW f, f = [e EXCEPT !.st = st, !.q = q]
  PROVE  f \in RyEntries(X)
<1> DEFINE Q == Seq(Seq(RyUsers))
           R == [start : Nat, m : SUBSET RyUsers, st : {"new", "run", "hold", "err", "end"},
                 q : Q, evicted : BOOLEAN, del : {"new", "run", "end"}]
<1>1. e \in R /\ e.start \in X
  BY DEF RyEntries
<1>2. q \in Q
  OBVIOUS
<1> HIDE DEF Q
<1>4. f \in R /\ f.st = st /\ f.q = q /\ f.start = e.start
  BY <1>1, <1>2
<1> USE DEF Q
<1>5. f \in RyEntries(X)
  <2> HIDE DEF R
  <2>1. /\ f.start \in X
        /\ Len(f.q) <= RyCap + (IF f.st = "hold" THEN 1 ELSE 0)
        /\ f.st = "hold" => f.q # <<>>
    BY <1>1, <1>4
  <2>2. QED
    BY <1>4, <2>1 DEF RyEntries, R
<1>6. QED
  BY <1>5

\* Changes of an entry that keep it an entry.
LEMMA EntryMoves ==
  ASSUME NEW X, NEW e \in RyEntries(X)
  PROVE  /\ \A d \in {"run", "end"} : [e EXCEPT !.del = d] \in RyEntries(X)
         /\ [e EXCEPT !.evicted = TRUE] \in RyEntries(X)
         /\ \A u \in RyUsers : [e EXCEPT !.m = @ \cup {u}] \in RyEntries(X)
         /\ e.st = "new" => [e EXCEPT !.st = "run"] \in RyEntries(X)
         /\ e.st = "run" /\ e.q # <<>> => [e EXCEPT !.st = "hold"] \in RyEntries(X)
         /\ e.st \in {"new", "run"} => [e EXCEPT !.st = "err"] \in RyEntries(X)
         /\ [e EXCEPT !.st = "end", !.q = <<>>] \in RyEntries(X)
<1>1. Len(e.q) \in Nat /\ RyCap \in Nat /\ e.q \in Seq(Seq(RyUsers))
  BY PipelineRelayAssumption, LenProperties DEF RyEntries
<1>2. \A d \in {"run", "end"} : [e EXCEPT !.del = d] \in RyEntries(X)
  BY DEF RyEntries
<1>3. [e EXCEPT !.evicted = TRUE] \in RyEntries(X)
  BY DEF RyEntries
<1>4. \A u \in RyUsers : [e EXCEPT !.m = @ \cup {u}] \in RyEntries(X)
  BY DEF RyEntries
<1>5. e.st = "new" => [e EXCEPT !.st = "run"] \in RyEntries(X)
  BY DEF RyEntries
<1>6. e.st = "run" /\ e.q # <<>> => [e EXCEPT !.st = "hold"] \in RyEntries(X)
  BY <1>1 DEF RyEntries
<1>7. e.st \in {"new", "run"} => [e EXCEPT !.st = "err"] \in RyEntries(X)
  BY DEF RyEntries
<1>8. [e EXCEPT !.st = "end", !.q = <<>>] \in RyEntries(X)
  <2>1. PICK q : q = <<>>
    OBVIOUS
  <2>2. q \in Seq(Seq(RyUsers)) /\ Len(q) = 0
    BY <2>1
  <2>3. [e EXCEPT !.st = "end", !.q = q] \in RyEntries(X)
    <3>1. PICK f : f = [e EXCEPT !.st = "end", !.q = q]
      OBVIOUS
    <3>2. PICK st : st = "end"
      OBVIOUS
    <3>3. PICK room : room = (IF st = "hold" THEN 1 ELSE 0)
      OBVIOUS
    <3>4. Len(q) <= RyCap + room
      BY <1>1, <2>2, <3>2, <3>3
    <3>5. f \in RyEntries(X)
      BY <2>2, <3>1, <3>2, <3>3, <3>4, EntryFields
    <3>6. QED
      BY <3>1, <3>5
  <2>4. QED
    BY <2>1, <2>3
<1>9. QED
  BY <1>2, <1>3, <1>4, <1>5, <1>6, <1>7, <1>8

\* The stream of an entry, to which a status is added and from which the one
\* that is held is taken.
LEMMA EntryStreams ==
  ASSUME NEW X, NEW e \in RyEntries(X), NEW b \in Seq(RyUsers)
  PROVE  /\ Broadcast(e, b) \in RyEntries(X) /\ Broadcast(e, b).start = e.start
         /\ e.st = "hold" => /\ Head(e.q) \in Seq(RyUsers)
                             /\ [e EXCEPT !.st = "run", !.q = Tail(@)] \in RyEntries(X)
<1>1. Len(e.q) \in Nat /\ RyCap \in Nat /\ e.q \in Seq(Seq(RyUsers))
  BY PipelineRelayAssumption, LenProperties DEF RyEntries
<1>2. Broadcast(e, b) \in RyEntries(X) /\ Broadcast(e, b).start = e.start
  <2>1. PICK q : q = Append(e.q, b)
    OBVIOUS
  <2>2. q \in Seq(Seq(RyUsers)) /\ Len(q) = Len(e.q) + 1 /\ q # <<>>
    BY <1>1, <2>1, AppendTyped
  <2>3. ASSUME Len(e.q) < RyCap + (IF e.st = "hold" THEN 1 ELSE 0)
        PROVE  [e EXCEPT !.q = q] \in RyEntries(X) /\ [e EXCEPT !.q = q].start = e.start
    <3>1. PICK st : st = e.st
      OBVIOUS
    <3>2. st \in {"new", "run", "hold", "err", "end"}
      BY <3>1 DEF RyEntries
    <3>3. [e EXCEPT !.st = st, !.q = q] \in RyEntries(X)
      <4>1. PICK f : f = [e EXCEPT !.st = st, !.q = q]
        OBVIOUS
      <4>2. PICK room : room = (IF st = "hold" THEN 1 ELSE 0)
        OBVIOUS
      <4>3. Len(q) <= RyCap + room
        BY <1>1, <2>2, <2>3, <3>1, <4>2
      <4>4. f \in RyEntries(X)
        BY <2>2, <3>2, <4>1, <4>2, <4>3, EntryFields
      <4>5. QED
        BY <4>1, <4>4
    <3>4. /\ [e EXCEPT !.st = st, !.q = q] = [e EXCEPT !.q = q]
          /\ [e EXCEPT !.q = q].start = e.start
      BY <3>1 DEF RyEntries
    <3>5. QED
      BY <3>3, <3>4
  <2>4. [e EXCEPT !.evicted = TRUE] \in RyEntries(X) /\ [e EXCEPT !.evicted = TRUE].start = e.start
    BY DEF RyEntries
  <2>5. \/ Broadcast(e, b) = e
        \/ /\ Len(e.q) < RyCap + (IF e.st = "hold" THEN 1 ELSE 0)
           /\ Broadcast(e, b) = [e EXCEPT !.q = q]
        \/ Broadcast(e, b) = [e EXCEPT !.evicted = TRUE]
    BY <2>1 DEF Broadcast
  <2>6. QED
    BY <2>3, <2>4, <2>5
<1>3. ASSUME e.st = "hold"
      PROVE  Head(e.q) \in Seq(RyUsers) /\ [e EXCEPT !.st = "run", !.q = Tail(@)] \in RyEntries(X)
  <2>1. e.q # <<>> /\ Len(e.q) <= RyCap + 1
    BY <1>3 DEF RyEntries
  <2>2. PICK q : q = Tail(e.q)
    OBVIOUS
  <2>3. Head(e.q) \in Seq(RyUsers) /\ q \in Seq(Seq(RyUsers)) /\ Len(q) <= RyCap
    BY <1>1, <2>1, <2>2, TailTyped
  <2>4. [e EXCEPT !.st = "run", !.q = q] \in RyEntries(X)
    <3>1. PICK f : f = [e EXCEPT !.st = "run", !.q = q]
      OBVIOUS
    <3>2. PICK st : st = "run"
      OBVIOUS
    <3>3. PICK room : room = (IF st = "hold" THEN 1 ELSE 0)
      OBVIOUS
    <3>4. Len(q) <= RyCap + room
      BY <1>1, <2>3, <3>2, <3>3
    <3>5. f \in RyEntries(X)
      BY <2>3, <3>1, <3>2, <3>3, <3>4, EntryFields
    <3>6. QED
      BY <3>1, <3>5
  <2>5. QED
    BY <2>2, <2>3, <2>4
<1>4. QED
  BY <1>2, <1>3

\* Insertion into a sequence keeps its type.
LEMMA InsertTyped ==
  ASSUME NEW S, NEW s \in Seq(S), NEW e \in S, NEW i \in 1 .. Len(s)
  PROVE  InsertAt(s, i + 1, e) \in Seq(S)
<1>1. Len(s) \in Nat /\ i + 1 - 1 = i
  BY LenProperties
<1>2. SubSeq(s, 1, i) \in Seq(S) /\ SubSeq(s, i + 1, Len(s)) \in Seq(S)
  BY <1>1, SubSeqProperties
<1>3. <<e>> \in Seq(S)
  OBVIOUS
<1>4. SubSeq(s, 1, i) \o <<e>> \o SubSeq(s, i + 1, Len(s)) \in Seq(S)
  BY <1>2, <1>3, ConcatProperties
<1>5. QED
  BY <1>1, <1>4 DEF InsertAt

\* find: a payout that is not in a sorted list and is to be appended starts
\* after all others, and the target of an insertion is a place of the list.
LEMMA FindRight ==
  ASSUME RyInv, NEW p \in Nat, find(p).exact = 0
  PROVE  \/ /\ find(p).target = 0
            /\ Len(rlist) = 0 \/ rlist[Len(rlist)].start < p
         \/ find(p).target \in 1 .. Len(rlist)
<1>1. PICK n : n = Len(rlist)
  OBVIOUS
<1>2. n \in Nat /\ DOMAIN rlist = 1 .. n
  BY <1>1, LenProperties DEF RyInv, RyListed
<1>3. CASE n = 0 \/ rlist[n].start < p
  BY <1>1, <1>3 DEF find
<1>4. CASE ~(n = 0 \/ rlist[n].start < p)
  <2>1. PICK I : I = {i \in 1 .. Len(rlist) : p <= rlist[i].start}
    OBVIOUS
  <2>2. n \in DOMAIN rlist /\ rlist[n].start \in Nat
    <3>1. n \in DOMAIN rlist
      BY <1>2, <1>4
    <3>2. QED
      BY <3>1, RyEntryAt DEF RyInv
  <2>3. n \in I
    BY <1>1, <1>2, <1>4, <2>1, <2>2
  <2>4. I \in SUBSET Nat /\ I # {}
    BY <1>1, <1>2, <2>1, <2>3
  <2>5. \E x \in I : \A y \in I : x <= y
    BY <2>4, LeastExists
  <2>6. Min(I) \in I
    BY <2>5 DEF Min
  <2>7. SelectInSeq(rlist, LAMBDA e : p <= e.start) = Min(I)
    BY <2>1, <2>4 DEF SelectInSeq
  <2>8. find(p).target = Min(I) \/ find(p).exact = Min(I)
    BY <1>1, <1>4, <2>7 DEF find
  <2>9. Min(I) \in 1 .. n
    BY <1>1, <2>1, <2>6
  <2>10. QED
    BY <1>1, <1>2, <2>8, <2>9
<1>5. QED
  BY <1>3, <1>4

\* on_payout: at the end of the list, or somewhere in it, and then late.
LEMMA OnPayoutKeeps ==
  ASSUME RyInv, NEW p \in rexist, on_payout(p), rexist' = rexist
  PROVE  /\ RyListed' /\ rloop' \in {rloop, "self", "hang"} /\ rerr' \in 0 .. 1
<1>1. p \in Nat /\ rexist \subseteq RyPayouts
  BY PipelineRelayAssumption DEF RyInv, RyPending
<1>2. rloop' \in {rloop, "self", "hang"} /\ rerr' \in 0 .. 1
  BY DEF on_payout, SelfReport, RyInv, RyControl
<1>3. CASE UNCHANGED <<rlist, rlate>>
  BY <1>2, <1>3 DEF RyInv, RyListed, SortedUnlessLate
<1>4. CASE ~UNCHANGED <<rlist, rlate>>
  <2>1. PICK final \in BOOLEAN :
          /\ find(p).exact = 0
          /\ rlist' = Placed(pbs_create(p, final), find(p).target)
          /\ rlate' = (rlate \/ find(p).target # 0)
    BY <1>4 DEF on_payout
  <2>2. PICK e : e = pbs_create(p, final)
    OBVIOUS
  <2>3. e \in RyEntries(rexist) /\ e.start = p
    <3>1. PICK q : q = <<>>
      OBVIOUS
    <3>2. q \in Seq(Seq(RyUsers)) /\ Len(q) = 0
      BY <3>1
    <3>3. PICK st \in {"new", "end"} :
            e = [start |-> p, m |-> {}, st |-> st, q |-> q, evicted |-> FALSE, del |-> "new"]
      BY <2>2, <3>1 DEF pbs_create
    <3>4. e.q = q /\ e.st = st /\ e.start = p
      BY <3>3
    <3>5. QED
      BY <1>1, <3>2, <3>3, <3>4, PipelineRelayAssumption DEF RyEntries
  <2>4. PICK n : n = Len(rlist)
    OBVIOUS
  <2>5. n \in Nat /\ DOMAIN rlist = 1 .. n /\ rlist \in Seq(RyEntries(rexist))
    BY <2>4, LenProperties DEF RyInv, RyListed
  <2>6. CASE find(p).target = 0
    <3>1. n = 0 \/ rlist[n].start < p
      BY <1>1, <2>1, <2>4, <2>5, <2>6, FindRight
    <3>2. PICK l : l = rlist'
      OBVIOUS
    <3>3. l = Append(rlist, e) /\ (~rlate' => ~rlate)
      <4>1. l = Append(rlist, e)
        BY <2>1, <2>2, <2>6, <3>2 DEF Placed
      <4>2. ~rlate' => ~rlate
        BY <2>1
      <4>3. QED
        BY <4>1, <4>2
    <3>4. /\ l \in Seq(RyEntries(rexist)) /\ Len(l) = n + 1 /\ DOMAIN l = 1 .. n + 1
          /\ \A i \in 1 .. n : l[i] = rlist[i]
          /\ l[n + 1] = e
      BY <2>3, <2>4, <2>5, <3>3, AppendTyped, LenProperties
    <3>5. ASSUME ~rlate, NEW i \in DOMAIN l, NEW j \in DOMAIN l, i < j
          PROVE  l[i].start < l[j].start
      <4>1. i \in 1 .. n /\ l[i] = rlist[i] /\ rlist[i].start \in Nat
        BY <2>5, <3>4, <3>5, RyEntryAt DEF RyInv
      <4>2. CASE j \in 1 .. n
        BY <2>5, <3>4, <3>5, <4>1, <4>2 DEF RyInv, RyListed, SortedUnlessLate
      <4>3. CASE j = n + 1
        <5>1. n # 0 /\ n \in DOMAIN rlist /\ rlist[n].start < p
          BY <2>5, <3>1, <4>1
        <5>2. rlist[n].start \in Nat
          BY <5>1, RyEntryAt DEF RyInv
        <5>3. i = n \/ rlist[i].start < rlist[n].start
          BY <2>5, <3>5, <4>1, <5>1 DEF RyInv, RyListed, SortedUnlessLate
        <5>4. QED
          BY <1>1, <2>3, <3>4, <4>1, <4>3, <5>1, <5>2, <5>3
      <4>4. QED
        BY <2>5, <3>4, <4>2, <4>3
    <3>6. SortedUnlessLate'
      BY <3>2, <3>3, <3>5 DEF SortedUnlessLate
    <3>7. RyListed'
      BY <3>2, <3>4, <3>6 DEF RyListed
    <3>8. QED
      BY <1>2, <3>7
  <2>7. CASE find(p).target # 0
    <3>1. find(p).target \in 1 .. Len(rlist)
      BY <1>1, <2>1, <2>7, FindRight
    <3>2. PICK t : t = find(p).target
      OBVIOUS
    <3>3. t \in 1 .. Len(rlist) /\ rlist' = InsertAt(rlist, t + 1, e) /\ rlate'
      BY <2>1, <2>2, <2>7, <3>1, <3>2 DEF Placed
    <3>4. rlist' \in Seq(RyEntries(rexist))
      BY <2>3, <2>5, <3>3, InsertTyped
    <3>5. RyListed'
      BY <3>3, <3>4 DEF RyListed, SortedUnlessLate
    <3>6. QED
      BY <1>2, <3>5
  <2>8. QED
    BY <2>6, <2>7
<1>5. QED
  BY <1>3, <1>4

\* The steps of the list's users: what a payout's goroutines do to its entry.
LEMMA RyEntrySteps ==
  ASSUME RyInv, NEW i \in DOMAIN rlist,
         \/ DeletePayout(i) \/ StatusMoves(i) \/ StatusReports(i) \/ on_bid_status(i)
         \/ DeleteSubscribes(i) \/ DeleteLoses(i)
         \/ StatusSubscribes(i) \/ StatusCloses(i)
  PROVE  RyInv'
<1>1. PICK e : e = rlist[i]
  OBVIOUS
<1>2. e \in RyEntries(rexist) /\ RyListed
  BY <1>1, RyEntryAt DEF RyInv
<1>3. ASSUME NEW g, g \in RyEntries(rexist), g.start = e.start,
             rlist' = [rlist EXCEPT ![i] = g], UNCHANGED <<rexist, rlate>>
      PROVE  RyListed'
  <2>1. PICK l : l = rlist'
    OBVIOUS
  <2>2. \A j \in DOMAIN rlist : rlist[j] \in RyEntries(rexist)
    BY <1>2, RyEntryAt
  <2>3. l = [j \in DOMAIN rlist |-> IF j = i THEN g ELSE rlist[j]]
    BY <1>3, <2>1
  <2>4. /\ l = [j \in DOMAIN rlist |-> l[j]]
        /\ \A j \in DOMAIN rlist : l[j] \in RyEntries(rexist) /\ l[j].start = rlist[j].start
    BY <1>1, <1>3, <2>2, <2>3
  <2>5. QED
    BY <1>2, <1>3, <2>1, <2>4, RyInPlace
<1>4. CASE DeletePayout(i) \/ DeleteSubscribes(i) \/ DeleteLoses(i)
  <2>1. PICK d \in {"run", "end"} : DeleteStep(i, d) /\ rerr' \in {rerr, 1}
    BY <1>4 DEF DeletePayout, DeleteSubscribes, DeleteLoses
  <2>2. PICK g : g = [e EXCEPT !.del = d]
    OBVIOUS
  <2>3. g \in RyEntries(rexist) /\ g.start = e.start
    <3>1. g \in RyEntries(rexist)
      BY <1>2, <2>2, EntryMoves
    <3>2. g.start = e.start
      BY <1>2, <2>2 DEF RyEntries
    <3>3. QED
      BY <3>1, <3>2
  <2>4. rlist' = [rlist EXCEPT ![i] = g]
    BY <1>1, <2>1, <2>2 DEF DeleteStep
  <2>5. RyListed'
    BY <1>3, <2>1, <2>3, <2>4 DEF DeleteStep
  <2>6. QED
    BY <2>1, <2>5 DEF DeleteStep, RyInv, RyControl, RyPending, RyBidders
<1>5. CASE StatusMoves(i) \/ StatusSubscribes(i) \/ StatusCloses(i)
  <2>1. PICK g : /\ EntryStep(i, g)
                 /\ \/ e.st = "new" /\ g = [e EXCEPT !.st = "run"]
                    \/ e.st = "run" /\ e.q # <<>> /\ g = [e EXCEPT !.st = "hold"]
                    \/ e.st \in {"new", "run"} /\ g = [e EXCEPT !.st = "err"]
                    \/ g = [e EXCEPT !.st = "end", !.q = <<>>]
    BY <1>1, <1>5 DEF StatusMoves, StatusSubscribes, StatusCloses
  <2>2. g \in RyEntries(rexist)
    BY <1>2, <2>1, EntryMoves
  <2>3. g.start = e.start
    BY <1>2, <2>1 DEF RyEntries
  <2>4. RyListed'
    BY <1>3, <2>1, <2>2, <2>3 DEF EntryStep
  <2>5. QED
    BY <1>5, <2>1, <2>4
       DEF StatusMoves, StatusSubscribes, StatusCloses, EntryStep, RyInv, RyControl,
           RyPending, RyBidders
<1>6. CASE StatusReports(i)
  <2>1. PICK g : g = [e EXCEPT !.st = "end", !.q = <<>>]
    OBVIOUS
  <2>2. g \in RyEntries(rexist)
    BY <1>2, <2>1, EntryMoves
  <2>3. g.start = e.start /\ EntryStep(i, g)
    BY <1>1, <1>2, <1>6, <2>1 DEF RyEntries, StatusReports
  <2>4. RyListed'
    BY <1>3, <2>2, <2>3 DEF EntryStep
  <2>5. QED
    BY <1>6, <2>3, <2>4 DEF StatusReports, EntryStep, RyInv, RyControl, RyPending, RyBidders
<1>7. CASE on_bid_status(i)
  <2>1. PICK g : g = [e EXCEPT !.st = "run", !.q = Tail(@)]
    OBVIOUS
  <2>2. e.st = "hold" /\ EntryStep(i, g)
    BY <1>1, <1>7, <2>1 DEF on_bid_status
  <2>3. <<>> \in Seq(RyUsers)
    OBVIOUS
  <2>4. g \in RyEntries(rexist) /\ Head(e.q) \in Seq(RyUsers)
    BY <1>2, <2>1, <2>2, <2>3, EntryStreams
  <2>5. g.start = e.start
    BY <1>2, <2>1 DEF RyEntries
  <2>6. RyListed'
    BY <1>3, <2>2, <2>4, <2>5 DEF EntryStep
  <2>7. \/ UNCHANGED <<rloop, rcur>>
        \/ rloop' = "bid" /\ \E j : rcur' = [i |-> j, todo |-> Head(e.q)]
    BY <1>1, <1>7 DEF on_bid_status
  <2>8. RyPending'
    BY <2>2, <2>4, <2>7 DEF EntryStep, RyInv, RyPending
  <2>9. RyControl' /\ RyBidders'
    BY <1>7, <2>2, <2>7 DEF on_bid_status, EntryStep, RyInv, RyControl, RyBidders
  <2>10. QED
    BY <2>6, <2>8, <2>9 DEF RyInv
<1>8. QED
  BY <1>4, <1>5, <1>6, <1>7

\* The steps by which payouts come and bids change.
LEMMA RyChain ==
  ASSUME RyInv, NEW p \in RyPayouts,
         ChainPayout(p) \/ \E b \in RyBooks : ChainBook(p, b)
  PROVE  RyInv'
<1>1. CASE ChainPayout(p)
  <2>1. PICK T : T = rexist \cup {p}
    OBVIOUS
  <2>2. rexist \subseteq T /\ p \in T /\ T \subseteq RyPayouts /\ rexist' = T
    BY <1>1, <2>1 DEF ChainPayout, RyInv, RyPending
  <2>3. rfeed \in Seq(T) /\ rall.todo \in Seq(T)
    BY <2>2, SeqMonotone DEF RyInv, RyPending
  <2>4. Append(rfeed, p) \in Seq(T)
    BY <2>2, <2>3, AppendTyped
  <2>5. RyPending'
    BY <1>1, <2>2, <2>3, <2>4 DEF ChainPayout, RyInv, RyPending
  <2>6. RyEntries(rexist) \subseteq RyEntries(T)
    BY <2>2 DEF RyEntries
  <2>7. rlist \in Seq(RyEntries(T))
    BY <2>6, SeqMonotone DEF RyInv, RyListed
  <2>8. RyListed'
    BY <1>1, <2>2, <2>7 DEF ChainPayout, RyInv, RyListed, SortedUnlessLate
  <2>9. RyControl' /\ RyBidders'
    BY <1>1 DEF ChainPayout, RyInv, RyControl, RyBidders
  <2>10. QED
    BY <2>5, <2>8, <2>9 DEF RyInv
<1>2. ASSUME NEW b \in RyBooks, ChainBook(p, b) PROVE RyInv'
  <2>1. b \in Seq(RyUsers)
    BY PipelineRelayAssumption
  <2>2. PICK l : l = rlist'
    OBVIOUS
  <2>3. l = [i \in DOMAIN rlist |->
               IF rlist[i].start = p THEN Broadcast(rlist[i], b) ELSE rlist[i]]
    BY <1>2, <2>2 DEF ChainBook
  <2>4. ASSUME NEW i \in DOMAIN rlist
        PROVE  l[i] \in RyEntries(rexist) /\ l[i].start = rlist[i].start
    <3>1. PICK e : e = rlist[i]
      OBVIOUS
    <3>2. e \in RyEntries(rexist)
      BY <3>1, RyEntryAt DEF RyInv
    <3>3. Broadcast(e, b) \in RyEntries(rexist) /\ Broadcast(e, b).start = e.start
      BY <2>1, <3>2, EntryStreams
    <3>4. l[i] = e \/ l[i] = Broadcast(e, b)
      BY <2>3, <3>1
    <3>5. QED
      BY <3>1, <3>2, <3>3, <3>4
  <2>5. l = [i \in DOMAIN rlist |-> l[i]]
    BY <2>3
  <2>6. RyListed /\ rlate' = rlate /\ rexist' = rexist
    BY <1>2 DEF ChainBook, RyInv
  <2>7. RyListed'
    BY <2>2, <2>4, <2>5, <2>6, RyInPlace
  <2>8. QED
    BY <1>2, <2>7 DEF ChainBook, RyInv, RyControl, RyPending, RyBidders
<1>3. QED
  BY <1>1, <1>2

\* The listing and the subscription.
LEMMA RyFeeds ==
  ASSUME RyInv, OnFeed \/ AllRead \/ AllSend \/ AllEnds
  PROVE  RyInv'
<1>1. CASE OnFeed
  <2>1. /\ rloop = "run" /\ rfeed # <<>> /\ on_payout(Head(rfeed)) /\ rfeed' = Tail(rfeed)
        /\ UNCHANGED <<rctx, rslot, rexist, rall, rcur, rbidder, rreq>>
    BY <1>1 DEF OnFeed
  <2>2. Head(rfeed) \in rexist /\ Tail(rfeed) \in Seq(rexist)
    BY <2>1, TailTyped DEF RyInv, RyPending
  <2>3. RyListed' /\ rloop' \in {rloop, "self", "hang"} /\ rerr' \in 0 .. 1
    BY <2>1, <2>2, OnPayoutKeeps
  <2>4. QED
    BY <2>1, <2>2, <2>3 DEF RyInv, RyControl, RyPending, RyBidders
<1>2. CASE AllRead
  <2>1. IsFiniteSet(rexist)
    BY PipelineRelayAssumption, FS_Subset DEF RyInv, RyPending
  <2>2. PICK s : s = rall'.todo
    OBVIOUS
  <2>3. /\ DOMAIN rall' = {"st", "todo"} /\ s \in SetToSeqs(rexist) \cup {<<>>}
    BY <1>2, <2>2 DEF AllRead, AllPayouts
  <2>4. s \in Seq(rexist)
    <3>1. CASE s \in SetToSeqs(rexist)
      BY <2>1, <3>1, ListingTyped
    <3>2. CASE s = <<>>
      BY <3>2
    <3>3. QED
      BY <2>3, <3>1, <3>2
  <2>5. RyPending'
    BY <1>2, <2>2, <2>3, <2>4 DEF AllRead, RyInv, RyPending
  <2>6. QED
    BY <1>2, <2>5 DEF AllRead, RyInv, RyControl, RyBidders, RyListed, SortedUnlessLate
<1>3. CASE AllSend
  <2>1. /\ rloop = "run" /\ rall.todo # <<>> /\ on_payout(Head(rall.todo))
        /\ rall' = [rall EXCEPT !.todo = Tail(@)]
        /\ UNCHANGED <<rctx, rslot, rexist, rfeed, rcur, rbidder, rreq>>
    BY <1>3 DEF AllSend
  <2>2. Head(rall.todo) \in rexist /\ Tail(rall.todo) \in Seq(rexist)
    BY <2>1, TailTyped DEF RyInv, RyPending
  <2>3. RyListed' /\ rloop' \in {rloop, "self", "hang"} /\ rerr' \in 0 .. 1
    BY <2>1, <2>2, OnPayoutKeeps
  <2>4. DOMAIN rall' = {"st", "todo"} /\ rall'.todo \in Seq(rexist)
    BY <2>1, <2>2 DEF RyInv, RyPending
  <2>5. QED
    BY <2>1, <2>3, <2>4 DEF RyInv, RyControl, RyPending, RyBidders
<1>4. CASE AllEnds
  <2>1. DOMAIN rall' = {"st", "todo"} /\ rall'.todo \in Seq(rexist)
    BY <1>4 DEF AllEnds
  <2>2. RyPending'
    BY <1>4, <2>1 DEF AllEnds, RyInv, RyPending
  <2>3. QED
    BY <1>4, <2>2 DEF AllEnds, RyInv, RyControl, RyBidders, RyListed, SortedUnlessLate
<1>5. QED
  BY <1>1, <1>2, <1>3, <1>4

RyBidder == [st : {"none", "sub", "wait", "run", "dead"}, bid : 0 .. 1,
             tps : 0 .. RyCap, evicted : BOOLEAN]

\* A bid of the status that loopInternal works on.
LEMMA RyBids == ASSUME RyInv, BidNext \/ BidReturns PROVE RyInv'
<1>1. CASE BidNext
  <2>1. PICK u : u = Head(rcur.todo)
    OBVIOUS
  <2>2. /\ rcur.todo # <<>> /\ rcur' = [rcur EXCEPT !.todo = Tail(@)]
        /\ rlist' = [rlist EXCEPT ![rcur.i].m = @ \cup {u}]
        /\ \/ rbidder' = [rbidder EXCEPT ![u].st = "sub"]
           \/ rbidder' = [rbidder EXCEPT ![u].bid = 1]
           \/ UNCHANGED rbidder
        /\ UNCHANGED <<rctx, rloop, rerr, rslot, rexist, rall, rfeed, rreq, rlate>>
    BY <1>1, <2>1 DEF BidNext
  <2>3. u \in RyUsers /\ Tail(rcur.todo) \in Seq(RyUsers)
    BY <2>1, <2>2, TailTyped DEF RyInv, RyPending
  <2>4. RyPending'
    BY <2>2, <2>3 DEF RyInv, RyPending
  <2>5. RyBidders'
    <3>1. rbidder \in [RyUsers -> RyBidder]
      BY DEF RyInv, RyBidders, RyBidder
    <3>2. PICK b : b = rbidder[u]
      OBVIOUS
    <3>3. b \in RyBidder
      BY <2>3, <3>1, <3>2
    <3>4. [b EXCEPT !.st = "sub"] \in RyBidder /\ [b EXCEPT !.bid = 1] \in RyBidder
      BY <3>3 DEF RyBidder
    <3>5. \/ rbidder' = [rbidder EXCEPT ![u] = [b EXCEPT !.st = "sub"]]
          \/ rbidder' = [rbidder EXCEPT ![u] = [b EXCEPT !.bid = 1]]
          \/ rbidder' = rbidder
      BY <2>2, <3>2
    <3>6. rbidder' \in [RyUsers -> RyBidder]
      BY <2>3, <3>1, <3>4, <3>5
    <3>7. QED
      BY <3>6 DEF RyBidders, RyBidder
  <2>6. RyListed'
    <3>1. PICK l : l = rlist'
      OBVIOUS
    <3>2. l = [j \in DOMAIN rlist |->
                 IF j = rcur.i THEN [rlist[j] EXCEPT !.m = @ \cup {u}] ELSE rlist[j]]
      BY <2>2, <3>1
    <3>3. ASSUME NEW j \in DOMAIN rlist
          PROVE  l[j] \in RyEntries(rexist) /\ l[j].start = rlist[j].start
      <4>1. PICK e : e = rlist[j]
        OBVIOUS
      <4>2. e \in RyEntries(rexist)
        BY <4>1, RyEntryAt DEF RyInv
      <4>3. [e EXCEPT !.m = @ \cup {u}] \in RyEntries(rexist)
        BY <2>3, <4>2, EntryMoves
      <4>4. [e EXCEPT !.m = @ \cup {u}].start = e.start
        BY <4>2 DEF RyEntries
      <4>5. l[j] = e \/ l[j] = [e EXCEPT !.m = @ \cup {u}]
        BY <3>2, <4>1
      <4>6. QED
        BY <4>1, <4>2, <4>3, <4>4, <4>5
    <3>4. l = [j \in DOMAIN rlist |-> l[j]]
      BY <3>2
    <3>5. RyListed /\ rlate' = rlate /\ rexist' = rexist
      BY <2>2 DEF RyInv
    <3>6. QED
      BY <3>1, <3>3, <3>4, <3>5, RyInPlace
  <2>7. QED
    BY <2>2, <2>4, <2>5, <2>6 DEF RyInv, RyControl
<1>2. CASE BidReturns
  <2>1. RyPending'
    BY <1>2 DEF BidReturns, RyNoStatus, RyInv, RyPending
  <2>2. QED
    BY <1>2, <2>1 DEF BidReturns, RyInv, RyControl, RyBidders, RyListed, SortedUnlessLate
<1>3. QED
  BY <1>1, <1>2

\* The goroutines of the bidders and the capacity they subscribe to.
LEMMA RyBidderSteps ==
  ASSUME RyInv,
         \/ pipelineTpsHomeReceive \/ OnTps
         \/ \E u \in RyUsers : BidderAsks(u) \/ BidderReads(u) \/ BidderEnds(u)
  PROVE  RyInv'
<1>0. /\ rbidder \in [RyUsers -> RyBidder] /\ rreq \in Seq(RyUsers)
      /\ Len(rreq) <= RyReqCap /\ RyReqCap \in Nat
  BY PipelineRelayAssumption DEF RyInv, RyBidders, RyBidder, RyPending
<1>1. ASSUME NEW u \in RyUsers, NEW g, g \in RyBidder, BidderStep(u, g),
             rreq' \in Seq(RyUsers) /\ Len(rreq') <= RyReqCap
      PROVE  RyInv'
  <2>1. rbidder' \in [RyUsers -> RyBidder]
    BY <1>0, <1>1 DEF BidderStep
  <2>2. RyBidders'
    BY <2>1 DEF RyBidders, RyBidder
  <2>3. QED
    BY <1>1, <2>2
       DEF BidderStep, RyInv, RyControl, RyPending, RyListed, SortedUnlessLate
<1>2. CASE pipelineTpsHomeReceive
  <2>1. rreq # <<>> /\ rreq' = Tail(rreq)
    BY <1>2 DEF pipelineTpsHomeReceive
  <2>2. PICK u : u = Head(rreq)
    OBVIOUS
  <2>3. u \in RyUsers /\ rreq' \in Seq(RyUsers) /\ Len(rreq') <= RyReqCap
    <3>1. u \in RyUsers /\ rreq' \in Seq(RyUsers) /\ Len(rreq) \in Nat
          /\ Len(rreq') = Len(rreq) - 1
      BY <1>0, <2>1, <2>2, TailTyped
    <3>2. QED
      BY <1>0, <3>1
  <2>4. PICK g : g = [rbidder[u] EXCEPT !.st = "run"]
    OBVIOUS
  <2>5. g \in RyBidder
    BY <1>0, <2>3, <2>4 DEF RyBidder
  <2>6. BidderStep(u, g)
    BY <1>2, <2>2, <2>4 DEF pipelineTpsHomeReceive
  <2>7. QED
    BY <1>1, <2>3, <2>5, <2>6
<1>3. CASE OnTps
  <2>1. ASSUME NEW u \in RyUsers PROVE rbidder'[u] \in RyBidder
    <3>1. PICK b : b = rbidder[u]
      OBVIOUS
    <3>2. b \in RyBidder /\ RyCap \in Nat
      BY <1>0, <3>1, PipelineRelayAssumption
    <3>3. \/ rbidder'[u] = b
          \/ b.tps < RyCap /\ rbidder'[u] = [b EXCEPT !.tps = @ + 1]
          \/ rbidder'[u] = [b EXCEPT !.evicted = TRUE]
      BY <1>3, <3>1 DEF OnTps
    <3>4. b.tps < RyCap => [b EXCEPT !.tps = @ + 1] \in RyBidder
      BY <3>2 DEF RyBidder
    <3>5. [b EXCEPT !.evicted = TRUE] \in RyBidder
      BY <3>2 DEF RyBidder
    <3>6. QED
      BY <3>2, <3>3, <3>4, <3>5
  <2>2. PICK f : f = rbidder'
    OBVIOUS
  <2>3. f = [u \in RyUsers |-> f[u]]
    BY <1>3, <2>2 DEF OnTps
  <2>4. RyBidders'
    BY <2>1, <2>2, <2>3 DEF RyBidders, RyBidder
  <2>5. QED
    BY <1>3, <2>4 DEF OnTps, RyInv, RyControl, RyPending, RyListed, SortedUnlessLate
<1>4. ASSUME NEW u \in RyUsers, BidderAsks(u) PROVE RyInv'
  <2>1. CASE Len(rreq) < RyReqCap
    <3>1. PICK g : g = [rbidder[u] EXCEPT !.st = "wait"]
      OBVIOUS
    <3>2. g \in RyBidder
      BY <1>0, <3>1 DEF RyBidder
    <3>3. BidderStep(u, g) /\ rreq' = Append(rreq, u)
      BY <1>4, <2>1, <3>1 DEF BidderAsks
    <3>4. rreq' \in Seq(RyUsers) /\ Len(rreq) \in Nat /\ Len(rreq') = Len(rreq) + 1
      BY <1>0, <3>3, AppendTyped
    <3>5. Len(rreq') <= RyReqCap
      BY <1>0, <2>1, <3>4
    <3>6. QED
      BY <1>1, <3>2, <3>3, <3>4, <3>5
  <2>2. CASE ~(Len(rreq) < RyReqCap)
    <3>1. PICK b : b = [rbidder[u] EXCEPT !.st = "run"]
      OBVIOUS
    <3>2. PICK g : g = [b EXCEPT !.evicted = TRUE]
      OBVIOUS
    <3>3. b \in RyBidder
      BY <1>0, <3>1 DEF RyBidder
    <3>4. g \in RyBidder /\ g = [rbidder[u] EXCEPT !.st = "run", !.evicted = TRUE]
      BY <1>0, <3>1, <3>2, <3>3 DEF RyBidder
    <3>5. BidderStep(u, g) /\ rreq' = rreq
      BY <1>4, <2>2, <3>4 DEF BidderAsks
    <3>6. QED
      BY <1>0, <1>1, <3>4, <3>5
  <2>3. QED
    BY <2>1, <2>2
<1>5. ASSUME NEW u \in RyUsers, BidderReads(u) PROVE RyInv'
  <2>1. PICK g : /\ BidderStep(u, g)
                 /\ \/ g = [rbidder[u] EXCEPT !.bid = 0]
                    \/ rbidder[u].tps > 0 /\ g = [rbidder[u] EXCEPT !.tps = @ - 1]
    BY <1>5 DEF BidderReads
  <2>2. g \in RyBidder
    <3>1. PICK b : b = rbidder[u]
      OBVIOUS
    <3>2. b \in RyBidder /\ RyCap \in Nat
      BY <1>0, <3>1, PipelineRelayAssumption
    <3>3. [b EXCEPT !.bid = 0] \in RyBidder
      BY <3>2 DEF RyBidder
    <3>4. b.tps > 0 => [b EXCEPT !.tps = @ - 1] \in RyBidder
      BY <3>2 DEF RyBidder
    <3>5. QED
      BY <2>1, <3>1, <3>3, <3>4
  <2>3. rreq' \in Seq(RyUsers) /\ Len(rreq') <= RyReqCap
    BY <1>0, <1>5 DEF BidderReads
  <2>4. QED
    BY <1>1, <2>1, <2>2, <2>3
<1>6. ASSUME NEW u \in RyUsers, BidderEnds(u) PROVE RyInv'
  <2>1. PICK g : g = [rbidder[u] EXCEPT !.st = "dead", !.tps = 0]
    OBVIOUS
  <2>2. g \in RyBidder
    <3>1. PICK b : b = rbidder[u]
      OBVIOUS
    <3>2. b \in RyBidder /\ RyCap \in Nat
      BY <1>0, <3>1, PipelineRelayAssumption
    <3>3. PICK c : c = [b EXCEPT !.st = "dead"]
      OBVIOUS
    <3>4. c \in RyBidder
      BY <3>2, <3>3 DEF RyBidder
    <3>5. g = [c EXCEPT !.tps = 0]
      BY <2>1, <3>1, <3>2, <3>3 DEF RyBidder
    <3>6. QED
      BY <3>2, <3>4, <3>5 DEF RyBidder
  <2>3. BidderStep(u, g) /\ rreq' \in Seq(RyUsers) /\ Len(rreq') <= RyReqCap
    BY <1>0, <1>6, <2>1 DEF BidderEnds
  <2>4. QED
    BY <1>1, <2>2, <2>3
<1>7. QED
  BY <1>2, <1>3, <1>4, <1>5, <1>6

\* The list of payouts is sorted and names none twice as long as no payout
\* comes after a later one, although most payouts are reported twice, by the
\* listing and by the subscription; the streams stay within their capacity.
THEOREM RyInvariance == RySpec => [](RyTypeOK /\ SortedUnlessLate)
<1>1. RyInit => RyInv
  <2> SUFFICES ASSUME RyInit PROVE RyInv
    OBVIOUS
  <2>1. RyControl
    BY PipelineRelayAssumption DEF RyInit, RyControl
  <2>2. RyPending
    BY PipelineRelayAssumption DEF RyInit, RyPending, RyNoStatus
  <2>3. RyBidders
    BY PipelineRelayAssumption DEF RyInit, RyBidders, NoBidder
  <2>4. RyListed
    BY DEF RyInit, RyListed, SortedUnlessLate
  <2>5. QED
    BY <2>1, <2>2, <2>3, <2>4 DEF RyInv
<1>2. RyInv /\ [RyNext]_relayVars => RyInv'
  <2> SUFFICES ASSUME RyInv, [RyNext]_relayVars PROVE RyInv'
    OBVIOUS
  <2>1. CASE RyDone
    BY <2>1 DEF RyDone, RyInv, RyControl, RyPending, RyBidders, RyListed, SortedUnlessLate
  <2>2. CASE OnSlot
    BY <2>2, PipelineRelayAssumption
       DEF OnSlot, RyInv, RyControl, RyPending, RyBidders, RyListed, SortedUnlessLate
  <2>3. CASE RyEnds
    BY <2>3 DEF RyEnds, RyInv, RyControl, RyPending, RyBidders, RyListed, SortedUnlessLate
  <2>4. CASE RySubscribe
    BY <2>4
       DEF RySubscribe, RyInv, RyControl, RyPending, RyBidders, RyListed, SortedUnlessLate
  <2>5. CASE UNCHANGED relayVars
    BY <2>5
       DEF relayVars, RyInv, RyControl, RyPending, RyBidders, RyListed, SortedUnlessLate
  <2>6. CASE Entries \/ Outside
    BY <2>6, RyEntrySteps DEF Entries, Outside
  <2>7. QED
    BY <2>1, <2>2, <2>3, <2>4, <2>5, <2>6, RyChain, RyFeeds, RyBids, RyBidderSteps
       DEF RyNext, RyRun, Bidders
<1>3. RyInv => RyTypeOK /\ SortedUnlessLate
  BY RyInvGives
<1>4. QED
  BY <1>1, <1>2, <1>3, PTL DEF RySpec

-----------------------------------------------------------------------------
(* What the components promise together.                                   *)

\* The status that the payout's loop holds, and hands to a caller of BidStatus()
\* that is not answered by nil first, is the one its subscribers were told
\* last, and the published statistics are averages over consecutive blocks
\* that had contents, whatever the number of payouts, blocks, users and bid
\* lists.
THEOREM ServicesPublishRight ==
  PySpec /\ ShSpec /\ NtSpec /\ PrSpec /\ RySpec /\ YrSpec => []PublishedRight
<1>1. NtInv => NtTypeOK /\ AverageExact
  BY DEF NtInv
<1>2. PyInv => PyTypeOK /\ SubscribersCurrent
  BY DEF PyInv
<1>3. ShInv => ShTypeOK
  BY DEF ShInv
<1>4. QED
  BY <1>1, <1>2, <1>3, PyInvariance, ShInvariance, NtInvariance, PrInvariance,
     RyInvariance, YrInvariance, PTL DEF PublishedRight, ServicesTypeOK

\* Pricing and the relay file every payout once although they hear of it by
\* the listing and by the subscription.
THEOREM ServicesFileOnce == PrSpec /\ RySpec => []PayoutsFiledOnce
  BY PrInvariance, RyInvariance, PTL DEF PayoutsFiledOnce

=============================================================================
