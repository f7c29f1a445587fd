-------------------------- MODULE SchedulerProofs --------------------------
(***************************************************************************)
(* Proofs about the validator, staker and receipt schedulers and the       *)
(* transaction wrapper, for every value of their constants: WithdrawProper *)
(* of the first, RequestsCurrent of the next two, SendTruthful and         *)
(* NothingAfterCancel of the wrapper.                                      *)
(*                                                                         *)
(* ValidatorSchedule.  The withdraw trigger is issued by the home on an    *)
(* event of the goroutine that follows the stakers, which learns of the    *)
(* end of the period only through the payout schedule and the counts in    *)
(* its stream.  The invariant says what is on the way between the three:   *)
(* Followed, one receipt and one follower; Timely, nothing on its way      *)
(* before the end of the period leads to a withdrawal; Owed, what the      *)
(* follower decided is what was broadcast and what it has still to send;   *)
(* Asked, the trigger, its handle and its context.  On top of it, Unread   *)
(* and Gone say how far the follower may be behind the stakers.            *)
(***************************************************************************)
EXTENDS Schedulers, SequenceFacts, TLAPS

Events == StakeEvents \cup Triggers

Internal ==
    [sentPeriodStart : BOOLEAN, sentPeriodPostClose : BOOLEAN,
     receipts : Nat, withdrawCtx : {"none", "live", "done"},
     cancelValidatorWithdraw : BOOLEAN, count : [Events -> Nat]]

Locals ==
    [adding : BOOLEAN, counter : Nat, sentAdding : BOOLEAN,
     sentEmpty : BOOLEAN, sentWithdrawn : BOOLEAN]

\* What the follower may have to send: at most the two events of one
\* handler.
Adding == {<<"STK_ADDING">>, <<"STK_ADDING", "STK_WITHDRAWN">>}
Leaving == {<<"STK_WITHDRAWN">>, <<"STK_ADDING", "STK_WITHDRAWN">>}
Batches ==
    Adding \cup Leaving \cup {<<>>, <<"STK_EMPTY">>, <<"VAL_WITHDRAWN">>}

\* loopOpenReceipt hands over one receipt, and then there is one follower.
Followed ==
    /\ in.receipts \in {0, 1}
    /\ opend => opc = "run"
    /\ opc # "done" => in.receipts = 0
    /\ in.receipts = 0 => wpc = "off" \/ pc = "exit"
    /\ wpc = "off" => in.receipts = 0
    /\ pc = "exit" => opc = "done" /\ wpc = "done"

\* The follower has something to send only when it runs.
Pending ==
    /\ wpend \in Batches
    /\ wpc \notin {"run", "end"} => wpend = <<>>
    /\ wpc = "run" => wpend # <<"VAL_WITHDRAWN">>
    /\ wpc = "end" => wpend \in {<<>>, <<"VAL_WITHDRAWN">>}

\* Before the end of the period no count that arrives is zero and no event
\* that leads to a withdrawal is on its way.
Timely ==
    /\ postC => phase = CLOSEOUT
    /\ phase < POST =>
          /\ \A i \in 1 .. Len(dq) : dq[i] > 0
          /\ wpend \in {<<>>, <<"STK_ADDING">>, <<"VAL_WITHDRAWN">>}

\* The events the follower decided on have been broadcast or are in wpend.
Owed ==
    /\ in.count["STK_WITHDRAWN"] <= in.count["STK_ADDING"]
    /\ in.count["STK_ADDING"] <= 1
    /\ wpc \in {"off", "start", "load"} => ~wait.adding /\ ~wait.sentWithdrawn
    /\ wait.sentWithdrawn => wait.adding
    /\ pc # "exit" =>
          /\ in.count["STK_ADDING"] =
                IF wait.adding /\ wpend \notin Adding THEN 1 ELSE 0
          /\ in.count["STK_WITHDRAWN"] =
                IF wait.sentWithdrawn /\ wpend \notin Leaving THEN 1 ELSE 0
          /\ wpend \in Adding => wait.adding
          /\ wpend \in Leaving => wait.sentWithdrawn

\* The trigger has been issued iff it has a context, which lives as long as
\* the handle and ends with the receipt.
Asked ==
    /\ in.count["WITHDRAW"] = IF in.withdrawCtx = "none" THEN 0 ELSE 1
    /\ in.withdrawCtx # "none" => in.receipts = 1 /\ phase >= POST
    /\ in.count["VAL_WITHDRAWN"] > 0 => wpc = "done"
    /\ in.count["VAL_WITHDRAWN"] > 0 \/ pc = "exit" => in.withdrawCtx # "live"
    /\ in.count["VAL_WITHDRAWN"] = 0 /\ pc # "exit" =>
          /\ in.withdrawCtx # "done"
          /\ in.cancelValidatorWithdraw <=> in.withdrawCtx = "live"

VsInv == TypeOK /\ Followed /\ Pending /\ Timely /\ Owed /\ Asked

-----------------------------------------------------------------------------
(* Records and batches.                                                    *)

\* broadcast counts one event and leaves the other fields alone.
LEMMA Broadcast ==
  ASSUME NEW i \in Internal, NEW e \in Events, NEW j, j = broadcast(i, e)
  PROVE  /\ j \in Internal
         /\ j.receipts = i.receipts
         /\ j.withdrawCtx = i.withdrawCtx
         /\ j.cancelValidatorWithdraw = i.cancelValidatorWithdraw
         /\ j.count[e] = i.count[e] + 1
         /\ \A f \in Events : f # e => j.count[f] = i.count[f]
  BY DEF broadcast, Internal

\* The batches, told apart.
LEMMA BatchTable ==
  /\ <<>> \in Batches /\ <<>> \notin Adding /\ <<>> \notin Leaving
  /\ <<"STK_EMPTY">> \in Batches
  /\ <<"STK_EMPTY">> \notin Adding /\ <<"STK_EMPTY">> \notin Leaving
  /\ <<"VAL_WITHDRAWN">> \in Batches
  /\ <<"VAL_WITHDRAWN">> \notin Adding /\ <<"VAL_WITHDRAWN">> \notin Leaving
  /\ <<"STK_ADDING">> \in Adding /\ <<"STK_ADDING">> \notin Leaving
  /\ <<"STK_WITHDRAWN">> \in Leaving /\ <<"STK_WITHDRAWN">> \notin Adding
  /\ <<"STK_ADDING">> # <<"VAL_WITHDRAWN">>
  /\ <<"STK_WITHDRAWN">> # <<"VAL_WITHDRAWN">>
  /\ <<"STK_EMPTY">> # <<"VAL_WITHDRAWN">>
  /\ <<"STK_ADDING", "STK_WITHDRAWN">> # <<"VAL_WITHDRAWN">>
  BY DEF Batches, Adding, Leaving

\* What is left of a batch when its head has been sent.
LEMMA BatchStep ==
  ASSUME NEW q \in Batches, q # <<>>
  PROVE  /\ Head(q) \in StakeEvents /\ Tail(q) \in Batches
         /\ Tail(q) \in {<<>>, <<"STK_WITHDRAWN">>}
         /\ Tail(q) \notin Adding
         /\ Head(q) = "STK_ADDING" <=> q \in Adding
         /\ Head(q) = "STK_ADDING" => (q \in Leaving <=> Tail(q) \in Leaving)
         /\ Head(q) # "STK_ADDING" => Tail(q) = <<>>
         /\ Head(q) # "STK_ADDING" => (q \in Leaving <=> Head(q) = "STK_WITHDRAWN")
         /\ Head(q) = "VAL_WITHDRAWN" <=> q = <<"VAL_WITHDRAWN">>
<1>1. CASE q = <<"STK_ADDING">>
  BY <1>1 DEF Batches, Adding, Leaving, StakeEvents
<1>2. CASE q = <<"STK_WITHDRAWN">>
  BY <1>2 DEF Batches, Adding, Leaving, StakeEvents
<1>3. CASE q = <<"STK_ADDING", "STK_WITHDRAWN">>
  <2>1. Head(q) = "STK_ADDING" /\ Tail(q) = <<"STK_WITHDRAWN">>
    BY <1>3
  <2>2. QED
    BY <1>3, <2>1 DEF Batches, Adding, Leaving, StakeEvents
<1>4. CASE q = <<"STK_EMPTY">>
  BY <1>4 DEF Batches, Adding, Leaving, StakeEvents
<1>5. CASE q = <<"VAL_WITHDRAWN">>
  BY <1>5 DEF Batches, Adding, Leaving, StakeEvents
<1>6. QED
  BY <1>1, <1>2, <1>3, <1>4, <1>5 DEF Batches, Adding, Leaving

LEMMA BatchTyped == Batches \subseteq Seq(StakeEvents)
  BY DEF Batches, Adding, Leaving, StakeEvents

\* The type invariant in a form the steps use.
LEMMA Types ==
  ASSUME TypeOK
  PROVE  /\ in \in Internal /\ wait \in Locals /\ phase \in 0 .. 3
         /\ in.receipts \in Nat /\ \A e \in Events : in.count[e] \in Nat
         /\ wait.counter \in Nat
<1>1. in \in Internal /\ wait \in Locals
  BY DEF TypeOK, Internal, Locals, Events
<1>2. QED
  BY <1>1 DEF TypeOK, Internal, Locals, PRE, CLOSEOUT

-----------------------------------------------------------------------------
(* The steps.                                                              *)

\* The conjuncts a step leaves alone.
LEMMA FollowedKept ==
  ASSUME Followed, UNCHANGED <<in, opend, opc, wpc, pc>> PROVE Followed'
  BY DEF Followed

LEMMA PendingKept ==
  ASSUME Pending, UNCHANGED <<wpend, wpc>> PROVE Pending'
  BY DEF Pending

LEMMA OwedKept ==
  ASSUME Owed, UNCHANGED <<in, wait, wpend, wpc, pc>> PROVE Owed'
  BY DEF Owed

LEMMA AskedKept ==
  ASSUME Asked, UNCHANGED <<in, wpc, pc>>, phase \in Nat, phase' \in Nat,
         phase <= phase'
  PROVE  Asked'
  BY DEF Asked, POST

\* A count is delivered, or the stream is found full.
LEMMA DeliverEffect ==
  ASSUME TypeOK, NEW n \in Nat, Deliver(n)
  PROVE  /\ dq' \in Seq(Nat) /\ dErr' \in {"none", "nil", "full"}
         /\ \/ dq' = dq
            \/ /\ Len(dq') = Len(dq) + 1 /\ Len(dq) \in Nat
               /\ \A i \in 1 .. Len(dq) : dq'[i] = dq[i]
               /\ dq'[Len(dq) + 1] = n
<1>1. dq \in Seq(Nat) /\ dErr \in {"none", "nil", "full"}
  BY DEF TypeOK
<1>2. dErr' \in {"none", "nil", "full"}
  BY <1>1 DEF Deliver
<1>3. dq' = dq \/ dq' = Append(dq, n)
  BY DEF Deliver
<1>4. CASE dq' = dq
  BY <1>1, <1>2, <1>4
<1>5. CASE dq' = Append(dq, n)
  <2>1. /\ dq' \in Seq(Nat) /\ Len(dq) \in Nat /\ Len(dq') = Len(dq) + 1
        /\ \A i \in 1 .. Len(dq) : dq'[i] = dq[i]
        /\ dq'[Len(dq) + 1] = n
    BY <1>1, <1>5, AppendTyped
  <2>2. QED
    BY <1>2, <2>1
<1>6. QED
  BY <1>3, <1>4, <1>5

\* The chain moves, stakers come and go, the receipt is opened or closed.
LEMMA ChainSteps == ASSUME VsInv, Chain PROVE VsInv'
<1>1. /\ TypeOK /\ Followed /\ Pending /\ Timely /\ Owed /\ Asked
  BY DEF VsInv
<1>2. /\ phase \in 0 .. 3 /\ stk \in 0 .. MaxStk /\ added \in Nat /\ MaxStk \in Nat
      /\ dq \in Seq(Nat) /\ rQ \in BOOLEAN
      /\ dErr \in {"none", "nil", "full"}
      /\ receipt \in {"none", "open", "closed"}
  BY <1>1, ValidatorScheduleAssumption DEF TypeOK, PRE, CLOSEOUT
<1>3. /\ UNCHANGED <<feed, pc, opc, opend, startC, postC, errQ, wpc, wait,
                     wpend, in>>
      /\ phase' \in 0 .. 3 /\ phase <= phase' /\ (postC => phase' = 3)
      /\ stk' \in 0 .. MaxStk /\ added' \in Nat /\ rQ' \in BOOLEAN
      /\ receipt' \in {"none", "open", "closed"}
      /\ dq' \in Seq(Nat) /\ dErr' \in {"none", "nil", "full"}
      /\ phase' < 2 /\ (\A i \in 1 .. Len(dq) : dq[i] > 0) =>
            \A i \in 1 .. Len(dq') : dq'[i] > 0
  <2>0. postC => phase = 3
    BY <1>1 DEF Timely, CLOSEOUT
  <2>1. CASE Advance
    <3>1. /\ phase < 3 /\ phase' = phase + 1
          /\ UNCHANGED <<receipt, stk, added, feed, pc, opc, opend, rQ, startC,
                         postC, errQ, wpc, wait, wpend, dq, dErr, in>>
      BY <2>1 DEF Advance, openVars, waitVars, CLOSEOUT
    <3>2. QED
      BY <1>2, <2>0, <3>1
  <2>2. CASE ChainSetPayout
    <3>1. /\ receipt' = "open" /\ rQ' \in BOOLEAN
          /\ UNCHANGED <<phase, stk, added, feed, pc, opc, opend, startC,
                         postC, errQ, wpc, wait, wpend, dq, dErr, in>>
      BY <2>2 DEF ChainSetPayout, waitVars
    <3>2. QED
      BY <1>2, <2>0, <3>1
  <2>3. CASE ChainStakerAdd
    <3>1. /\ stk < MaxStk /\ stk' = stk + 1 /\ added' = added + 1
          /\ Deliver(stk')
          /\ UNCHANGED <<phase, receipt, feed, pc, opc, opend, rQ, startC,
                         postC, errQ, wpc, wait, wpend, in>>
      BY <2>3 DEF ChainStakerAdd, openVars
    <3>2. stk' \in 0 .. MaxStk /\ stk' \in Nat /\ stk' > 0 /\ added' \in Nat
      BY <1>2, <3>1
    <3>3. /\ dq' \in Seq(Nat) /\ dErr' \in {"none", "nil", "full"}
          /\ \/ dq' = dq
             \/ /\ Len(dq') = Len(dq) + 1 /\ Len(dq) \in Nat
                /\ \A i \in 1 .. Len(dq) : dq'[i] = dq[i]
                /\ dq'[Len(dq) + 1] = stk'
      BY <1>1, <3>1, <3>2, DeliverEffect
    <3>4. ASSUME \A i \in 1 .. Len(dq) : dq[i] > 0, NEW i \in 1 .. Len(dq')
          PROVE  dq'[i] > 0
      <4>1. CASE dq' = dq
        BY <3>4, <4>1
      <4>2. CASE dq' # dq
        <5>1. i \in 1 .. Len(dq) \/ i = Len(dq) + 1
          BY <3>3, <4>2
        <5>2. QED
          BY <3>2, <3>3, <3>4, <4>2, <5>1
      <4>3. QED
        BY <4>1, <4>2
    <3>5. QED
      BY <1>2, <2>0, <3>1, <3>2, <3>3, <3>4
  <2>4. CASE ChainStakerWithdraw
    <3>1. /\ phase >= 2 /\ stk > 0 /\ stk' = stk - 1 /\ Deliver(stk')
          /\ UNCHANGED <<phase, receipt, added, feed, pc, opc, opend, rQ,
                         startC, postC, errQ, wpc, wait, wpend, in>>
      BY <2>4 DEF ChainStakerWithdraw, openVars, POST
    <3>2. stk' \in 0 .. MaxStk /\ stk' \in Nat /\ ~(phase' < 2)
      BY <1>2, <3>1
    <3>3. dq' \in Seq(Nat) /\ dErr' \in {"none", "nil", "full"}
      BY <1>1, <3>1, <3>2, DeliverEffect
    <3>4. QED
      BY <1>2, <2>0, <3>1, <3>2, <3>3
  <2>5. CASE ChainReceiptClose
    <3>1. /\ receipt' = "closed" /\ dErr' \in {dErr, "nil"}
          /\ UNCHANGED <<phase, stk, added, feed, pc, opc, opend, rQ, startC,
                         postC, errQ, wpc, wait, wpend, dq, in>>
      BY <2>5 DEF ChainReceiptClose, openVars
    <3>2. QED
      BY <1>2, <2>0, <3>1
  <2>6. QED
    BY <2>1, <2>2, <2>3, <2>4, <2>5 DEF Chain
<1>4. TypeOK'
  BY <1>1, <1>3 DEF TypeOK, PRE, CLOSEOUT
<1>5. Timely'
  <2>1. ASSUME phase' < 2
        PROVE  /\ \A i \in 1 .. Len(dq') : dq'[i] > 0
               /\ wpend' \in {<<>>, <<"STK_ADDING">>, <<"VAL_WITHDRAWN">>}
    <3>1. phase < 2
      BY <1>2, <1>3, <2>1
    <3>2. QED
      BY <1>1, <1>3, <2>1, <3>1 DEF Timely, POST
  <2>2. QED
    BY <1>3, <2>1 DEF Timely, POST, CLOSEOUT
<1>6. Followed' /\ Pending' /\ Owed'
  BY <1>1, <1>3, FollowedKept, PendingKept, OwedKept
<1>7. Asked'
  BY <1>1, <1>2, <1>3, AskedKept
<1>8. QED
  BY <1>4, <1>5, <1>6, <1>7 DEF VsInv

\* loopOpenReceipt.
LEMMA OpenSteps == ASSUME VsInv, Open PROVE VsInv'
<1>1. /\ TypeOK /\ Followed /\ Pending /\ Timely /\ Owed /\ Asked
      /\ phase \in 0 .. 3
  BY Types DEF VsInv
<1>2. /\ UNCHANGED <<phase, receipt, stk, added, feed, pc, postC, errQ, wpc,
                     wait, wpend, dq, dErr, in>>
      /\ opc # "done" /\ pc # "exit" /\ opend' \in BOOLEAN /\ rQ' \in BOOLEAN
      /\ startC' \in BOOLEAN
      /\ opc' \in {"run", "done"} /\ (opend' => opc' = "run")
  <2>1. opend \in BOOLEAN /\ rQ \in BOOLEAN /\ startC \in BOOLEAN
    BY <1>1 DEF TypeOK
  <2>2. CASE OpenStart
    BY <2>1, <2>2 DEF OpenStart, chain, waitVars
  <2>3. CASE OpenReceipt
    BY <2>1, <2>3 DEF OpenReceipt, chain, waitVars
  <2>4. CASE OpenExpired
    BY <2>1, <2>4 DEF OpenExpired, chain, waitVars
  <2>5. QED
    BY <2>2, <2>3, <2>4 DEF Open
<1>3. TypeOK'
  BY <1>1, <1>2 DEF TypeOK
<1>4. Followed'
  BY <1>1, <1>2 DEF Followed
<1>5. Timely'
  BY <1>1, <1>2 DEF Timely
<1>6. Pending' /\ Owed'
  BY <1>1, <1>2, PendingKept, OwedKept
<1>7. Asked'
  BY <1>1, <1>2, AskedKept
<1>8. QED
  BY <1>3, <1>4, <1>5, <1>6, <1>7 DEF VsInv

\* OnData() and Data(): the follower starts.
LEMMA WaitStartSteps == ASSUME VsInv, WaitSubscribe \/ WaitLoad PROVE VsInv'
<1>1. /\ TypeOK /\ Followed /\ Pending /\ Timely /\ Owed /\ Asked
      /\ phase \in 0 .. 3 /\ wait \in Locals
  BY Types DEF VsInv
<1>2. CASE WaitSubscribe
  <2>1. /\ wpc = "start" /\ wpc' \in {"load", "hung"}
        /\ UNCHANGED <<phase, receipt, stk, added, feed, pc, opc, opend, rQ,
                       startC, postC, errQ, wait, wpend, dq, dErr, in>>
    BY <1>2 DEF WaitSubscribe, chain, openVars
  <2>2. TypeOK'
    BY <1>1, <2>1 DEF TypeOK
  <2>3. Followed' /\ Pending' /\ Timely'
    BY <1>1, <2>1 DEF Followed, Pending, Timely
  <2>4. Owed' /\ Asked'
    BY <1>1, <2>1 DEF Owed, Asked
  <2>5. QED
    BY <2>2, <2>3, <2>4 DEF VsInv
<1>3. CASE WaitLoad /\ receipt = "closed"
  <2>1. /\ wpc = "load" /\ wpc' = "done" /\ Len(errQ) < ErrorCap
        /\ errQ' = Append(errQ, "canceled")
        /\ UNCHANGED <<phase, receipt, stk, added, feed, pc, opc, opend, rQ,
                       startC, postC, wait, wpend, dq, dErr, in>>
    BY <1>3 DEF WaitLoad, chain, openVars
  <2>2. errQ' \in Seq(Errors) /\ Len(errQ') <= ErrorCap
    <3>1. errQ \in Seq(Errors) /\ "canceled" \in Errors /\ ErrorCap \in Nat
      BY <1>1, ValidatorScheduleAssumption DEF TypeOK, Errors
    <3>2. errQ' \in Seq(Errors) /\ Len(errQ) \in Nat /\ Len(errQ') = Len(errQ) + 1
      BY <2>1, <3>1, AppendTyped
    <3>3. QED
      BY <2>1, <3>1, <3>2
  <2>3. TypeOK'
    BY <1>1, <2>1, <2>2 DEF TypeOK
  <2>4. Followed' /\ Pending' /\ Timely'
    BY <1>1, <2>1 DEF Followed, Pending, Timely
  <2>5. Owed' /\ Asked'
    BY <1>1, <2>1 DEF Owed, Asked
  <2>6. QED
    BY <2>3, <2>4, <2>5 DEF VsInv
<1>4. CASE WaitLoad /\ receipt # "closed"
  <2>1. /\ wpc = "load" /\ wpc' = "run"
        /\ wait' = [wait EXCEPT !.adding = stk > 0, !.counter = stk]
        /\ wpend' = IF stk > 0 THEN <<"STK_ADDING">> ELSE <<>>
        /\ UNCHANGED <<phase, receipt, stk, added, feed, pc, opc, opend, rQ,
                       startC, postC, errQ, dq, dErr, in>>
    BY <1>4 DEF WaitLoad, chain, openVars
  <2>2. /\ wait' \in Locals /\ wait'.sentWithdrawn = wait.sentWithdrawn
        /\ wait'.adding <=> stk > 0
    <3>1. stk \in Nat /\ (stk > 0) \in BOOLEAN
      BY <1>1, ValidatorScheduleAssumption DEF TypeOK
    <3>2. QED
      BY <1>1, <2>1, <3>1 DEF Locals
  <2>3. /\ wpend' \in Batches
        /\ wpend' \in {<<>>, <<"STK_ADDING">>} /\ wpend' # <<"VAL_WITHDRAWN">>
        /\ wpend' \in Adding <=> stk > 0
        /\ wpend' \notin Leaving
    BY <2>1, BatchTable DEF Batches
  <2>4. TypeOK'
    <3>1. wpend' \in Seq(StakeEvents)
      BY <2>3, BatchTyped
    <3>2. QED
      BY <1>1, <2>1, <2>2, <3>1 DEF TypeOK, Locals
  <2>5. Followed' /\ Pending' /\ Timely'
    BY <1>1, <2>1, <2>3 DEF Followed, Pending, Timely
  <2>6. Owed'
    <3>1. ~wait.adding /\ ~wait.sentWithdrawn /\ wpend = <<>> /\ pc # "exit"
      BY <1>1, <2>1 DEF Owed, Pending, Followed
    <3>2. in.count["STK_ADDING"] = 0 /\ in.count["STK_WITHDRAWN"] = 0
      BY <1>1, <3>1 DEF Owed
    <3>3. QED
      BY <2>1, <2>2, <2>3, <3>1, <3>2 DEF Owed
  <2>7. Asked'
    BY <1>1, <2>1 DEF Asked
  <2>8. QED
    BY <2>4, <2>5, <2>6, <2>7 DEF VsInv
<1>5. QED
  BY <1>2, <1>3, <1>4

\* The follower hears that the delay after the period has passed.
LEMMA WaitPostStep == ASSUME VsInv, WaitPost PROVE VsInv'
<1>1. /\ TypeOK /\ Followed /\ Pending /\ Timely /\ Owed /\ Asked
      /\ phase \in 0 .. 3 /\ wait \in Locals
  BY Types DEF VsInv
<1>2. /\ wpc = "run" /\ wpend = <<>> /\ postC /\ postC' = FALSE
      /\ UNCHANGED <<phase, receipt, stk, added, feed, pc, opc, opend, rQ,
                     startC, errQ, wpc, dq, dErr, in>>
      /\ wpend' \in {<<>>, <<"STK_EMPTY">>}
  BY DEF WaitPost, chain, openVars
<1>3. /\ wait' \in Locals /\ wait'.adding = wait.adding
      /\ wait'.sentWithdrawn = wait.sentWithdrawn
  <2> DEFINE empty == ~wait.sentEmpty /\ ~wait.adding /\ wait.counter = 0
             b == wait.sentEmpty \/ empty
  <2>1. wait' = [wait EXCEPT !.sentEmpty = b]
    BY DEF WaitPost
  <2>2. b \in BOOLEAN
    OBVIOUS
  <2> HIDE DEF b
  <2>3. QED
    BY <1>1, <2>1, <2>2 DEF Locals
<1>4. phase = 3
  BY <1>1, <1>2 DEF Timely, CLOSEOUT
<1>5. /\ wpend' \in Batches /\ wpend' # <<"VAL_WITHDRAWN">>
      /\ wpend' \notin Adding /\ wpend' \notin Leaving
      /\ wpend \notin Adding /\ wpend \notin Leaving
  BY <1>2, BatchTable
<1>6. TypeOK'
  <2>1. wpend' \in Seq(StakeEvents)
    BY <1>5, BatchTyped
  <2>2. postC' \in BOOLEAN
    BY <1>2, Zenon
  <2>3. UNCHANGED <<phase, receipt, stk, added, feed, pc, opc, opend, rQ,
                    startC, errQ, wpc, dq, dErr, in>>
    BY <1>2
  <2>4. QED
    BY <1>1, <1>3, <2>1, <2>2, <2>3 DEF TypeOK, Locals
<1>7. Followed' /\ Pending'
  BY <1>1, <1>2, <1>5 DEF Followed, Pending
<1>8. Timely'
  BY <1>2, <1>4 DEF Timely, POST, CLOSEOUT
<1>9. Owed'
  BY <1>1, <1>2, <1>3, <1>5 DEF Owed
<1>10. Asked'
  BY <1>1, <1>2 DEF Asked
<1>11. QED
  BY <1>6, <1>7, <1>8, <1>9, <1>10 DEF VsInv

\* The follower hears a count.
LEMMA WaitDataStep == ASSUME VsInv, WaitData PROVE VsInv'
<1>1. /\ TypeOK /\ Followed /\ Pending /\ Timely /\ Owed /\ Asked
      /\ phase \in 0 .. 3 /\ wait \in Locals
  BY Types DEF VsInv
<1>2. /\ wpc = "run" /\ wpend = <<>> /\ dq # <<>> /\ dq' = Tail(dq)
      /\ UNCHANGED <<phase, receipt, stk, added, feed, pc, opc, opend, rQ,
                     startC, postC, errQ, wpc, dErr, in>>
  BY DEF WaitData, chain, openVars
<1>3. /\ dq \in Seq(Nat) /\ Head(dq) \in Nat /\ Head(dq) = dq[1]
      /\ dq' \in Seq(Nat) /\ Len(dq) \in Nat \ {0} /\ Len(dq') = Len(dq) - 1
      /\ \A i \in 1 .. Len(dq') : dq'[i] = dq[i + 1]
  BY <1>1, <1>2, TailTyped, HeadTailProperties DEF TypeOK
<1> DEFINE n == Head(dq)
           add == ~wait.sentAdding /\ ~wait.adding /\ n > 0
           adding == wait.adding \/ add
           left == ~wait.sentWithdrawn /\ adding /\ n = 0
           sa == wait.sentAdding \/ add
           sw == wait.sentWithdrawn \/ left
<1>4. /\ wait' = [wait EXCEPT !.counter = n, !.adding = adding,
                              !.sentAdding = sa, !.sentWithdrawn = sw]
      /\ wpend' = (IF add THEN <<"STK_ADDING">> ELSE <<>>)
                  \o (IF left THEN <<"STK_WITHDRAWN">> ELSE <<>>)
  BY DEF WaitData, Leaves
<1>5. /\ adding \in BOOLEAN /\ sa \in BOOLEAN /\ sw \in BOOLEAN
      /\ adding <=> (wait.adding \/ add)
      /\ sw <=> (wait.sentWithdrawn \/ left)
      /\ left => ~wait.sentWithdrawn /\ adding /\ n = 0
      /\ add => ~wait.adding /\ n > 0
      /\ add \in BOOLEAN /\ left \in BOOLEAN
  OBVIOUS
<1>6. n \in Nat /\ (phase < 2 => n > 0)
  BY <1>1, <1>3 DEF Timely, POST
<1> HIDE DEF n, add, adding, left, sa, sw
<1>7. /\ wait' \in Locals
      /\ wait'.adding <=> adding
      /\ wait'.sentWithdrawn <=> sw
  BY <1>1, <1>4, <1>5, <1>6 DEF Locals
<1>8. ~(add /\ left)
  BY <1>5, <1>6
<1>9. /\ add => wpend' = <<"STK_ADDING">>
      /\ left => wpend' = <<"STK_WITHDRAWN">>
      /\ ~add /\ ~left => wpend' = <<>>
  <2>1. CASE add
    <3>1. wpend' = <<"STK_ADDING">> \o <<>>
      BY <1>4, <1>8, <2>1
    <3>2. QED
      BY <1>8, <2>1, <3>1
  <2>2. CASE left
    <3>1. wpend' = <<>> \o <<"STK_WITHDRAWN">>
      BY <1>4, <1>8, <2>2
    <3>2. QED
      BY <1>8, <2>2, <3>1
  <2>3. CASE ~add /\ ~left
    <3>1. wpend' = <<>> \o <<>>
      BY <1>4, <2>3
    <3>2. QED
      BY <2>3, <3>1
  <2>4. QED
    BY <2>1, <2>2, <2>3
<1>10. /\ wpend' \in Batches /\ wpend' # <<"VAL_WITHDRAWN">>
       /\ wpend' \in Adding <=> add
       /\ wpend' \in Leaving <=> left
       /\ wpend \notin Adding /\ wpend \notin Leaving
  BY <1>2, <1>5, <1>8, <1>9, BatchTable DEF Batches
<1>11. TypeOK'
  <2>1. wpend' \in Seq(StakeEvents)
    BY <1>10, BatchTyped
  <2>2. QED
    BY <1>1, <1>2, <1>3, <1>7, <2>1 DEF TypeOK, Locals
<1>12. Followed' /\ Pending'
  BY <1>1, <1>2, <1>10 DEF Followed, Pending
<1>13. Timely'
  <2>1. ASSUME phase < 2
        PROVE  /\ \A i \in 1 .. Len(dq') : dq'[i] > 0
               /\ wpend' \in {<<>>, <<"STK_ADDING">>, <<"VAL_WITHDRAWN">>}
    <3>1. ~left
      BY <1>5, <1>6, <2>1
    <3>2. \A i \in 1 .. Len(dq) : dq[i] > 0
      BY <1>1, <2>1 DEF Timely, POST
    <3>3. \A i \in 1 .. Len(dq') : dq'[i] > 0
      BY <1>3, <3>2
    <3>4. QED
      BY <1>9, <3>1, <3>3
  <2>2. QED
    BY <1>1, <1>2, <2>1 DEF Timely, POST
<1>14. Owed'
  <2>1. /\ pc # "exit"
        /\ in.count["STK_ADDING"] = IF wait.adding THEN 1 ELSE 0
        /\ in.count["STK_WITHDRAWN"] = IF wait.sentWithdrawn THEN 1 ELSE 0
        /\ wait.sentWithdrawn => wait.adding
        /\ in.count["STK_WITHDRAWN"] <= in.count["STK_ADDING"]
        /\ in.count["STK_ADDING"] <= 1
    BY <1>1, <1>2, <1>10 DEF Owed, Followed
  <2>2. wait.adding \in BOOLEAN /\ wait.sentWithdrawn \in BOOLEAN
    BY <1>1 DEF Locals
  <2>3. /\ in'.count["STK_ADDING"] =
              IF wait'.adding /\ wpend' \notin Adding THEN 1 ELSE 0
        /\ in'.count["STK_WITHDRAWN"] =
              IF wait'.sentWithdrawn /\ wpend' \notin Leaving THEN 1 ELSE 0
        /\ wpend' \in Adding => wait'.adding
        /\ wpend' \in Leaving => wait'.sentWithdrawn
        /\ wait'.sentWithdrawn => wait'.adding
    BY <1>2, <1>5, <1>7, <1>8, <1>10, <2>1, <2>2
  <2>4. QED
    BY <1>2, <2>1, <2>3 DEF Owed
<1>15. Asked'
  BY <1>1, <1>2 DEF Asked
<1>16. QED
  BY <1>11, <1>12, <1>13, <1>14, <1>15 DEF VsInv

\* The stream of the follower ends.
LEMMA WaitClosedStep == ASSUME VsInv, WaitClosed PROVE VsInv'
<1>1. /\ TypeOK /\ Followed /\ Pending /\ Timely /\ Owed /\ Asked
      /\ phase \in 0 .. 3
  BY Types DEF VsInv
<1>2. /\ wpc = "run" /\ wpend = <<>> /\ wpc' = "end"
      /\ UNCHANGED <<phase, receipt, stk, added, feed, pc, opc, opend, rQ,
                     startC, postC, wait, dq, dErr, in>>
      /\ wpend' \in {<<>>, <<"VAL_WITHDRAWN">>}
  BY DEF WaitClosed, chain, openVars
<1>3. errQ' \in Seq(Errors) /\ Len(errQ') <= ErrorCap
  <2>1. errQ \in Seq(Errors) /\ Len(errQ) <= ErrorCap /\ "full" \in Errors
        /\ ErrorCap \in Nat
    BY <1>1, ValidatorScheduleAssumption DEF TypeOK, Errors
  <2>2. errQ' = errQ \/ (Len(errQ) < ErrorCap /\ errQ' = Append(errQ, "full"))
    BY DEF WaitClosed
  <2>3. CASE errQ' = Append(errQ, "full") /\ Len(errQ) < ErrorCap
    <3>1. errQ' \in Seq(Errors) /\ Len(errQ) \in Nat /\ Len(errQ') = Len(errQ) + 1
      BY <2>1, <2>3, AppendTyped
    <3>2. QED
      BY <2>1, <2>3, <3>1
  <2>4. QED
    BY <2>1, <2>2, <2>3
<1>4. /\ wpend' \in Batches
      /\ wpend' \notin Adding /\ wpend' \notin Leaving
      /\ wpend \notin Adding /\ wpend \notin Leaving
  BY <1>2, BatchTable
<1>5. TypeOK'
  <2>1. wpend' \in Seq(StakeEvents)
    BY <1>4, BatchTyped
  <2>2. QED
    BY <1>1, <1>2, <1>3, <2>1 DEF TypeOK
<1>6. Followed' /\ Pending'
  BY <1>1, <1>2, <1>4 DEF Followed, Pending
<1>7. Timely'
  BY <1>1, <1>2 DEF Timely
<1>8. Owed'
  BY <1>1, <1>2, <1>4 DEF Owed
<1>9. Asked'
  BY <1>1, <1>2 DEF Asked
<1>10. QED
  BY <1>3, <1>5, <1>6, <1>7, <1>8, <1>9 DEF VsInv

\* The home hears of the payout schedule.
LEMMA PayoutEventStep == ASSUME VsInv, OnPayoutEvent PROVE VsInv'
<1>1. /\ TypeOK /\ Followed /\ Pending /\ Timely /\ Owed /\ Asked
      /\ phase \in 0 .. 3 /\ in \in Internal
  BY Types DEF VsInv
<1>2. /\ pc = "loop" /\ feed # <<>> /\ Since[Head(feed)] <= phase
      /\ feed' = Tail(feed)
      /\ UNCHANGED <<phase, receipt, stk, added, pc, opc, opend, rQ, errQ, wpc,
                     wait, wpend, dq, dErr>>
  BY DEF OnPayoutEvent, chain, openVars, waitVars
<1>3. feed' \in Seq(DOMAIN Since)
  <2> DEFINE D == DOMAIN Since
  <2>1. feed \in Seq(D)
    BY <1>1 DEF TypeOK
  <2> HIDE DEF D
  <2>2. Tail(feed) \in Seq(D)
    BY <1>2, <2>1, TailTyped
  <2>3. QED
    BY <1>2, <2>2 DEF D
<1>4. /\ startC' \in BOOLEAN /\ postC' \in BOOLEAN
      /\ postC' => phase = 3
      /\ in' \in Internal /\ in'.receipts = in.receipts
      /\ in'.withdrawCtx = in.withdrawCtx
      /\ in'.cancelValidatorWithdraw = in.cancelValidatorWithdraw
      /\ \A e \in Events \ {"SET_PAYOUT"} : in'.count[e] = in.count[e]
  <2>1. startC \in BOOLEAN /\ postC \in BOOLEAN /\ (postC => phase = 3)
    BY <1>1 DEF TypeOK, Timely, CLOSEOUT
  <2>2. CASE Head(feed) = "SET_PAYOUT"
    <3>1. in' = broadcast(in, "SET_PAYOUT") /\ UNCHANGED <<startC, postC>>
      BY <2>2 DEF OnPayoutEvent
    <3>2. "SET_PAYOUT" \in Events
      BY DEF Events, Triggers
    <3>3. /\ in' \in Internal /\ in'.receipts = in.receipts
          /\ in'.withdrawCtx = in.withdrawCtx
          /\ in'.cancelValidatorWithdraw = in.cancelValidatorWithdraw
          /\ \A f \in Events : f # "SET_PAYOUT" => in'.count[f] = in.count[f]
      BY <1>1, <3>1, <3>2, Broadcast
    <3>4. QED
      BY <2>1, <3>1, <3>3
  <2>3. CASE Head(feed) # "SET_PAYOUT"
    <3> DEFINE post == Head(feed) = "DELAY_CLOSE"
               b == in.sentPeriodPostClose \/ post
    <3>1. /\ startC' = (startC \/ ~in.sentPeriodStart)
          /\ postC' = (postC \/ (post /\ ~in.sentPeriodPostClose))
          /\ in' = [in EXCEPT !.sentPeriodStart = TRUE,
                              !.sentPeriodPostClose = b]
      BY <2>3 DEF OnPayoutEvent, IsPost
    <3>2. b \in BOOLEAN
      OBVIOUS
    <3>3. post => phase = 3
      BY <1>1, <1>2 DEF Since, CLOSEOUT
    <3>4. startC' \in BOOLEAN /\ postC' \in BOOLEAN /\ (postC' => phase = 3)
      BY <2>1, <3>1, <3>3
    <3> HIDE DEF b
    <3>5. /\ in' \in Internal /\ in'.receipts = in.receipts
          /\ in'.withdrawCtx = in.withdrawCtx
          /\ in'.cancelValidatorWithdraw = in.cancelValidatorWithdraw
          /\ in'.count = in.count
      BY <1>1, <3>1, <3>2 DEF Internal
    <3>6. QED
      BY <3>4, <3>5
  <2>4. QED
    BY <2>2, <2>3
<1>5. /\ in'.count["STK_ADDING"] = in.count["STK_ADDING"]
      /\ in'.count["STK_WITHDRAWN"] = in.count["STK_WITHDRAWN"]
      /\ in'.count["VAL_WITHDRAWN"] = in.count["VAL_WITHDRAWN"]
      /\ in'.count["WITHDRAW"] = in.count["WITHDRAW"]
  BY <1>4 DEF Events, StakeEvents, Triggers
<1>6. TypeOK'
  BY <1>1, <1>2, <1>3, <1>4 DEF TypeOK, Internal, Events
<1>7. Followed' /\ Pending'
  BY <1>1, <1>2, <1>4 DEF Followed, Pending
<1>8. Timely'
  BY <1>1, <1>2, <1>4 DEF Timely, CLOSEOUT
<1>9. Owed'
  BY <1>1, <1>2, <1>5 DEF Owed
<1>10. Asked'
  BY <1>1, <1>2, <1>4, <1>5 DEF Asked
<1>11. QED
  BY <1>6, <1>7, <1>8, <1>9, <1>10 DEF VsInv

\* The home takes the receipt over and starts the follower.
LEMMA ReceiptStep == ASSUME VsInv, OnReceipt PROVE VsInv'
<1>1. /\ TypeOK /\ Followed /\ Pending /\ Timely /\ Owed /\ Asked
      /\ phase \in 0 .. 3 /\ in \in Internal
  BY Types DEF VsInv
<1>2. /\ pc = "loop" /\ opend /\ opend' = FALSE /\ opc' = "done" /\ wpc' = "start"
      /\ in' = run_validator_withdraw([in EXCEPT !.receipts = @ + 1])
      /\ UNCHANGED <<phase, receipt, stk, added, feed, pc, rQ, startC, postC,
                     errQ, wait, wpend, dq, dErr>>
  BY DEF OnReceipt, chain
<1>3. opc = "run" /\ in.receipts = 0 /\ wpc = "off"
  BY <1>1, <1>2 DEF Followed
<1>4. in.withdrawCtx = "none"
  BY <1>1, <1>3 DEF Asked
<1> DEFINE i == [in EXCEPT !.receipts = @ + 1]
<1>5. /\ i \in Internal /\ i.receipts = 1 /\ i.withdrawCtx = "none"
      /\ i.cancelValidatorWithdraw = in.cancelValidatorWithdraw
      /\ i.count = in.count
  BY <1>1, <1>3, <1>4 DEF Internal
<1>6. in' = run_validator_withdraw(i)
  BY <1>2
<1> HIDE DEF i
<1>7. in' = i
  BY <1>5, <1>6 DEF run_validator_withdraw
<1>8. TypeOK'
  <2>1. opend' \in BOOLEAN
    BY <1>2, Zenon
  <2>2. QED
    BY <1>1, <1>2, <1>5, <1>7, <2>1 DEF TypeOK, Internal, Events
<1>9. Followed'
  BY <1>2, <1>5, <1>7 DEF Followed
<1>10. Pending' /\ Timely'
  BY <1>1, <1>2, <1>3 DEF Pending, Timely
<1>11. Owed'
  BY <1>1, <1>2, <1>3, <1>5, <1>7 DEF Owed
<1>12. Asked'
  <2>1. in.count["VAL_WITHDRAWN"] \in Nat /\ ~(in.count["VAL_WITHDRAWN"] > 0)
    BY <1>1, <1>3, Types DEF Asked, Events, StakeEvents
  <2>2. in.count["VAL_WITHDRAWN"] = 0
    BY <2>1
  <2>3. QED
    BY <1>1, <1>2, <1>4, <1>5, <1>7, <2>2 DEF Asked
<1>13. QED
  BY <1>8, <1>9, <1>10, <1>11, <1>12 DEF VsInv

\* A send on errorC by the home.
LEMMA SendErrorEffect ==
  ASSUME TypeOK, NEW e \in Errors, SendError(e)
  PROVE  /\ errQ' \in Seq(Errors) /\ Len(errQ') <= ErrorCap
         /\ pc' \in {"loop", "blocked"}
<1>1. errQ \in Seq(Errors) /\ Len(errQ) <= ErrorCap /\ ErrorCap \in Nat
  BY ValidatorScheduleAssumption DEF TypeOK
<1>2. CASE Len(errQ) < ErrorCap
  <2>1. errQ' = Append(errQ, e) /\ pc' = "loop"
    BY <1>2 DEF SendError
  <2>2. errQ' \in Seq(Errors) /\ Len(errQ) \in Nat /\ Len(errQ') = Len(errQ) + 1
    BY <1>1, <2>1, AppendTyped
  <2>3. QED
    BY <1>1, <1>2, <2>1, <2>2
<1>3. CASE ~(Len(errQ) < ErrorCap)
  BY <1>1, <1>3 DEF SendError
<1>4. QED
  BY <1>2, <1>3

\* What the home does with an event of the follower: the fields of internal
\* after it, and the event.
LEMMA ReceiptEventEffect ==
  ASSUME VsInv, OnReceiptEvent, NEW e, e = Head(wpend)
  PROVE  /\ pc = "loop" /\ pc' \in {"loop", "blocked"}
         /\ errQ' \in Seq(Errors) /\ Len(errQ') <= ErrorCap
         /\ in' \in Internal /\ in'.receipts = in.receipts
         /\ \A f \in StakeEvents :
               in'.count[f] = IF f = e THEN in.count[f] + 1 ELSE in.count[f]
         /\ \/ /\ e \in {"STK_WITHDRAWN", "STK_EMPTY"}
               /\ ~in.cancelValidatorWithdraw
               /\ in'.cancelValidatorWithdraw /\ in'.withdrawCtx = "live"
               /\ in'.count["WITHDRAW"] = in.count["WITHDRAW"] + 1
            \/ /\ e # "VAL_WITHDRAWN"
               /\ in'.cancelValidatorWithdraw = in.cancelValidatorWithdraw
               /\ in'.withdrawCtx = in.withdrawCtx
               /\ in'.count["WITHDRAW"] = in.count["WITHDRAW"]
            \/ /\ e = "VAL_WITHDRAWN" /\ ~in'.cancelValidatorWithdraw
               /\ in'.withdrawCtx =
                     IF in.withdrawCtx = "live" THEN "done" ELSE in.withdrawCtx
               /\ in'.count["WITHDRAW"] = in.count["WITHDRAW"]
<1>1. /\ TypeOK /\ Followed /\ Pending /\ in \in Internal
  BY Types DEF VsInv
<1>2. pc = "loop" /\ wpend # <<>>
  BY DEF OnReceiptEvent
<1>3. e \in StakeEvents /\ e \in Events /\ "WITHDRAW" \in Events
      /\ StakeEvents \subseteq Events /\ "WITHDRAW" \notin StakeEvents
  BY <1>1, <1>2, BatchStep DEF Pending, Events, StakeEvents, Triggers
<1>4. errQ \in Seq(Errors) /\ Len(errQ) <= ErrorCap
  BY <1>1 DEF TypeOK
<1> DEFINE told == broadcast(in, e)
<1>5. /\ told \in Internal /\ told.receipts = in.receipts
      /\ told.withdrawCtx = in.withdrawCtx
      /\ told.cancelValidatorWithdraw = in.cancelValidatorWithdraw
      /\ told.count[e] = in.count[e] + 1
      /\ \A f \in Events : f # e => told.count[f] = in.count[f]
  BY <1>1, <1>3, Broadcast
<1>6. \/ e = "STK_ADDING" /\ in' = told /\ UNCHANGED <<errQ, pc>>
      \/ /\ e \in {"STK_WITHDRAWN", "STK_EMPTY"} /\ ~in.cancelValidatorWithdraw
         /\ in' = run_validator_withdraw(
                    [told EXCEPT !.cancelValidatorWithdraw = TRUE,
                                 !.withdrawCtx = "live"])
         /\ UNCHANGED <<errQ, pc>>
      \/ /\ e \in {"STK_WITHDRAWN", "STK_EMPTY"} /\ in' = told
         /\ SendError("duplicate withdraw trigger")
      \/ e = "VAL_WITHDRAWN" /\ in' = StopWithdraw(told) /\ SendError("nil")
  BY DEF OnReceiptEvent, IsWithdrawing
<1> HIDE DEF told
<1>7. /\ told.count["WITHDRAW"] = in.count["WITHDRAW"]
      /\ \A f \in StakeEvents :
            told.count[f] = IF f = e THEN in.count[f] + 1 ELSE in.count[f]
  BY <1>3, <1>5
<1>8. CASE e = "STK_ADDING" /\ in' = told /\ UNCHANGED <<errQ, pc>>
  BY <1>2, <1>4, <1>5, <1>7, <1>8
<1>9. CASE /\ e \in {"STK_WITHDRAWN", "STK_EMPTY"} /\ ~in.cancelValidatorWithdraw
           /\ in' = run_validator_withdraw(
                      [told EXCEPT !.cancelValidatorWithdraw = TRUE,
                                   !.withdrawCtx = "live"])
           /\ UNCHANGED <<errQ, pc>>
  <2> DEFINE i == [told EXCEPT !.cancelValidatorWithdraw = TRUE,
                               !.withdrawCtx = "live"]
  <2>1. /\ i \in Internal /\ i.receipts = in.receipts /\ i.withdrawCtx = "live"
        /\ i.cancelValidatorWithdraw /\ i.count = told.count
    BY <1>5 DEF Internal
  <2>2. in' = run_validator_withdraw(i)
    BY <1>9
  <2> HIDE DEF i
  <2>3. in.receipts # 0
    <3>1. wpc \in {"run", "end"}
      BY <1>1, <1>2 DEF Pending
    <3>2. QED
      BY <1>1, <1>2, <3>1 DEF Followed
  <2>4. in' = broadcast(i, "WITHDRAW")
    BY <2>1, <2>2, <2>3 DEF run_validator_withdraw
  <2>5. /\ in' \in Internal /\ in'.receipts = i.receipts
        /\ in'.withdrawCtx = i.withdrawCtx
        /\ in'.cancelValidatorWithdraw = i.cancelValidatorWithdraw
        /\ in'.count["WITHDRAW"] = i.count["WITHDRAW"] + 1
        /\ \A f \in Events : f # "WITHDRAW" => in'.count[f] = i.count[f]
    <3>1. "WITHDRAW" \in Events /\ i \in Internal
      BY <1>3, <2>1
    <3>2. QED
      BY <2>4, <3>1, Broadcast
  <2>6. \A f \in StakeEvents :
           in'.count[f] = IF f = e THEN in.count[f] + 1 ELSE in.count[f]
    BY <1>3, <1>7, <2>1, <2>5
  <2>7. QED
    BY <1>2, <1>4, <1>7, <1>9, <2>1, <2>5, <2>6
<1>10. CASE /\ e \in {"STK_WITHDRAWN", "STK_EMPTY"} /\ in' = told
            /\ SendError("duplicate withdraw trigger")
  <2>1. /\ errQ' \in Seq(Errors) /\ Len(errQ') <= ErrorCap
        /\ pc' \in {"loop", "blocked"}
    BY <1>1, <1>10, SendErrorEffect DEF Errors
  <2>2. QED
    BY <1>2, <1>5, <1>7, <1>10, <2>1
<1>11. CASE e = "VAL_WITHDRAWN" /\ in' = StopWithdraw(told) /\ SendError("nil")
  <2>1. /\ errQ' \in Seq(Errors) /\ Len(errQ') <= ErrorCap
        /\ pc' \in {"loop", "blocked"}
    BY <1>1, <1>11, SendErrorEffect DEF Errors
  <2> DEFINE c == IF told.withdrawCtx = "live" THEN "done" ELSE told.withdrawCtx
  <2>2. in' = [told EXCEPT !.cancelValidatorWithdraw = FALSE, !.withdrawCtx = c]
    BY <1>11 DEF StopWithdraw
  <2>3. c \in {"none", "live", "done"}
    BY <1>5 DEF Internal
  <2> HIDE DEF c
  <2>4. /\ in' \in Internal /\ in'.receipts = told.receipts
        /\ in'.withdrawCtx = c /\ ~in'.cancelValidatorWithdraw
        /\ in'.count = told.count
    BY <1>5, <2>2, <2>3 DEF Internal
  <2>5. c = IF in.withdrawCtx = "live" THEN "done" ELSE in.withdrawCtx
    BY <1>5 DEF c
  <2>6. QED
    BY <1>2, <1>5, <1>7, <1>11, <2>1, <2>4, <2>5
<1>12. QED
  BY <1>6, <1>8, <1>9, <1>10, <1>11

\* The home takes an event of the follower.
LEMMA ReceiptEventStep == ASSUME VsInv, OnReceiptEvent PROVE VsInv'
<1>1. /\ TypeOK /\ Followed /\ Pending /\ Timely /\ Owed /\ Asked
      /\ phase \in 0 .. 3 /\ in \in Internal /\ wait \in Locals
      /\ \A f \in Events : in.count[f] \in Nat
  BY Types DEF VsInv
<1>2. /\ pc = "loop" /\ wpend # <<>> /\ wpend' = Tail(wpend)
      /\ wpc' = IF wpc = "end" THEN "done" ELSE wpc
      /\ UNCHANGED <<phase, receipt, stk, added, feed, opc, opend, rQ, startC,
                     postC, wait, dq, dErr>>
  BY DEF OnReceiptEvent, chain, openVars
<1>3. PICK e : e = Head(wpend)
  OBVIOUS
<1>4. wpc \in {"run", "end"} /\ wpend \in Batches
      /\ (wpc = "end" <=> e = "VAL_WITHDRAWN")
  <2>1. wpc \in {"run", "end"} /\ wpend \in Batches
    BY <1>1, <1>2 DEF Pending
  <2>2. e = "VAL_WITHDRAWN" <=> wpend = <<"VAL_WITHDRAWN">>
    BY <1>2, <1>3, <2>1, BatchStep
  <2>3. QED
    BY <1>1, <1>2, <2>1, <2>2 DEF Pending
<1>5. /\ e \in StakeEvents /\ wpend' \in Batches
      /\ wpend' \in {<<>>, <<"STK_WITHDRAWN">>} /\ wpend' \notin Adding
      /\ e = "STK_ADDING" <=> wpend \in Adding
      /\ e = "STK_ADDING" => (wpend \in Leaving <=> wpend' \in Leaving)
      /\ e # "STK_ADDING" => wpend' = <<>>
      /\ e # "STK_ADDING" => (wpend \in Leaving <=> e = "STK_WITHDRAWN")
  BY <1>2, <1>3, <1>4, BatchStep
<1>6. /\ pc' \in {"loop", "blocked"}
      /\ errQ' \in Seq(Errors) /\ Len(errQ') <= ErrorCap
      /\ in' \in Internal /\ in'.receipts = in.receipts
      /\ \A f \in StakeEvents :
            in'.count[f] = IF f = e THEN in.count[f] + 1 ELSE in.count[f]
      /\ \/ /\ e \in {"STK_WITHDRAWN", "STK_EMPTY"}
            /\ ~in.cancelValidatorWithdraw
            /\ in'.cancelValidatorWithdraw /\ in'.withdrawCtx = "live"
            /\ in'.count["WITHDRAW"] = in.count["WITHDRAW"] + 1
         \/ /\ e # "VAL_WITHDRAWN"
            /\ in'.cancelValidatorWithdraw = in.cancelValidatorWithdraw
            /\ in'.withdrawCtx = in.withdrawCtx
            /\ in'.count["WITHDRAW"] = in.count["WITHDRAW"]
         \/ /\ e = "VAL_WITHDRAWN" /\ ~in'.cancelValidatorWithdraw
            /\ in'.withdrawCtx =
                  IF in.withdrawCtx = "live" THEN "done" ELSE in.withdrawCtx
            /\ in'.count["WITHDRAW"] = in.count["WITHDRAW"]
  BY <1>3, ReceiptEventEffect
<1>7. TypeOK'
  <2>1. wpend' \in Seq(StakeEvents)
    BY <1>5, BatchTyped
  <2>2. wpc' \in {"off", "start", "load", "run", "end", "hung", "done"}
    BY <1>2, <1>4
  <2>3. QED
    BY <1>1, <1>2, <1>6, <2>1, <2>2 DEF TypeOK, Internal, Events
<1>8. in.receipts = 1
  BY <1>1, <1>2, <1>4 DEF Followed
<1>9. Followed'
  <2>1. wpc' \in {"run", "done"} /\ pc' # "exit" /\ in'.receipts = 1
    BY <1>2, <1>4, <1>6, <1>8
  <2>2. opc = "done" /\ (opend => opc = "run")
    BY <1>1, <1>8 DEF Followed
  <2>3. QED
    BY <1>2, <2>1, <2>2 DEF Followed
<1>10. Pending'
  <2>1. wpc' = "done" => wpend' = <<>>
    BY <1>2, <1>4, <1>5
  <2>2. wpc' \in {"run", "done"}
    BY <1>2, <1>4
  <2>3. wpend' # <<"VAL_WITHDRAWN">>
    BY <1>5, BatchTable
  <2>4. QED
    BY <1>5, <2>1, <2>2, <2>3 DEF Pending
<1>11. Timely'
  <2>1. ASSUME phase < 2
        PROVE  wpend' \in {<<>>, <<"STK_ADDING">>, <<"VAL_WITHDRAWN">>}
    <3>1. wpend \in {<<>>, <<"STK_ADDING">>, <<"VAL_WITHDRAWN">>}
      BY <1>1, <2>1 DEF Timely, POST
    <3>2. wpend \notin Leaving
      BY <3>1, BatchTable
    <3>3. wpend' \notin Leaving
      BY <1>5, <3>2, BatchTable
    <3>4. QED
      BY <1>5, <3>3, BatchTable
  <2>2. QED
    BY <1>1, <1>2, <2>1 DEF Timely, POST
<1>12. Owed'
  <2>1. /\ in.count["STK_ADDING"] =
              IF wait.adding /\ wpend \notin Adding THEN 1 ELSE 0
        /\ in.count["STK_WITHDRAWN"] =
              IF wait.sentWithdrawn /\ wpend \notin Leaving THEN 1 ELSE 0
        /\ wpend \in Adding => wait.adding
        /\ wpend \in Leaving => wait.sentWithdrawn
        /\ wait.sentWithdrawn => wait.adding
    BY <1>1, <1>2 DEF Owed
  <2>2. /\ in'.count["STK_ADDING"] = in.count["STK_ADDING"]
                                       + (IF e = "STK_ADDING" THEN 1 ELSE 0)
        /\ in'.count["STK_WITHDRAWN"] = in.count["STK_WITHDRAWN"]
                                       + (IF e = "STK_WITHDRAWN" THEN 1 ELSE 0)
    <3>1. "STK_ADDING" \in StakeEvents /\ "STK_WITHDRAWN" \in StakeEvents
          /\ StakeEvents \subseteq Events
      BY DEF StakeEvents, Events
    <3>2. in.count["STK_ADDING"] \in Nat /\ in.count["STK_WITHDRAWN"] \in Nat
      BY <1>1, <3>1
    <3>3. QED
      BY <1>6, <3>1, <3>2
  <2>3. in'.count["STK_ADDING"] = IF wait.adding THEN 1 ELSE 0
    BY <1>5, <2>1, <2>2
  <2>4. in'.count["STK_WITHDRAWN"] =
           IF wait.sentWithdrawn /\ wpend' \notin Leaving THEN 1 ELSE 0
    <3>1. CASE e = "STK_ADDING"
      BY <1>5, <2>1, <2>2, <3>1
    <3>2. CASE e # "STK_ADDING"
      <4>1. wpend' \notin Leaving /\ (wpend \in Leaving <=> e = "STK_WITHDRAWN")
        BY <1>5, <3>2, BatchTable
      <4>2. QED
        BY <2>1, <2>2, <4>1
    <3>3. QED
      BY <3>1, <3>2
  <2>5. wpend' \in Leaving => wait.sentWithdrawn
    BY <1>5, <2>1, BatchTable
  <2>6. wpc' \notin {"off", "start", "load"}
    BY <1>2, <1>4
  <2>7. QED
    BY <1>2, <1>5, <1>6, <2>1, <2>3, <2>4, <2>5, <2>6 DEF Owed
<1>13. Asked'
  <2>1. in.count["VAL_WITHDRAWN"] = 0 /\ in.count["WITHDRAW"] \in Nat
    <3>1. in.count["VAL_WITHDRAWN"] \in Nat /\ in.count["WITHDRAW"] \in Nat
      BY <1>1 DEF Events, StakeEvents, Triggers
    <3>2. ~(in.count["VAL_WITHDRAWN"] > 0)
      BY <1>1, <1>4 DEF Asked
    <3>3. QED
      BY <3>1, <3>2
  <2>2. /\ in.withdrawCtx # "done"
        /\ in.cancelValidatorWithdraw <=> in.withdrawCtx = "live"
        /\ in.count["WITHDRAW"] = IF in.withdrawCtx = "none" THEN 0 ELSE 1
        /\ in.withdrawCtx # "none" => phase >= POST
    BY <1>1, <1>2, <2>1 DEF Asked
  <2>3. in'.count["VAL_WITHDRAWN"] = IF e = "VAL_WITHDRAWN" THEN 1 ELSE 0
    BY <1>6, <2>1 DEF StakeEvents
  <2>4. in.withdrawCtx \in {"none", "live", "done"}
    BY <1>1 DEF Internal
  <2>5. CASE e = "VAL_WITHDRAWN"
    <3>1. /\ ~in'.cancelValidatorWithdraw
          /\ in'.withdrawCtx =
                IF in.withdrawCtx = "live" THEN "done" ELSE in.withdrawCtx
          /\ in'.count["WITHDRAW"] = in.count["WITHDRAW"]
      BY <1>6, <2>5
    <3>2. wpc' = "done" /\ in'.count["VAL_WITHDRAWN"] = 1
      BY <1>2, <1>4, <2>3, <2>5
    <3>3. QED
      BY <1>2, <1>6, <1>8, <2>2, <2>4, <3>1, <3>2 DEF Asked
  <2>6. CASE e # "VAL_WITHDRAWN" /\ in'.withdrawCtx = in.withdrawCtx
             /\ in'.cancelValidatorWithdraw = in.cancelValidatorWithdraw
             /\ in'.count["WITHDRAW"] = in.count["WITHDRAW"]
    BY <1>2, <1>6, <1>8, <2>2, <2>3, <2>6 DEF Asked
  <2>7. CASE /\ e \in {"STK_WITHDRAWN", "STK_EMPTY"}
             /\ ~in.cancelValidatorWithdraw
             /\ in'.cancelValidatorWithdraw /\ in'.withdrawCtx = "live"
             /\ in'.count["WITHDRAW"] = in.count["WITHDRAW"] + 1
    <3>1. in.withdrawCtx = "none" /\ in'.count["WITHDRAW"] = 1
      BY <2>2, <2>4, <2>7
    <3>2. phase >= POST
      <4>1. ASSUME phase < 2 PROVE FALSE
        <5>1. wpend \in {<<>>, <<"STK_ADDING">>, <<"VAL_WITHDRAWN">>}
          BY <1>1, <4>1 DEF Timely, POST
        <5>2. e \in {"STK_ADDING", "VAL_WITHDRAWN"}
          BY <1>2, <1>3, <5>1
        <5>3. QED
          BY <2>7, <5>2
      <4>2. QED
        BY <1>1, <4>1 DEF POST
    <3>3. e # "VAL_WITHDRAWN"
      BY <2>7
    <3>4. QED
      BY <1>2, <1>6, <1>8, <2>3, <2>7, <3>1, <3>2, <3>3 DEF Asked
  <2>8. QED
    BY <1>6, <2>5, <2>6, <2>7
<1>14. QED
  BY <1>7, <1>9, <1>10, <1>11, <1>12, <1>13 DEF VsInv

\* The loop ends.
LEMMA EndSteps == ASSUME VsInv, OnError \/ Cancel PROVE VsInv'
<1>1. /\ TypeOK /\ Followed /\ Pending /\ Timely /\ Owed /\ Asked
      /\ phase \in 0 .. 3 /\ in \in Internal
  BY Types DEF VsInv
<1>2. /\ UNCHANGED <<phase, receipt, stk, added, feed, rQ, startC, postC, wait,
                     dq, dErr>>
      /\ pc = "loop" /\ pc' = "exit" /\ opc' = "done" /\ opend' = FALSE
      /\ wpc' = "done" /\ wpend' = <<>>
      /\ in' = [in EXCEPT !.withdrawCtx = IF @ = "live" THEN "done" ELSE @]
  BY DEF OnError, Cancel, Ended, chain
<1>3. errQ' \in Seq(Errors) /\ Len(errQ') <= ErrorCap
  <2>1. errQ \in Seq(Errors) /\ Len(errQ) <= ErrorCap /\ ErrorCap \in Nat
    BY <1>1, ValidatorScheduleAssumption DEF TypeOK
  <2>2. errQ' = errQ \/ (errQ # <<>> /\ errQ' = Tail(errQ))
    BY DEF OnError, Cancel
  <2>3. CASE errQ # <<>> /\ errQ' = Tail(errQ)
    <3>1. /\ Tail(errQ) \in Seq(Errors) /\ Len(errQ) \in Nat \ {0}
          /\ Len(Tail(errQ)) = Len(errQ) - 1
      BY <2>1, <2>3, TailTyped
    <3>2. QED
      BY <2>1, <2>3, <3>1
  <2>4. QED
    BY <2>1, <2>2, <2>3
<1> DEFINE c == IF in.withdrawCtx = "live" THEN "done" ELSE in.withdrawCtx
<1>4. /\ in' = [in EXCEPT !.withdrawCtx = c]
      /\ c \in {"none", "done"} /\ (c = "none" <=> in.withdrawCtx = "none")
  BY <1>1, <1>2 DEF Internal
<1> HIDE DEF c
<1>5. /\ in' \in Internal /\ in'.receipts = in.receipts /\ in'.withdrawCtx = c
      /\ in'.count = in.count
  BY <1>1, <1>4 DEF Internal
<1>6. TypeOK'
  <2>0. opend' \in BOOLEAN
    BY <1>2, Zenon
  <2>1. wpend' \in Seq(StakeEvents)
    BY <1>2, EmptySeq
  <2>2. /\ UNCHANGED <<phase, receipt, stk, added, feed, rQ, startC, postC, wait,
                       dq, dErr>>
        /\ pc' = "exit" /\ opc' = "done" /\ wpc' = "done"
    BY <1>2
  <2>3. QED
    BY <1>1, <1>3, <1>5, <2>0, <2>1, <2>2 DEF TypeOK, Internal, Events
<1>7. Followed'
  BY <1>1, <1>2, <1>5 DEF Followed
<1>8. Pending' /\ Timely'
  BY <1>1, <1>2, BatchTable DEF Pending, Timely
<1>9. Owed'
  BY <1>1, <1>2, <1>5 DEF Owed
<1>10. Asked'
  BY <1>1, <1>2, <1>4, <1>5 DEF Asked
<1>11. QED
  BY <1>6, <1>7, <1>8, <1>9, <1>10 DEF VsInv

-----------------------------------------------------------------------------
(* The theorems.                                                           *)

\* The initial states.
LEMMA VsInitInv == Init => VsInv
<1> SUFFICES ASSUME Init PROVE VsInv
  OBVIOUS
<1>1. /\ phase \in 0 .. 3 /\ receipt \in {"none", "open"} /\ stk \in 0 .. MaxStk
      /\ added = stk /\ pc = "loop" /\ opc = "start" /\ opend = FALSE
      /\ rQ = FALSE /\ startC = FALSE /\ postC = FALSE /\ wpc = "off"
      /\ wpend = <<>> /\ dq = <<>> /\ dErr = "none"
      /\ MaxStk \in Nat /\ ErrorCap \in Nat \ {0}
  BY ValidatorScheduleAssumption DEF Init, PRE, CLOSEOUT
<1>2. /\ in \in Internal /\ in.receipts = 0 /\ in.withdrawCtx = "none"
      /\ in.cancelValidatorWithdraw = FALSE
      /\ \A e \in Events : in.count[e] = 0
  BY DEF Init, Internal, Events
<1>3. wait \in Locals /\ wait.adding = FALSE /\ wait.sentWithdrawn = FALSE
  BY DEF Init, Locals
<1>4. errQ \in Seq(Errors) /\ Len(errQ) <= ErrorCap
  <2>1. errQ = <<>> \/ errQ = <<"data">>
    BY DEF Init
  <2>2. "data" \in Errors
    BY DEF Errors
  <2>3. CASE errQ = <<>>
    <3>1. errQ \in Seq(Errors) /\ Len(errQ) = 0
      BY <2>3, EmptySeq
    <3>2. QED
      BY <1>1, <3>1
  <2>4. CASE errQ = <<"data">>
    <3>1. errQ \in Seq(Errors)
      BY <2>2, <2>4
    <3>2. Len(errQ) = 1
      BY <2>4
    <3>3. QED
      BY <1>1, <3>1, <3>2
  <2>5. QED
    BY <2>1, <2>3, <2>4
<1>5. feed \in Seq(DOMAIN Since)
  <2> DEFINE D == {"SET_PAYOUT", "START", "FINISH", "DELAY_CLOSE"}
  <2>1. DOMAIN Since = D
    BY DEF Since
  <2>2. ClockFeed \in Seq(D) /\ <<"SET_PAYOUT">> \in Seq(D)
    BY DEF ClockFeed
  <2>3. <<"SET_PAYOUT">> \o ClockFeed \in Seq(D)
    BY <2>2, ConcatProperties
  <2>4. feed \in {ClockFeed, <<"SET_PAYOUT">> \o ClockFeed}
    BY DEF Init
  <2>5. QED
    BY <2>1, <2>2, <2>3, <2>4
<1>6. TypeOK
  <2>1. wpend \in Seq(StakeEvents) /\ dq \in Seq(Nat)
    BY <1>1
  <2>2. opend \in BOOLEAN /\ rQ \in BOOLEAN /\ startC \in BOOLEAN /\ postC \in BOOLEAN
    BY <1>1, Zenon
  <2>3. /\ phase \in 0 .. 3 /\ receipt \in {"none", "open"} /\ stk \in 0 .. MaxStk
        /\ added \in Nat /\ pc = "loop" /\ opc = "start" /\ wpc = "off"
        /\ dErr = "none"
    BY <1>1
  <2>4. QED
    BY <1>2, <1>3, <1>4, <1>5, <2>1, <2>2, <2>3
    DEF TypeOK, Internal, Locals, Events, PRE, CLOSEOUT
<1>7. Followed /\ Pending
  BY <1>1, <1>2, BatchTable DEF Followed, Pending
<1>8. Timely
  BY <1>1 DEF Timely
<1>9. Owed
  <2>1. in.count["STK_ADDING"] = 0 /\ in.count["STK_WITHDRAWN"] = 0
    BY <1>2 DEF Events, StakeEvents
  <2>2. QED
    BY <1>1, <1>3, <2>1, BatchTable DEF Owed
<1>10. Asked
  <2>1. in.count["WITHDRAW"] = 0 /\ in.count["VAL_WITHDRAWN"] = 0
    BY <1>2 DEF Events, StakeEvents, Triggers
  <2>2. QED
    BY <1>1, <1>2, <2>1 DEF Asked
<1>11. QED
  BY <1>6, <1>7, <1>8, <1>9, <1>10 DEF VsInv

\* A step of the chain or of one of the three goroutines.
LEMMA VsNextInv == VsInv /\ [Next]_vars => VsInv'
<1> SUFFICES ASSUME VsInv, [Next]_vars PROVE VsInv'
  OBVIOUS
<1>1. CASE Chain
  BY <1>1, ChainSteps
<1>2. CASE Open
  BY <1>2, OpenSteps
<1>3. CASE WaitSubscribe \/ WaitLoad
  BY <1>3, WaitStartSteps
<1>4. CASE WaitPost
  BY <1>4, WaitPostStep
<1>5. CASE WaitData
  BY <1>5, WaitDataStep
<1>6. CASE WaitClosed
  BY <1>6, WaitClosedStep
<1>7. CASE OnPayoutEvent
  BY <1>7, PayoutEventStep
<1>8. CASE OnReceipt
  BY <1>8, ReceiptStep
<1>9. CASE OnReceiptEvent
  BY <1>9, ReceiptEventStep
<1>10. CASE OnError \/ Cancel
  BY <1>10, EndSteps
<1>11. CASE UNCHANGED vars
  BY <1>11 DEF VsInv, TypeOK, Followed, Pending, Timely, Owed, Asked, vars
<1>12. QED
  BY <1>1, <1>2, <1>3, <1>4, <1>5, <1>6, <1>7, <1>8, <1>9, <1>10, <1>11
  DEF Next, Wait, Home

\* The invariant holds in every state of the validator scheduler.
THEOREM VsInvariance == Spec => []VsInv
  BY VsInitInv, VsNextInv, PTL DEF Spec

-----------------------------------------------------------------------------
(* What the follower knows of the stakers.                                 *)

\* The last count in the stream, or the last one read, is the counter of the
\* receipt, as long as the stream has not overflowed.
Unread ==
    /\ wpc \in {"off", "start"} => dq = <<>> /\ dErr = "none"
    /\ dErr = "nil" => receipt = "closed"
    /\ receipt = "closed" => stk = 0
    /\ wpc \in {"load", "run"} /\ dErr # "full" /\ dq # <<>> => dq[Len(dq)] = stk
    /\ wpc = "run" /\ dErr # "full" /\ dq = <<>> => wait.counter = stk

\* A count of zero in the stream, and what was decided on one, means that
\* the stakers have left for good; what is decided without one rests on
\* counts that have not been read.
Gone ==
    /\ \A i \in 1 .. Len(dq) : dq[i] = 0 => stk = 0
    /\ wait.sentWithdrawn => stk = 0 /\ phase >= POST
    /\ in.count["STK_WITHDRAWN"] > 0 => wait.sentWithdrawn
    /\ in.withdrawCtx # "none" =>
          in.count["STK_WITHDRAWN"] > 0 \/ in.count["STK_EMPTY"] > 0
    /\ wpend = <<"STK_EMPTY">> /\ stk > 0 => dq # <<>> \/ dErr = "full"

\* The conjuncts a step leaves alone.
LEMMA UnreadKept ==
  ASSUME Unread, UNCHANGED <<wpc, wait, dq, dErr, receipt, stk>> PROVE Unread'
  BY DEF Unread

LEMMA GoneKept ==
  ASSUME Gone, UNCHANGED <<stk, wait, wpend, dq, dErr, in>>, phase \in Nat,
         phase' \in Nat, phase <= phase'
  PROVE  Gone'
  BY DEF Gone, POST

\* A staker comes or goes: the new counter is the last one in the stream, or
\* the stream is found full.
LEMMA StakerSteps2 ==
  ASSUME VsInv, Unread, Gone, ChainStakerAdd \/ ChainStakerWithdraw
  PROVE  Unread' /\ Gone'
<1>1. /\ TypeOK /\ Timely /\ phase \in 0 .. 3 /\ stk \in Nat /\ dq \in Seq(Nat)
      /\ dErr \in {"none", "nil", "full"} /\ wpend \in Batches
  BY Types DEF VsInv, TypeOK, Pending
<1>2. /\ UNCHANGED <<phase, receipt, wpc, wait, wpend, in>> /\ Deliver(stk') /\ stk' \in Nat
      /\ receipt # "closed"
      /\ \/ phase = 1 /\ stk' = stk + 1
         \/ phase >= 2 /\ stk > 0 /\ stk' = stk - 1
  BY <1>1 DEF ChainStakerAdd, ChainStakerWithdraw, PERIOD, POST, Unread
<1>3. /\ dq' \in Seq(Nat)
      /\ \/ dq' = dq
         \/ /\ Len(dq') = Len(dq) + 1 /\ Len(dq) \in Nat
            /\ \A i \in 1 .. Len(dq) : dq'[i] = dq[i]
            /\ dq'[Len(dq) + 1] = stk'
  BY <1>1, <1>2, DeliverEffect
<1>4. dErr # "nil"
  BY <1>2 DEF Unread
<1>5. stk = 0 /\ phase >= 2 => FALSE
  BY <1>2
<1>6. \A i \in 1 .. Len(dq) : dq[i] # 0
  <2>1. SUFFICES ASSUME NEW i \in 1 .. Len(dq), dq[i] = 0 PROVE FALSE
    OBVIOUS
  <2>2. stk = 0
    BY <2>1 DEF Gone
  <2>3. phase >= 2
    BY <1>1, <2>1 DEF Timely, POST
  <2>4. QED
    BY <1>5, <2>2, <2>3
<1>7. ~wait.sentWithdrawn
  BY <1>5 DEF Gone, POST
<1>8. \A i \in 1 .. Len(dq') : dq'[i] = 0 => stk' = 0
  <2>1. CASE dq' = dq
    BY <1>6, <2>1
  <2>2. CASE dq' # dq
    <3>1. SUFFICES ASSUME NEW i \in 1 .. Len(dq'), dq'[i] = 0 PROVE stk' = 0
      OBVIOUS
    <3>2. i \in 1 .. Len(dq) \/ i = Len(dq) + 1
      BY <1>3, <2>2
    <3>3. QED
      BY <1>3, <1>6, <2>2, <3>1, <3>2
  <2>3. QED
    BY <2>1, <2>2
<1>9. dq # <<>> => dq' # <<>>
  <2>1. dq = <<>> \/ Len(dq) # 0
    BY <1>1, EmptySeq
  <2>2. dq' = <<>> => Len(dq') = 0
    OBVIOUS
  <2>3. QED
    BY <1>3, <2>1, <2>2
<1>10. dErr = "full" => dErr' = "full"
  BY DEF Deliver, ChainStakerAdd, ChainStakerWithdraw
<1>11. Gone'
  <2>1. wpend = <<"STK_EMPTY">> => phase >= 2
    BY <1>1, BatchTable DEF Timely, POST
  <2>2. wpend = <<"STK_EMPTY">> /\ stk' > 0 => stk > 0
    BY <1>1, <1>2, <2>1
  <2>3. QED
    BY <1>2, <1>7, <1>8, <1>9, <1>10, <2>2 DEF Gone
<1>12. Unread'
  <2>1. wpc \in {"off", "start"} => dq' = dq /\ dErr' = dErr
    BY <1>2 DEF Deliver
  <2>2. CASE wpc \in {"load", "run"} /\ dErr' # "full"
    <3>1. dErr = "none"
      BY <1>1, <1>4, <1>10, <2>2
    <3>2. dq' = Append(dq, stk') /\ dErr' = "none"
      <4>1. Len(dq) \in Nat /\ StreamCap \in Nat
        BY <1>1, LenProperties, ValidatorScheduleAssumption
      <4>2. QED
        BY <1>2, <2>2, <3>1, <4>1 DEF Deliver
    <3>3. Len(dq') = Len(dq) + 1 /\ dq'[Len(dq) + 1] = stk' /\ dq' # <<>>
      BY <1>1, <1>2, <3>2, AppendTyped
    <3>4. QED
      BY <1>2, <2>2, <3>2, <3>3 DEF Unread
  <2>3. CASE ~(wpc \in {"load", "run"} /\ dErr' # "full")
    <3>1. dErr' # "nil"
      BY <1>2, <1>4 DEF Deliver
    <3>2. QED
      BY <1>2, <2>1, <2>3, <3>1 DEF Unread
  <2>4. QED
    BY <2>2, <2>3
<1>13. QED
  BY <1>11, <1>12

\* The other steps of the chain.
LEMMA ChainSteps2 ==
  ASSUME VsInv, Unread, Gone, Chain PROVE Unread' /\ Gone'
<1>1. TypeOK /\ phase \in 0 .. 3 /\ phase \in Nat /\ stk \in Nat
  BY Types DEF VsInv, TypeOK
<1>2. CASE Advance
  <2>1. /\ UNCHANGED <<wpc, wait, wpend, dq, dErr, receipt, stk, in>>
        /\ phase' \in Nat /\ phase <= phase'
    BY <1>1, <1>2 DEF Advance, waitVars
  <2>2. QED
    BY <1>1, <2>1, UnreadKept, GoneKept
<1>3. CASE ChainSetPayout
  <2>1. /\ UNCHANGED <<phase, wpc, wait, wpend, dq, dErr, stk, in>>
        /\ receipt = "none" /\ receipt' = "open"
    BY <1>3 DEF ChainSetPayout, waitVars
  <2>2. Gone'
    BY <1>1, <2>1, GoneKept
  <2>3. QED
    BY <2>1, <2>2 DEF Unread
<1>4. CASE ChainStakerAdd \/ ChainStakerWithdraw
  BY <1>4, StakerSteps2
<1>5. CASE ChainReceiptClose
  <2>1. /\ UNCHANGED <<phase, wpc, wait, wpend, dq, stk, in>>
        /\ stk = 0 /\ receipt' = "closed" /\ receipt = "open"
        /\ dErr' = IF wpc \in {"load", "run"} /\ dErr = "none" THEN "nil" ELSE dErr
    BY <1>5 DEF ChainReceiptClose
  <2>2. dErr = "full" <=> dErr' = "full"
    BY <2>1
  <2>3. Gone'
    BY <1>1, <2>1, <2>2 DEF Gone
  <2>4. Unread'
    BY <2>1, <2>2 DEF Unread
  <2>5. QED
    BY <2>3, <2>4
<1>6. QED
  BY <1>2, <1>3, <1>4, <1>5 DEF Chain

\* The follower subscribes and reads the receipt.
LEMMA WaitStartSteps2 ==
  ASSUME VsInv, Unread, Gone, WaitSubscribe \/ WaitLoad PROVE Unread' /\ Gone'
<1>1. /\ TypeOK /\ Pending /\ Owed /\ phase \in Nat /\ stk \in Nat /\ wait \in Locals
  BY Types DEF VsInv, TypeOK, Pending
<1>2. CASE WaitSubscribe
  <2>1. /\ UNCHANGED <<phase, wait, wpend, dq, dErr, receipt, stk, in>>
        /\ wpc = "start" /\ wpc' \in {"hung", "load"}
    BY <1>2 DEF WaitSubscribe, chain
  <2>2. Gone'
    BY <1>1, <2>1, GoneKept
  <2>3. QED
    BY <2>1, <2>2 DEF Unread
<1>3. CASE WaitLoad /\ receipt = "closed"
  <2>1. /\ UNCHANGED <<phase, wait, wpend, dq, dErr, receipt, stk, in>> /\ wpc' = "done"
    BY <1>3 DEF WaitLoad, chain
  <2>2. Gone'
    BY <1>1, <2>1, GoneKept
  <2>3. QED
    BY <2>1, <2>2 DEF Unread
<1>4. CASE WaitLoad /\ receipt # "closed"
  <2>1. /\ UNCHANGED <<phase, dq, dErr, receipt, stk, in>>
        /\ wpc = "load" /\ wpc' = "run"
        /\ wpend' = IF stk > 0 THEN <<"STK_ADDING">> ELSE <<>>
    BY <1>4 DEF WaitLoad, chain
  <2>2. PICK b \in BOOLEAN : wait' = [wait EXCEPT !.adding = b, !.counter = stk]
    <3>1. (stk > 0) \in BOOLEAN
      BY <1>1
    <3>2. wait' = [wait EXCEPT !.adding = stk > 0, !.counter = stk]
      BY <1>4 DEF WaitLoad
    <3>3. QED
      BY <3>1, <3>2
  <2>3. wait'.counter = stk /\ wait'.sentWithdrawn = wait.sentWithdrawn
    BY <1>1, <2>2 DEF Locals
  <2>4. wpend' # <<"STK_EMPTY">>
    BY <2>1
  <2>5. Gone'
    BY <1>1, <2>1, <2>3, <2>4 DEF Gone
  <2>6. Unread'
    BY <2>1, <2>3 DEF Unread
  <2>7. QED
    BY <2>5, <2>6
<1>5. QED
  BY <1>2, <1>3, <1>4

\* The delay has passed: an empty receipt is decided on the last count read.
LEMMA WaitPostStep2 ==
  ASSUME VsInv, Unread, Gone, WaitPost PROVE Unread' /\ Gone'
<1>1. /\ TypeOK /\ phase \in Nat /\ stk \in Nat /\ wait \in Locals
  BY Types DEF VsInv, TypeOK
<1>2. /\ UNCHANGED <<phase, dq, dErr, receipt, stk, in, wpc>> /\ wpc = "run"
      /\ (wpend' = <<"STK_EMPTY">> => wait.counter = 0)
  BY DEF WaitPost, chain
<1>3. PICK b \in BOOLEAN : wait' = [wait EXCEPT !.sentEmpty = b]
  BY DEF WaitPost
<1>4. wait'.counter = wait.counter /\ wait'.sentWithdrawn = wait.sentWithdrawn
  BY <1>1, <1>3 DEF Locals
<1>5. wpend' = <<"STK_EMPTY">> /\ stk > 0 => dq # <<>> \/ dErr = "full"
  BY <1>1, <1>2 DEF Unread
<1>6. Gone'
  BY <1>1, <1>2, <1>4, <1>5 DEF Gone
<1>7. Unread'
  BY <1>2, <1>4 DEF Unread
<1>8. QED
  BY <1>6, <1>7

\* A count is read.
LEMMA WaitDataStep2 ==
  ASSUME VsInv, Unread, Gone, WaitData PROVE Unread' /\ Gone'
<1>1. /\ TypeOK /\ Timely /\ phase \in 0 .. 3 /\ stk \in Nat /\ wait \in Locals
  BY Types DEF VsInv, TypeOK
<1>2. /\ UNCHANGED <<phase, dErr, receipt, stk, in, wpc>> /\ wpc = "run"
      /\ dq # <<>> /\ dq' = Tail(dq)
  BY DEF WaitData, chain
<1>3. /\ dq \in Seq(Nat) /\ Head(dq) \in Nat /\ Head(dq) = dq[1]
      /\ dq' \in Seq(Nat) /\ Len(dq) \in Nat \ {0} /\ Len(dq') = Len(dq) - 1
      /\ \A i \in 1 .. Len(dq') : dq'[i] = dq[i + 1]
  BY <1>1, <1>2, TailTyped DEF TypeOK
<1>4. PICK a \in BOOLEAN, c \in BOOLEAN, left \in BOOLEAN :
        /\ wait' = [wait EXCEPT !.counter = Head(dq), !.adding = a,
                                !.sentAdding = c,
                                !.sentWithdrawn = @ \/ left]
        /\ left => Head(dq) = 0
        /\ wpend' \in {<<>>, <<"STK_ADDING">>, <<"STK_WITHDRAWN">>,
                       <<"STK_ADDING">> \o <<"STK_WITHDRAWN">>}
  <2> DEFINE n == Head(dq)
             add == ~wait.sentAdding /\ ~wait.adding /\ n > 0
             adding == wait.adding \/ add
             left == ~wait.sentWithdrawn /\ adding /\ n = 0
             sa == wait.sentAdding \/ add
  <2>1. /\ wait' = [wait EXCEPT !.counter = n, !.adding = adding,
                                !.sentAdding = sa, !.sentWithdrawn = @ \/ left]
        /\ wpend' = (IF add THEN <<"STK_ADDING">> ELSE <<>>)
                    \o (IF left THEN <<"STK_WITHDRAWN">> ELSE <<>>)
    BY DEF WaitData, Leaves
  <2>2. adding \in BOOLEAN /\ sa \in BOOLEAN /\ left \in BOOLEAN /\ (left => n = 0)
        /\ add \in BOOLEAN
    BY <1>1 DEF Locals
  <2> HIDE DEF add, adding, left, sa
  <2>3. wpend' \in {<<>>, <<"STK_ADDING">>, <<"STK_WITHDRAWN">>,
                    <<"STK_ADDING">> \o <<"STK_WITHDRAWN">>}
    <3>1. wpend' \in {<<>> \o <<>>, <<"STK_ADDING">> \o <<>>, <<>> \o <<"STK_WITHDRAWN">>,
                     <<"STK_ADDING">> \o <<"STK_WITHDRAWN">>}
      BY <2>1, <2>2
    <3>2. /\ <<>> \o <<>> = <<>> /\ <<"STK_ADDING">> \o <<>> = <<"STK_ADDING">>
          /\ <<>> \o <<"STK_WITHDRAWN">> = <<"STK_WITHDRAWN">>
      OBVIOUS
    <3>3. QED
      BY <3>1, <3>2
  <2>4. QED
    BY <2>1, <2>2, <2>3
<1>5. /\ wait'.counter = Head(dq)
      /\ wait'.sentWithdrawn <=> wait.sentWithdrawn \/ left
  BY <1>1, <1>4 DEF Locals
<1>6. left => stk = 0 /\ phase >= 2
  BY <1>1, <1>3, <1>4 DEF Gone, Timely, POST
<1>7. wpend' # <<"STK_EMPTY">>
  BY <1>4
<1>8. Gone'
  <2>1. \A i \in 1 .. Len(dq') : dq'[i] = 0 => stk = 0
    BY <1>3 DEF Gone
  <2>2. QED
    BY <1>2, <1>5, <1>6, <1>7, <2>1 DEF Gone, POST
<1>9. Unread'
  <2>1. dErr # "full" => dq[Len(dq)] = stk
    BY <1>2 DEF Unread
  <2>2. CASE dq' = <<>>
    <3>1. Len(dq) = 1
      BY <1>3, <2>2, EmptySeq
    <3>2. QED
      BY <1>2, <1>3, <1>5, <2>1, <2>2, <3>1 DEF Unread
  <2>3. CASE dq' # <<>>
    <3>1. Len(dq') \in Nat \ {0} /\ dq'[Len(dq')] = dq[Len(dq)]
      <4>1. Len(dq') # 0
        BY <1>3, <2>3, EmptySeq
      <4>2. Len(dq') \in 1 .. Len(dq') /\ Len(dq') + 1 = Len(dq)
        BY <1>3, <4>1
      <4>3. dq'[Len(dq')] = dq[Len(dq') + 1]
        BY <1>3, <4>2
      <4>4. QED
        BY <1>3, <4>1, <4>2, <4>3
    <3>2. QED
      BY <1>2, <2>1, <2>3, <3>1 DEF Unread
  <2>4. QED
    BY <2>2, <2>3
<1>10. QED
  BY <1>8, <1>9

\* The other steps.
LEMMA OtherSteps2 ==
  ASSUME VsInv, Unread, Gone,
         Open \/ WaitClosed \/ OnPayoutEvent \/ OnReceipt \/ OnError \/ Cancel
  PROVE  Unread' /\ Gone'
<1>1. /\ TypeOK /\ Followed /\ Pending /\ Asked /\ Owed /\ phase \in Nat /\ stk \in Nat
      /\ in \in Internal
  BY Types DEF VsInv, TypeOK
<1>2. CASE Open
  <2>1. UNCHANGED <<phase, wpc, wait, wpend, dq, dErr, receipt, stk, in>>
    BY <1>2 DEF Open, OpenStart, OpenReceipt, OpenExpired, chain, waitVars
  <2>2. QED
    BY <1>1, <2>1, UnreadKept, GoneKept
<1>3. CASE WaitClosed
  <2>1. /\ UNCHANGED <<phase, wait, dq, dErr, receipt, stk, in>>
        /\ wpc' = "end" /\ wpend = <<>> /\ wpend' \in {<<>>, <<"VAL_WITHDRAWN">>}
    BY <1>3 DEF WaitClosed, chain
  <2>2. wpend' # <<"STK_EMPTY">>
    BY <2>1
  <2>3. Gone'
    BY <1>1, <2>1, <2>2 DEF Gone
  <2>4. QED
    BY <2>1, <2>3 DEF Unread
<1>4. CASE OnPayoutEvent
  <2>1. UNCHANGED <<phase, wpc, wait, wpend, dq, dErr, receipt, stk>>
    BY <1>4 DEF OnPayoutEvent, chain, waitVars
  <2>2. \/ in' = broadcast(in, "SET_PAYOUT")
        \/ \E b \in BOOLEAN :
              in' = [in EXCEPT !.sentPeriodStart = TRUE, !.sentPeriodPostClose = b]
    <3>1. in.sentPeriodPostClose \in BOOLEAN
      BY <1>1 DEF Internal
    <3>2. QED
      BY <1>4, <3>1 DEF OnPayoutEvent, IsPost
  <2>3. /\ in'.withdrawCtx = in.withdrawCtx
        /\ in'.count["STK_WITHDRAWN"] = in.count["STK_WITHDRAWN"]
        /\ in'.count["STK_EMPTY"] = in.count["STK_EMPTY"]
    <3>1. CASE in' = broadcast(in, "SET_PAYOUT")
      BY <1>1, <3>1, Broadcast DEF Events, StakeEvents, Triggers
    <3>2. CASE \E b \in BOOLEAN :
              in' = [in EXCEPT !.sentPeriodStart = TRUE, !.sentPeriodPostClose = b]
      BY <1>1, <3>2 DEF Internal
    <3>3. QED
      BY <2>2, <3>1, <3>2
  <2>4. Gone'
    BY <2>1, <2>3 DEF Gone
  <2>5. QED
    BY <2>1, <2>4, UnreadKept
<1>5. CASE OnReceipt
  <2>1. /\ UNCHANGED <<phase, wait, wpend, dq, dErr, receipt, stk>>
        /\ opend /\ wpc' = "start"
        /\ in' = run_validator_withdraw([in EXCEPT !.receipts = @ + 1])
    BY <1>5 DEF OnReceipt, chain
  <2>2. wpc = "off" /\ in.receipts = 0 /\ in.withdrawCtx = "none"
    BY <1>1, <1>5 DEF Followed, Asked, OnReceipt
  <2>3. in' = [in EXCEPT !.receipts = @ + 1]
    BY <1>1, <2>1, <2>2 DEF run_validator_withdraw, Internal
  <2>4. in'.withdrawCtx = in.withdrawCtx /\ in'.count = in.count
    BY <1>1, <2>3 DEF Internal
  <2>5. Gone'
    BY <2>1, <2>4 DEF Gone
  <2>6. QED
    BY <2>1, <2>2, <2>5 DEF Unread
<1>6. CASE OnError \/ Cancel
  <2>1. /\ UNCHANGED <<phase, wait, dq, dErr, receipt, stk>> /\ wpc' = "done" /\ wpend' = <<>>
        /\ in' = [in EXCEPT !.withdrawCtx = IF @ = "live" THEN "done" ELSE @]
    BY <1>6 DEF OnError, Cancel, Ended, chain
  <2>2. in'.count = in.count /\ (in'.withdrawCtx # "none" => in.withdrawCtx # "none")
    BY <1>1, <2>1 DEF Internal
  <2>3. wpend' # <<"STK_EMPTY">>
    BY <2>1
  <2>4. Gone'
    BY <2>1, <2>2, <2>3 DEF Gone
  <2>5. QED
    BY <2>1, <2>4 DEF Unread
<1>7. QED
  BY <1>2, <1>3, <1>4, <1>5, <1>6

\* The home handles an event of the follower.
LEMMA ReceiptEventStep2 ==
  ASSUME VsInv, Unread, Gone, OnReceiptEvent PROVE Unread' /\ Gone'
<1>1. /\ TypeOK /\ Pending /\ Owed /\ Asked /\ wpend \in Batches
      /\ in.count["STK_WITHDRAWN"] \in Nat /\ in.count["STK_EMPTY"] \in Nat
  BY Types DEF VsInv, Pending, Events, StakeEvents
<1>2. /\ pc = "loop" /\ wpend # <<>> /\ wpend' = Tail(wpend)
      /\ wpc' = IF wpc = "end" THEN "done" ELSE wpc
      /\ UNCHANGED <<phase, receipt, stk, wait, dq, dErr>>
  BY DEF OnReceiptEvent, chain
<1>3. PICK e : e = Head(wpend)
  OBVIOUS
<1>4. /\ \A f \in StakeEvents :
            in'.count[f] = IF f = e THEN in.count[f] + 1 ELSE in.count[f]
      /\ in'.withdrawCtx # "none" =>
            in.withdrawCtx # "none" \/ e \in {"STK_WITHDRAWN", "STK_EMPTY"}
  <2>1. /\ \A f \in StakeEvents :
              in'.count[f] = IF f = e THEN in.count[f] + 1 ELSE in.count[f]
        /\ \/ e \in {"STK_WITHDRAWN", "STK_EMPTY"}
           \/ in'.withdrawCtx = in.withdrawCtx
           \/ in'.withdrawCtx =
                 IF in.withdrawCtx = "live" THEN "done" ELSE in.withdrawCtx
    BY <1>3, ReceiptEventEffect
  <2>2. QED
    BY <2>1
<1>5. e = "STK_WITHDRAWN" => wait.sentWithdrawn
  <2>1. e = "STK_WITHDRAWN" => wpend \in Leaving
    BY <1>1, <1>2, <1>3, BatchStep
  <2>2. QED
    BY <1>1, <1>2, <2>1 DEF Owed
<1>6. wpend' # <<"STK_EMPTY">>
  BY <1>1, <1>2, BatchStep
<1>7. Gone'
  <2>1. in'.count["STK_WITHDRAWN"] > 0 => wait.sentWithdrawn
    BY <1>4, <1>5 DEF Gone, StakeEvents
  <2>2. in'.withdrawCtx # "none" =>
          in'.count["STK_WITHDRAWN"] > 0 \/ in'.count["STK_EMPTY"] > 0
    BY <1>1, <1>4 DEF Gone, StakeEvents
  <2>3. QED
    BY <1>2, <1>6, <2>1, <2>2 DEF Gone
<1>8. Unread'
  BY <1>2 DEF Unread
<1>9. QED
  BY <1>7, <1>8

\* What the follower knows of the stakers is never more than one unread
\* stream behind.
THEOREM StakersFollowed == Spec => [](Unread /\ Gone)
<1>1. Init => Unread /\ Gone
  <2> SUFFICES ASSUME Init PROVE Unread /\ Gone
    OBVIOUS
  <2>1. /\ dq = <<>> /\ dErr = "none" /\ wpc = "off" /\ wpend = <<>>
        /\ receipt # "closed"
    BY DEF Init
  <2>2. /\ wait.sentWithdrawn = FALSE /\ in.withdrawCtx = "none"
        /\ in.count["STK_WITHDRAWN"] = 0
    BY DEF Init, StakeEvents, Triggers
  <2>3. QED
    BY <2>1, <2>2 DEF Unread, Gone
<1>2. ASSUME VsInv, Unread, Gone, [Next]_vars PROVE Unread' /\ Gone'
  <2>1. CASE Chain
    BY <1>2, <2>1, ChainSteps2
  <2>2. CASE Wait
    BY <1>2, <2>2, WaitStartSteps2, WaitPostStep2, WaitDataStep2, OtherSteps2 DEF Wait
  <2>3. CASE Open \/ Home \/ Cancel
    BY <1>2, <2>3, ReceiptEventStep2, OtherSteps2 DEF Home
  <2>4. CASE UNCHANGED vars
    BY <1>2, <2>4 DEF vars, Unread, Gone
  <2>5. QED
    BY <1>2, <2>1, <2>2, <2>3, <2>4 DEF Next
<1>3. QED
  BY <1>1, <1>2, VsInvariance, PTL DEF Spec

\* However the payout schedule, the receipt, the stakers and the end of the
\* receipt account interleave, the validator agent is told at most once to
\* withdraw, only after the period and for a receipt the scheduler took
\* over, under a context that lives exactly until the receipt is closed or
\* the scheduler ends; subscribers hear of the stakers in order, and a
\* withdrawal asked for while stakers are in rests on counts not yet read.
THEOREM WithdrawIsProper == Spec => []WithdrawProper
<1>1. VsInv /\ Unread /\ Gone => WithdrawProper
  <2> SUFFICES ASSUME VsInv, Unread, Gone PROVE WithdrawProper
    OBVIOUS
  <2>1. /\ TypeOK /\ Followed /\ Pending /\ Timely /\ Owed /\ Asked
    BY DEF VsInv
  <2>2. /\ in.withdrawCtx \in {"none", "live", "done"}
        /\ in.count["WITHDRAW"] \in Nat /\ in.count["VAL_WITHDRAWN"] \in Nat
    BY <2>1, Types DEF Events, StakeEvents, Triggers, Internal
  <2>3. WithdrawOnce
    BY <2>1 DEF WithdrawOnce, Asked, Followed
  <2>4. WithdrawTimely
    BY <2>1 DEF WithdrawTimely, Asked
  <2>5. WithdrawContext
    <3>1. in.count["WITHDRAW"] > 0 <=> in.withdrawCtx # "none"
      BY <2>1 DEF Asked
    <3>2. CASE in.count["VAL_WITHDRAWN"] = 0 /\ pc # "exit"
      BY <2>1, <2>2, <3>1, <3>2 DEF Asked, WithdrawContext
    <3>3. CASE ~(in.count["VAL_WITHDRAWN"] = 0 /\ pc # "exit")
      <4>1. in.count["VAL_WITHDRAWN"] > 0 \/ pc = "exit"
        BY <2>2, <3>3
      <4>2. in.withdrawCtx # "live"
        BY <2>1, <4>1 DEF Asked
      <4>3. QED
        BY <3>3, <4>2 DEF WithdrawContext
    <3>4. QED
      BY <3>2, <3>3
  <2>6. StakersInOrder
    BY <2>1 DEF StakersInOrder, Owed
  <2>7. StakersLeft
    <3>1. in.count["WITHDRAW"] > 0 => in.withdrawCtx # "none"
      BY <2>1 DEF Asked
    <3>2. QED
      BY <2>1, <3>1 DEF StakersLeft, Gone, TypeOK
  <2>8. QED
    BY <2>1, <2>3, <2>4, <2>5, <2>6, <2>7 DEF WithdrawProper
<1>2. QED
  BY <1>1, VsInvariance, StakersFollowed, PTL

-----------------------------------------------------------------------------
(* ReceiptSchedule.                                                        *)

\* The counts in the stream are in the order of the chain.
InTime ==
    /\ stream \in Seq(Counts)
    /\ \A i \in 1 .. Len(stream) : stream[i].sent <= rsChain.sent
    /\ \A i, j \in 1 .. Len(stream) : i <= j => stream[i].sent <= stream[j].sent

\* While a request to approve lives, its count was the last one handled and
\* none that comes is lower.  The first count is read from the account and
\* may be ahead of the stream, but it sets off no request.
Approving ==
    approve.st = "live" =>
        /\ up \notin {"sub", "data"} /\ last = seen.sent /\ last <= rsChain.sent
        /\ \A i \in 1 .. Len(stream) : last <= stream[i].sent

\* Each goroutine reports one error, when it ends.
RsErrors ==
    rsErrorC <= (IF up = "done" THEN 1 ELSE 0) + (IF clock = "done" THEN 1 ELSE 0)

RsInv == RsTypeOK /\ InTime /\ Approving /\ RsErrors /\ LiveApproveCurrent

LEMMA RsInitInv == RsInit => RsInv
<1> SUFFICES ASSUME RsInit PROVE RsInv
  OBVIOUS
<1>1. rsChain \in Counts /\ 0 \in 0 .. MaxCount /\ <<>> \in Seq(Counts) /\ Len(<<>>) = 0
  BY ReceiptScheduleAssumption DEF RsInit, Counts
<1>2. approve \in [st : {"none", "live", "canceled"}, sent : 0 .. MaxCount] /\ approve.st = "none"
  BY <1>1 DEF RsInit, NoApprove
<1>3. RsTypeOK
  BY <1>1, <1>2 DEF RsInit, RsTypeOK
<1>4. QED
  BY <1>1, <1>2, <1>3 DEF RsInit, RsInv, InTime, Approving, RsErrors, LiveApproveCurrent

\* The account changes: its count does not fall.
LEMMA RsChanges ==
  ASSUME RsInv, NEW c \in Counts, rsChain.sent <= c.sent, Change(c)
  PROVE  RsInv'
<1>1. /\ rsChain' = c
      /\ UNCHANGED <<rsCtx, rsLoop, up, last, seen, approve, pending, clock,
                     rsEventC, rsErrorC, rsHistory>>
      /\ stream' = stream \/ stream' = Append(stream, c)
  BY DEF Change
<1>2. /\ RsTypeOK /\ InTime /\ Approving /\ RsErrors /\ LiveApproveCurrent
      /\ rsChain \in Counts /\ seen \in Counts
  BY DEF RsInv, RsTypeOK
<1>3. c.sent \in Nat /\ rsChain.sent \in Nat
  BY <1>2, ReceiptScheduleAssumption DEF Counts
<1>4. RsTypeOK' /\ RsErrors' /\ LiveApproveCurrent'
  BY <1>1, <1>2 DEF RsTypeOK, RsErrors, LiveApproveCurrent
<1>5. /\ stream \in Seq(Counts) /\ Len(stream) \in Nat
      /\ \A i \in 1 .. Len(stream) : stream[i].sent \in Nat
  <2>1. stream \in Seq(Counts) /\ Len(stream) \in Nat
    BY <1>2, LenProperties DEF InTime
  <2>2. \A i \in 1 .. Len(stream) : stream[i] \in Counts
    BY <2>1, ElementOfSeq
  <2>3. \A x \in Counts : x.sent \in Nat
    BY ReceiptScheduleAssumption DEF Counts
  <2>4. QED
    BY <2>1, <2>2, <2>3
<1>6. CASE stream' = stream
  <2>1. \A i \in 1 .. Len(stream) : stream[i].sent <= c.sent
    BY <1>2, <1>3, <1>5 DEF InTime
  <2>2. InTime'
    BY <1>1, <1>2, <1>6, <2>1 DEF InTime
  <2>3. Approving'
    BY <1>1, <1>2, <1>3, <1>6 DEF Approving, RsTypeOK
  <2>4. QED
    BY <1>4, <2>2, <2>3 DEF RsInv
<1>7. CASE stream' = Append(stream, c)
  <2>1. /\ stream' \in Seq(Counts) /\ Len(stream') = Len(stream) + 1
        /\ \A i \in 1 .. Len(stream) : stream'[i] = stream[i]
        /\ stream'[Len(stream) + 1] = c
    BY <1>5, <1>7, AppendProperties
  <2>2. \A i \in 1 .. Len(stream') : i \in 1 .. Len(stream) \/ i = Len(stream) + 1
    BY <1>5, <2>1
  <2>3. \A i \in 1 .. Len(stream') : stream'[i].sent <= c.sent
    BY <1>2, <1>3, <1>5, <2>1, <2>2 DEF InTime
  <2>4. \A i, j \in 1 .. Len(stream') : i <= j => stream'[i].sent <= stream'[j].sent
    <3> SUFFICES ASSUME NEW i \in 1 .. Len(stream'), NEW j \in 1 .. Len(stream'), i <= j
                 PROVE  stream'[i].sent <= stream'[j].sent
      OBVIOUS
    <3>1. CASE j = Len(stream) + 1
      BY <2>1, <2>3, <3>1
    <3>2. CASE j \in 1 .. Len(stream)
      <4>1. i \in 1 .. Len(stream)
        BY <1>5, <2>2, <3>2
      <4>2. QED
        BY <1>2, <2>1, <3>2, <4>1 DEF InTime
    <3>3. QED
      BY <2>2, <3>1, <3>2
  <2>5. InTime'
    BY <1>1, <2>1, <2>3, <2>4 DEF InTime
  <2>6. Approving'
    <3> SUFFICES ASSUME approve.st = "live"
                 PROVE  /\ up \notin {"sub", "data"} /\ last = seen.sent /\ last <= c.sent
                        /\ \A i \in 1 .. Len(stream') : last <= stream'[i].sent
      BY <1>1 DEF Approving
    <3>1. /\ up \notin {"sub", "data"} /\ last = seen.sent /\ last <= rsChain.sent
          /\ \A i \in 1 .. Len(stream) : last <= stream[i].sent
      BY <1>2 DEF Approving
    <3>2. last <= c.sent
      BY <1>2, <1>3, <3>1 DEF RsTypeOK
    <3>3. QED
      BY <2>1, <2>2, <3>1, <3>2
  <2>7. QED
    BY <1>4, <2>5, <2>6 DEF RsInv
<1>8. QED
  BY <1>1, <1>6, <1>7

\* The count that heads the stream is handled.
LEMMA RsHandles == ASSUME RsInv, UpdateStream PROVE RsInv'
<1>a. PICK d : d = Head(stream)
  OBVIOUS
<1>1. /\ up = "run" /\ stream # <<>> /\ stream' = Tail(stream) /\ Handle(d)
      /\ last' = d.sent /\ seen' = d
      /\ up' = IF pending' = "none" THEN "run" ELSE "send"
      /\ UNCHANGED <<rsCtx, rsLoop, rsChain, evicted, clock, rsEventC, rsErrorC, rsHistory>>
  BY <1>a DEF UpdateStream
<1>2. /\ RsTypeOK /\ InTime /\ Approving /\ RsErrors /\ LiveApproveCurrent
      /\ stream \in Seq(Counts) /\ last \in Nat /\ rsChain.sent \in Nat
  BY ReceiptScheduleAssumption DEF RsInv, RsTypeOK, InTime, Counts
<1>3. /\ Len(stream) \in Nat /\ 1 \in 1 .. Len(stream) /\ d = stream[1] /\ d \in Counts
      /\ stream' \in Seq(Counts) /\ Len(stream') = Len(stream) - 1
      /\ \A i \in 1 .. Len(stream') : i + 1 \in 1 .. Len(stream) /\ stream'[i] = stream[i + 1]
  BY <1>a, <1>1, <1>2, HeadTailProperties, EmptySeq, LenProperties, ElementOfSeq
<1>4. /\ d.sent \in 0 .. MaxCount /\ d.signed \in 0 .. MaxCount /\ d.sent \in Nat
      /\ d.sent <= rsChain.sent
  BY <1>2, <1>3, ReceiptScheduleAssumption DEF Counts, InTime
<1>5. \A i \in 1 .. Len(stream') : d.sent <= stream'[i].sent
  BY <1>2, <1>3 DEF InTime
<1>6. InTime'
  <2>1. \A i, j \in 1 .. Len(stream') : i <= j => stream'[i].sent <= stream'[j].sent
    <3> SUFFICES ASSUME NEW i \in 1 .. Len(stream'), NEW j \in 1 .. Len(stream'), i <= j
                 PROVE  stream'[i].sent <= stream'[j].sent
      OBVIOUS
    <3>1. PICK k : k = i + 1
      OBVIOUS
    <3>2. PICK l : l = j + 1
      OBVIOUS
    <3>3. k \in 1 .. Len(stream) /\ l \in 1 .. Len(stream) /\ k <= l
      BY <1>3, <3>1, <3>2
    <3>4. QED
      BY <1>2, <1>3, <3>1, <3>2, <3>3 DEF InTime
  <2>2. \A i \in 1 .. Len(stream') : stream'[i].sent <= rsChain.sent
    BY <1>2, <1>3 DEF InTime
  <2>3. QED
    BY <1>1, <1>3, <2>1, <2>2 DEF InTime
<1>7. /\ pending' \in {"none", "approve", "approved"}
      /\ up' \in {"run", "send"}
      /\ approve' \in [st : {"none", "live", "canceled"}, sent : 0 .. MaxCount]
  <2>1. pending' \in {"none", "approve", "approved"}
    BY <1>1 DEF Handle
  <2>2. approve \in [st : {"none", "live", "canceled"}, sent : 0 .. MaxCount]
    BY <1>2 DEF RsTypeOK
  <2>3. Canceled(approve) \in [st : {"none", "live", "canceled"}, sent : 0 .. MaxCount]
    BY <2>2 DEF Canceled
  <2>4. QED
    BY <1>1, <1>4, <2>1, <2>2, <2>3 DEF Handle
<1>8. RsTypeOK' /\ RsErrors'
  BY <1>1, <1>2, <1>3, <1>4, <1>7 DEF RsTypeOK, RsErrors
<1>9. approve'.st = "live" => approve'.sent = d.sent /\ d.signed # d.sent
  <2>1. CASE pending' = "approve"
    BY <1>1, <1>4, <2>1 DEF Handle
  <2>2. CASE pending' = "approved"
    BY <1>1, <1>2, <2>2 DEF Handle, Canceled, RsTypeOK
  <2>3. CASE pending' = "none"
    <3> SUFFICES ASSUME approve.st = "live" PROVE approve.sent = d.sent /\ d.signed # d.sent
      BY <1>1, <2>3 DEF Handle
    <3>1. last <= d.sent /\ approve.sent = last
      BY <1>2, <1>3 DEF Approving, LiveApproveCurrent
    <3>2. ~(last < d.sent /\ d.sent # d.signed) /\ ~(last <= d.sent /\ d.sent = d.signed)
      BY <1>1, <2>3 DEF Handle
    <3>3. QED
      BY <1>2, <1>4, <3>1, <3>2
  <2>4. QED
    BY <1>7, <2>1, <2>2, <2>3
<1>10. Approving' /\ LiveApproveCurrent'
  BY <1>1, <1>4, <1>5, <1>7, <1>9 DEF Approving, LiveApproveCurrent
<1>11. QED
  BY <1>6, <1>8, <1>10 DEF RsInv

\* The other steps leave the account and the stream alone.
LEMMA RsSteps ==
  ASSUME RsInv, RsClose \/ UpdateSubscribe \/ UpdateData \/ UpdateSend \/ UpdateEnds
                \/ ClockStep \/ OnEvent \/ RsFinish
  PROVE  RsInv'
<1>1. /\ RsTypeOK /\ InTime /\ Approving /\ RsErrors /\ LiveApproveCurrent
      /\ approve \in [st : {"none", "live", "canceled"}, sent : 0 .. MaxCount]
      /\ rsErrorC \in 0 .. 5 /\ rsChain \in Counts /\ rsChain.sent \in 0 .. MaxCount
  BY DEF RsInv, RsTypeOK, Counts
<1>2. rsChain' = rsChain /\ stream' = stream
  BY DEF RsClose, UpdateSubscribe, UpdateData, UpdateSend, UpdateEnds, ClockStep, OnEvent, RsFinish
<1>3. InTime'
  BY <1>1, <1>2 DEF InTime
<1>4. CASE RsClose \/ RsFinish
  <2>1. RsTypeOK' /\ Approving' /\ RsErrors' /\ LiveApproveCurrent'
    BY <1>1, <1>4 DEF RsClose, RsFinish, RsTypeOK, Approving, RsErrors, LiveApproveCurrent
  <2>2. QED
    BY <1>3, <2>1 DEF RsInv
<1>5. CASE UpdateSubscribe
  <2>1. approve.st # "live"
    BY <1>1, <1>5 DEF UpdateSubscribe, Approving
  <2>2. RsTypeOK' /\ Approving' /\ RsErrors' /\ LiveApproveCurrent'
    BY <1>1, <1>5, <2>1 DEF UpdateSubscribe, RsTypeOK, Approving, RsErrors, LiveApproveCurrent
  <2>3. QED
    BY <1>3, <2>2 DEF RsInv
<1>6. CASE UpdateData
  <2>1. approve' = approve /\ approve.st # "live"
    BY <1>1, <1>6 DEF UpdateData, Approving
  <2>2. Approving' /\ LiveApproveCurrent'
    BY <2>1 DEF Approving, LiveApproveCurrent
  <2>3. pending' \in {"none", "count", "approve", "approved"} /\ up' \in {"run", "send", "done"}
    BY <1>1, <1>6 DEF UpdateData, RsTypeOK
  <2>4. /\ up = "data" /\ (rsErrorC' = rsErrorC \/ (rsErrorC' = rsErrorC + 1 /\ up' = "done"))
        /\ UNCHANGED <<rsCtx, rsLoop, clock, rsEventC>>
        /\ seen' \in Counts /\ last' \in 0 .. MaxCount
    BY <1>1, <1>6 DEF UpdateData, RsTypeOK
  <2>5. RsErrors' /\ rsErrorC' \in 0 .. 5
    BY <1>1, <2>4 DEF RsErrors
  <2>6. RsTypeOK'
    BY <1>1, <1>2, <2>1, <2>3, <2>4, <2>5 DEF RsTypeOK
  <2>7. QED
    BY <1>3, <2>2, <2>5, <2>6 DEF RsInv
<1>7. CASE UpdateSend
  <2>a. Len(<<pending>>) = 1 /\ Len(rsEventC) <= 1
    BY <1>1 DEF RsTypeOK
  <2>1. /\ up = "send" /\ up' = "run" /\ pending' = "none" /\ Len(rsEventC') <= 1
        /\ UNCHANGED <<rsCtx, rsLoop, last, seen, clock, rsErrorC>>
    <3>1. rsEventC' = <<pending>> \/ rsEventC' = rsEventC
      BY <1>7 DEF UpdateSend
    <3>2. Len(rsEventC') <= 1
      <4>1. CASE rsEventC' = rsEventC
        BY <2>a, <4>1, Zenon
      <4>2. CASE rsEventC' = <<pending>>
        BY <2>a, <4>2
      <4>3. QED
        BY <3>1, <4>1, <4>2
    <3>3. QED
      BY <1>7, <3>2 DEF UpdateSend
  <2>2. approve' = approve \/ approve' = Canceled(approve)
    BY <1>7 DEF UpdateSend
  <2>3. /\ approve' \in [st : {"none", "live", "canceled"}, sent : 0 .. MaxCount]
        /\ approve'.st = "live" => approve' = approve
    BY <1>1, <2>2 DEF Canceled
  <2>4. RsTypeOK' /\ RsErrors'
    BY <1>1, <1>2, <2>1, <2>3 DEF RsTypeOK, RsErrors
  <2>5. Approving' /\ LiveApproveCurrent'
    BY <1>1, <1>2, <2>1, <2>3 DEF Approving, LiveApproveCurrent
  <2>6. QED
    BY <1>3, <2>4, <2>5 DEF RsInv
<1>8. CASE UpdateEnds
  <2>1. Approving' /\ LiveApproveCurrent'
    BY <1>1, <1>8 DEF UpdateEnds, Approving, LiveApproveCurrent
  <2>2. RsErrors' /\ rsErrorC' \in 0 .. 5
    BY <1>1, <1>8 DEF UpdateEnds, RsErrors
  <2>3. RsTypeOK'
    BY <1>1, <1>8, <2>2 DEF UpdateEnds, RsTypeOK
  <2>4. QED
    BY <1>3, <2>1, <2>2, <2>3 DEF RsInv
<1>9. CASE ClockStep
  <2>1. Approving' /\ LiveApproveCurrent'
    BY <1>1, <1>9 DEF ClockStep, Approving, LiveApproveCurrent
  <2>2. RsErrors' /\ rsErrorC' \in 0 .. 5
    BY <1>1, <1>9 DEF ClockStep, RsErrors
  <2>3. Len(rsEventC') <= 1 /\ clock' \in {"wait", "send", "done"}
    <3>1. rsEventC' = <<"finish">> \/ rsEventC' = rsEventC
      BY <1>9 DEF ClockStep
    <3>2. Len(<<"finish">>) = 1 /\ Len(rsEventC) <= 1
      BY <1>1 DEF RsTypeOK
    <3>3. Len(rsEventC') <= 1
      <4>1. CASE rsEventC' = rsEventC
        BY <3>2, <4>1, Zenon
      <4>2. CASE rsEventC' = <<"finish">>
        BY <3>2, <4>2
      <4>3. QED
        BY <3>1, <4>1, <4>2
    <3>4. QED
      BY <1>1, <1>9, <3>3 DEF ClockStep, RsTypeOK
  <2>4. RsTypeOK'
    BY <1>1, <1>9, <2>2, <2>3 DEF ClockStep, RsTypeOK
  <2>5. QED
    BY <1>3, <2>1, <2>2, <2>4 DEF RsInv
<1>10. CASE OnEvent
  <2>1. RsTypeOK' /\ Approving' /\ RsErrors' /\ LiveApproveCurrent'
    BY <1>1, <1>10 DEF OnEvent, RsTypeOK, Approving, RsErrors, LiveApproveCurrent
  <2>2. QED
    BY <1>3, <2>1 DEF RsInv
<1>11. QED
  BY <1>4, <1>5, <1>6, <1>7, <1>8, <1>9, <1>10

\* The receipt scheduler keeps its invariant.
THEOREM RsInvariance == RsSpec => []RsInv
<1>1. ASSUME RsInv, RsNext PROVE RsInv'
  <2>1. CASE PipelineCounts
    <3>1. PICK c : c = [rsChain EXCEPT !.sent = @ + 1]
      OBVIOUS
    <3>2. rsChain \in Counts /\ rsChain.sent < MaxCount /\ Change(c)
      BY <1>1, <2>1, <3>1 DEF PipelineCounts, RsInv, RsTypeOK
    <3>3. c \in Counts /\ rsChain.sent <= c.sent
      BY <3>1, <3>2, ReceiptScheduleAssumption DEF Counts
    <3>4. QED
      BY <1>1, <3>2, <3>3, RsChanges
  <2>2. CASE ValidatorSigns
    <3>1. PICK c : c = [rsChain EXCEPT !.signed = rsChain.sent]
      OBVIOUS
    <3>2. rsChain \in Counts /\ Change(c)
      BY <1>1, <2>2, <3>1 DEF ValidatorSigns, RsInv, RsTypeOK
    <3>3. c \in Counts /\ rsChain.sent <= c.sent
      BY <3>1, <3>2, ReceiptScheduleAssumption DEF Counts
    <3>4. QED
      BY <1>1, <3>2, <3>3, RsChanges
  <2>3. QED
    BY <1>1, <2>1, <2>2, RsHandles, RsSteps DEF RsNext
<1>2. ASSUME RsInv, UNCHANGED rsVars PROVE RsInv'
  BY <1>2 DEF rsVars, RsInv, RsTypeOK, InTime, Approving, RsErrors, LiveApproveCurrent
<1>3. QED
  BY RsInitInv, <1>1, <1>2, PTL DEF RsSpec
-----------------------------------------------------------------------------
(* StakerSchedule.                                                         *)

SkEvents == {"add", "adding", "withdraw"}

SkTyped ==
    /\ receiptC \in Seq(Receipts) /\ history \in Seq(SkEvents)
    /\ srgtC \in {<<>>, <<TRUE>>, <<FALSE>>}
    /\ eventC \in {<<>>, <<"add">>, <<"withdraw">>}

\* loopOpenReceipt reports one receipt, and only then is there a
\* loopWithdraw.
OneReport ==
    /\ op # "done" => srgtC = <<>> /\ wd = "none"
    /\ srgtC # <<>> => wd = "none"

\* The request to add is made once.
AddOnce ==
    /\ \A i, j \in Index("add") : i = j
    /\ eventC = <<"add">> => Index("add") = {}
    /\ op \in {"sub", "list", "found", "trigger"} =>
          Index("add") = {} /\ eventC # <<"add">>

\* A staker that was reported as added has no live request to be added.
AddedCancels == Index("adding") # {} => addCtx = "canceled"

\* The request to withdraw is made once, after that report.
WithdrawLast ==
    /\ wd # "none" => Index("adding") # {}
    /\ wd # "done" => Index("withdraw") = {} /\ eventC # <<"withdraw">>
    /\ eventC = <<"withdraw">> => Index("withdraw") = {}
    /\ \A i, j \in Index("withdraw") : i = j
    /\ \A i \in Index("withdraw") : \E j \in Index("adding") : j < i

\* loopOpenReceipt reports at most two errors and loopWithdraw one.
SkErrors ==
    errorC <= (CASE op \in {"sub", "list", "found"} -> 0
                 [] op \in {"trigger", "wait", "added"} -> 1
                 [] OTHER -> 2)
              + (IF wd = "done" THEN 1 ELSE 0)

SkInv ==
    /\ SkTypeOK /\ SkTyped /\ OneReport /\ AddOnce /\ AddedCancels
    /\ WithdrawLast /\ SkErrors


\* The state of a subscription.
SubRecs == [st : {"none", "asked", "on", "off"}, queue : 0 .. SkStreamCap,
            err : {"empty", "nil", "full"}]

LEMMA SubsTyped ==
  ASSUME NEW s \in SubRecs
  PROVE  Told(s) \in SubRecs /\ SubEnded(s) \in SubRecs
<1>1. SkStreamCap \in Nat
  BY StakerAssumption
<1>2. s.queue < SkStreamCap => [s EXCEPT !.queue = @ + 1] \in SubRecs
  BY <1>1 DEF SubRecs
<1>3. [s EXCEPT !.st = "off", !.err = "full"] \in SubRecs
  BY DEF SubRecs
<1>4. SubEnded(s) \in SubRecs
  BY DEF SubRecs, SubEnded
<1>5. QED
  BY <1>2, <1>3, <1>4 DEF Told

\* What the scheduler needs of the staker's state object.
StakerTyped == StakerTypeOK /\ receiptC \in Seq(Receipts)

LEMMA StakerSteps ==
  ASSUME StakerTyped, StakerNext
  PROVE  StakerTyped'
<1>1. /\ sctx \in {"open", "closed"} /\ sloop \in {"run", "dead"} /\ known \subseteq Receipts
      /\ ssub \in [Clients -> SubRecs] /\ receiptC \in Seq(Receipts)
  BY DEF StakerTyped, StakerTypeOK, SubRecs
<1>2. /\ [c \in Clients |-> Told(ssub[c])] \in [Clients -> SubRecs]
      /\ [c \in Clients |-> SubEnded(ssub[c])] \in [Clients -> SubRecs]
  BY <1>1, SubsTyped
<1>3. SUFFICES /\ sctx' \in {"open", "closed"} /\ sloop' \in {"run", "dead"}
               /\ known' \subseteq Receipts
               /\ ssub' \in [Clients -> SubRecs] /\ receiptC' \in Seq(Receipts)
  BY DEF StakerTyped, StakerTypeOK, SubRecs
<1>4. CASE \E b \in BOOLEAN : StakerUpdate(b)
  BY <1>1, <1>4 DEF StakerUpdate
<1>5. CASE \E r \in Receipts : StakerUpdateReceipt(r)
  <2>1. PICK r \in Receipts : StakerUpdateReceipt(r)
    BY <1>5
  <2>2. Append(receiptC, r) \in Seq(Receipts)
    BY <1>1, AppendProperties
  <2>3. QED
    BY <1>1, <2>1, <2>2 DEF StakerUpdateReceipt
<1>6. CASE StakerClose
  BY <1>1, <1>6 DEF StakerClose
<1>7. CASE StakerFinish
  BY <1>1, <1>2, <1>7 DEF StakerFinish
<1>8. CASE StakerOnManager
  BY <1>1, <1>2, <1>8 DEF StakerOnManager
<1>9. CASE StakerOnReceipt
  <2>1. Tail(receiptC) \in Seq(Receipts) /\ Head(receiptC) \in Receipts
    BY <1>1, <1>9, HeadTailProperties DEF StakerOnReceipt
  <2>2. QED
    BY <1>1, <1>2, <1>9, <2>1 DEF StakerOnReceipt
<1>10. CASE \E c \in Clients : StakerReceive(c)
  <2>1. PICK c \in Clients : StakerReceive(c)
    BY <1>10
  <2>2. [ssub EXCEPT ![c].st = "on"] \in [Clients -> SubRecs]
    BY <1>1 DEF SubRecs
  <2>3. QED
    BY <1>1, <2>1, <2>2 DEF StakerReceive
<1>11. QED
  BY <1>4, <1>5, <1>6, <1>7, <1>8, <1>9, <1>10 DEF StakerNext

\* The types of the scheduler's own state.
SchedTyped ==
    /\ ctx \in {"open", "closed"} /\ loop \in {"run", "dead"}
    /\ op \in {"sub", "list", "found", "trigger", "wait", "added", "done"}
    /\ wd \in {"none", "sub", "wait", "trigger", "done"}
    /\ srgtC \in {<<>>, <<TRUE>>, <<FALSE>>}
    /\ eventC \in {<<>>, <<"add">>, <<"withdraw">>}
    /\ errorC \in 0 .. 5

LEMMA SkParts ==
  SkInv <=> /\ StakerTyped /\ SchedTyped /\ history \in Seq(SkEvents)
            /\ OneReport /\ AddOnce /\ AddedCancels /\ WithdrawLast /\ SkErrors
<1>1. srgtC \in {<<>>, <<TRUE>>, <<FALSE>>} => Len(srgtC) <= 1
  <2>1. Len(<<>>) <= 1 /\ Len(<<TRUE>>) <= 1 /\ Len(<<FALSE>>) <= 1
    OBVIOUS
  <2>2. QED
    BY <2>1, Zenon
<1>2. eventC \in {<<>>, <<"add">>, <<"withdraw">>} => Len(eventC) <= 1
  OBVIOUS
<1>3. QED
  BY <1>1, <1>2, Zenon DEF SkInv, SkTypeOK, SkTyped, StakerTyped, SchedTyped

LEMMA SkInitInv == SkInit => SkInv
<1> SUFFICES ASSUME SkInit PROVE SkInv
  OBVIOUS
<1>1. StakerTyped
  <2>1. NoSub \in [st : {"none", "asked", "on", "off"}, queue : 0 .. SkStreamCap,
                   err : {"empty", "nil", "full"}]
    BY StakerAssumption DEF NoSub
  <2>2. QED
    BY <2>1 DEF SkInit, StakerInit, StakerTyped, StakerTypeOK
<1>2. /\ SchedTyped /\ history \in Seq(SkEvents)
  BY DEF SkInit, SchedTyped
<1>3. Index("add") = {} /\ Index("adding") = {} /\ Index("withdraw") = {}
  <2>1. DOMAIN history = {}
    BY DEF SkInit
  <2>2. QED
    BY <2>1 DEF Index
<1>4. AddedCancels /\ AddOnce
  BY <1>3 DEF SkInit, AddedCancels, AddOnce
<1>5. OneReport /\ SkErrors
  BY DEF SkInit, OneReport, SkErrors
<1>6. WithdrawLast
  BY <1>3 DEF SkInit, WithdrawLast
<1>7. QED
  BY <1>1, <1>2, <1>4, <1>5, <1>6, SkParts

LEMMA SkStaker ==
  ASSUME SkInv, StakerNext, UNCHANGED schedVars
  PROVE  SkInv'
<1>1. StakerTyped'
  BY StakerSteps, SkParts
<1>2. /\ SchedTyped /\ history \in Seq(SkEvents)
      /\ OneReport /\ AddOnce /\ AddedCancels /\ WithdrawLast /\ SkErrors
  BY SkParts
<1>3. (SchedTyped /\ history \in Seq(SkEvents))'
  BY <1>2 DEF schedVars, SchedTyped
<1>4. (OneReport /\ SkErrors)'
  BY <1>2 DEF schedVars, OneReport, SkErrors
<1>5. (AddOnce /\ AddedCancels /\ WithdrawLast)'
  BY <1>2 DEF schedVars, AddOnce, AddedCancels, WithdrawLast, Index
<1>6. QED
  BY <1>1, <1>3, <1>4, <1>5, SkParts, PTL

\* The steps of the goroutines and the ends of the contexts: nothing is
\* broadcast.
LEMMA SkQuiet ==
  ASSUME SkInv, \/ SkClose \/ PeriodFinish \/ OpenSubscribe \/ OpenList \/ OpenReport
                \/ OpenTrigger \/ OpenWait \/ WithdrawSubscribe \/ WithdrawWait
                \/ WithdrawTrigger \/ SkFinish
  PROVE  SkInv'
<1>1. /\ StakerTyped /\ SchedTyped /\ history \in Seq(SkEvents)
      /\ OneReport /\ AddOnce /\ AddedCancels /\ WithdrawLast /\ SkErrors
  BY SkParts
<1>2. /\ history' = history /\ addCtx' = addCtx
      /\ UNCHANGED <<sctx, sloop, known, receiptC>>
  BY DEF SkClose, PeriodFinish, OpenSubscribe, OpenList, OpenReport, OpenTrigger, OpenWait,
         WithdrawSubscribe, WithdrawWait, WithdrawTrigger, SkFinish, stakerVars
<1>3. /\ Index("add")' = Index("add") /\ Index("adding")' = Index("adding")
      /\ Index("withdraw")' = Index("withdraw")
  BY <1>2 DEF Index
<1>4. (history \in Seq(SkEvents) /\ AddedCancels)'
  BY <1>1, <1>2, <1>3 DEF AddedCancels
<1>5. StakerTyped'
  <2>1. ssub \in [Clients -> SubRecs] /\ SkStreamCap \in Nat
        /\ "open" \in Clients /\ "withdraw" \in Clients
    BY <1>1, StakerAssumption DEF StakerTyped, StakerTypeOK, SubRecs
  <2>2. \/ ssub' = ssub
        \/ \E c \in Clients : ssub' = [ssub EXCEPT ![c].st = "asked"]
        \/ \E c \in Clients : ssub[c].queue > 0 /\ ssub' = [ssub EXCEPT ![c].queue = @ - 1]
    BY <2>1 DEF SkClose, PeriodFinish, OpenSubscribe, OpenList, OpenReport, OpenTrigger,
                OpenWait, WithdrawSubscribe, WithdrawWait, WithdrawTrigger, SkFinish, stakerVars
  <2>3. ssub' \in [Clients -> SubRecs]
    <3>1. ASSUME NEW c \in Clients PROVE [ssub EXCEPT ![c].st = "asked"] \in [Clients -> SubRecs]
      BY <2>1 DEF SubRecs
    <3>2. ASSUME NEW c \in Clients, ssub[c].queue > 0
          PROVE  [ssub EXCEPT ![c].queue = @ - 1] \in [Clients -> SubRecs]
      <4>1. ssub[c].queue \in 0 .. SkStreamCap
        BY <2>1 DEF SubRecs
      <4>2. ssub[c].queue - 1 \in 0 .. SkStreamCap
        BY <2>1, <3>2, <4>1
      <4>3. QED
        BY <2>1, <4>2 DEF SubRecs
    <3>3. QED
      BY <2>1, <2>2, <3>1, <3>2
  <2>4. QED
    BY <1>1, <1>2, <2>3 DEF StakerTyped, StakerTypeOK, SubRecs
<1>6. CASE SkClose \/ PeriodFinish \/ SkFinish
  <2>1. UNCHANGED <<op, wd, srgtC, eventC, errorC>> /\ ctx' \in {"open", "closed"}
        /\ loop' \in {"run", "dead"}
    BY <1>1, <1>6 DEF SkClose, PeriodFinish, SkFinish, SchedTyped
  <2>2. (SchedTyped /\ OneReport /\ SkErrors)'
    BY <1>1, <2>1 DEF SchedTyped, OneReport, SkErrors
  <2>3. (AddOnce /\ WithdrawLast)'
    BY <1>1, <1>3, <2>1 DEF AddOnce, WithdrawLast
  <2>4. QED
    BY <1>4, <1>5, <2>2, <2>3, SkParts, PTL
<1>7. CASE OpenSubscribe \/ OpenList \/ OpenWait
  <2>1. /\ UNCHANGED <<ctx, loop, wd, srgtC, eventC>>
        /\ \/ op' = op /\ errorC' = errorC
           \/ op = "sub" /\ op' = "list" /\ errorC' = errorC
           \/ op = "list" /\ op' \in {"found", "trigger"} /\ errorC' = errorC
           \/ op = "list" /\ op' = "trigger" /\ errorC' = errorC + 1
           \/ op = "wait" /\ op' \in {"added", "done"} /\ errorC' = errorC
           \/ op = "wait" /\ op' = "done" /\ errorC' = errorC + 1
    BY <1>7 DEF OpenSubscribe, OpenList, OpenWait
  <2>2. (SkErrors /\ errorC \in 0 .. 5)'
    BY <1>1, <2>1 DEF SchedTyped, SkErrors
  <2>3. SchedTyped'
    BY <1>1, <2>1, <2>2 DEF SchedTyped
  <2>4. OneReport'
    BY <1>1, <2>1 DEF OneReport
  <2>5. (AddOnce /\ WithdrawLast)'
    BY <1>1, <1>3, <2>1 DEF AddOnce, WithdrawLast
  <2>6. QED
    BY <1>4, <1>5, <2>2, <2>3, <2>4, <2>5, SkParts, PTL
<1>8. CASE OpenReport
  <2>1. /\ UNCHANGED <<ctx, loop, wd, eventC, errorC>>
        /\ op \in {"found", "added"} /\ op' = "done"
        /\ srgtC' \in {<<>>, <<TRUE>>, <<FALSE>>}
    BY <1>1, <1>8 DEF OpenReport, SchedTyped
  <2>2. SchedTyped'
    BY <1>1, <2>1 DEF SchedTyped
  <2>3. SkErrors'
    BY <1>1, <2>1 DEF SkErrors, SchedTyped
  <2>4. OneReport'
    BY <1>1, <2>1 DEF OneReport
  <2>5. (AddOnce /\ WithdrawLast)'
    BY <1>1, <1>3, <2>1 DEF AddOnce, WithdrawLast
  <2>6. QED
    BY <1>4, <1>5, <2>2, <2>3, <2>4, <2>5, SkParts, PTL
<1>9. CASE OpenTrigger
  <2>1. /\ UNCHANGED <<ctx, loop, wd, srgtC, errorC>> /\ op = "trigger" /\ op' \in {"wait", "done"}
        /\ \/ eventC' = eventC \/ eventC' = <<"add">>
        /\ eventC' # eventC => op' = "wait"
    BY <1>9 DEF OpenTrigger
  <2>2. SchedTyped'
    BY <1>1, <2>1 DEF SchedTyped
  <2>3. SkErrors'
    BY <1>1, <2>1 DEF SkErrors, SchedTyped
  <2>4. OneReport'
    BY <1>1, <2>1 DEF OneReport
  <2>5. <<"add">> # <<"withdraw">>
    OBVIOUS
  <2>6. (AddOnce /\ WithdrawLast)'
    BY <1>1, <1>3, <2>1, <2>5 DEF AddOnce, WithdrawLast
  <2>7. QED
    BY <1>4, <1>5, <2>2, <2>3, <2>4, <2>6, SkParts, PTL
<1>10. CASE WithdrawSubscribe \/ WithdrawWait
  <2>1. /\ UNCHANGED <<ctx, loop, op, srgtC, eventC>>
        /\ \/ wd' = wd /\ errorC' = errorC
           \/ wd \in {"sub", "wait"} /\ wd' \in {"wait", "trigger", "done"} /\ errorC' = errorC
           \/ wd = "wait" /\ wd' = "done" /\ errorC' = errorC + 1
    BY <1>10 DEF WithdrawSubscribe, WithdrawWait
  <2>2. (SkErrors /\ errorC \in 0 .. 5)'
    BY <1>1, <2>1 DEF SchedTyped, SkErrors
  <2>3. SchedTyped'
    BY <1>1, <2>1, <2>2 DEF SchedTyped
  <2>4. OneReport'
    BY <1>1, <2>1 DEF OneReport
  <2>5. (AddOnce /\ WithdrawLast)'
    BY <1>1, <1>3, <2>1 DEF AddOnce, WithdrawLast
  <2>6. QED
    BY <1>4, <1>5, <2>2, <2>3, <2>4, <2>5, SkParts, PTL
<1>11. CASE WithdrawTrigger
  <2>1. /\ UNCHANGED <<ctx, loop, op, srgtC, errorC>> /\ wd = "trigger" /\ wd' = "done"
        /\ \/ eventC' = eventC
           \/ eventC = <<>> /\ eventC' = <<"withdraw">>
    BY <1>11 DEF WithdrawTrigger
  <2>2. SchedTyped'
    BY <1>1, <2>1 DEF SchedTyped
  <2>3. SkErrors'
    BY <1>1, <2>1 DEF SkErrors, SchedTyped
  <2>4. OneReport'
    BY <1>1, <2>1 DEF OneReport
  <2>5. <<"add">> # <<"withdraw">>
    OBVIOUS
  <2>6. (AddOnce /\ WithdrawLast)'
    BY <1>1, <1>3, <2>1, <2>5 DEF AddOnce, WithdrawLast
  <2>7. QED
    BY <1>4, <1>5, <2>2, <2>3, <2>4, <2>6, SkParts, PTL
<1>12. QED
  BY <1>6, <1>7, <1>8, <1>9, <1>10, <1>11

\* The places of an event when one is appended.
LEMMA HistoryGrows ==
  ASSUME history \in Seq(SkEvents), NEW x \in SkEvents, history' = Append(history, x)
  PROVE  /\ history' \in Seq(SkEvents) /\ Len(history) \in Nat
         /\ \A e : Index(e) \subseteq 1 .. Len(history)
         /\ \A e \in SkEvents : e # x => Index(e)' = Index(e)
         /\ Index(x)' = Index(x) \cup {Len(history) + 1}
<1>1. /\ history' \in Seq(SkEvents) /\ Len(history) \in Nat /\ Len(history') = Len(history) + 1
      /\ \A i \in 1 .. Len(history) : history'[i] = history[i]
      /\ history'[Len(history) + 1] = x
  BY AppendProperties, LenProperties
<1>2. DOMAIN history = 1 .. Len(history) /\ DOMAIN history' = 1 .. (Len(history) + 1)
  BY <1>1, LenProperties
<1>3. \A i : i \in DOMAIN history' <=> i \in DOMAIN history \/ i = Len(history) + 1
  BY <1>1, <1>2
<1>4. \A e : Index(e) \subseteq 1 .. Len(history)
  BY <1>2 DEF Index
<1>5. ASSUME NEW e \in SkEvents, e # x PROVE Index(e)' = Index(e)
  BY <1>1, <1>2, <1>3, <1>5 DEF Index
<1>6. Index(x)' = Index(x) \cup {Len(history) + 1}
  BY <1>1, <1>2, <1>3 DEF Index
<1>7. QED
  BY <1>1, <1>4, <1>5, <1>6

LEMMA SkEvent == ASSUME SkInv, on_event PROVE SkInv'
<1>1. /\ StakerTyped /\ SchedTyped /\ history \in Seq(SkEvents)
      /\ OneReport /\ AddOnce /\ AddedCancels /\ WithdrawLast /\ SkErrors
  BY SkParts
<1>a. PICK x : x = Head(eventC)
  OBVIOUS
<1>2. /\ x \in {"add", "withdraw"} /\ eventC = <<x>> /\ eventC' = <<>>
      /\ history' = Append(history, x)
      /\ UNCHANGED <<stakerVars, ctx, loop, op, wd, addCtx, srgtC, errorC>>
  BY <1>a, <1>1 DEF on_event, SchedTyped
<1>3. /\ "add" \in SkEvents /\ "adding" \in SkEvents /\ "withdraw" \in SkEvents /\ x \in SkEvents
  BY <1>2 DEF SkEvents
<1>4. /\ history' \in Seq(SkEvents) /\ Len(history) \in Nat
      /\ \A e : Index(e) \subseteq 1 .. Len(history)
      /\ \A e \in SkEvents : e # x => Index(e)' = Index(e)
      /\ Index(x)' = Index(x) \cup {Len(history) + 1}
  BY <1>1, <1>2, <1>3, HistoryGrows
<1>5. Index("adding")' = Index("adding")
  BY <1>2, <1>3, <1>4
<1>6. (history \in Seq(SkEvents) /\ AddedCancels)'
  BY <1>1, <1>2, <1>4, <1>5 DEF AddedCancels
<1>7. (StakerTyped /\ SchedTyped)'
  <2>1. StakerTyped'
    BY <1>1, <1>2 DEF StakerTyped, StakerTypeOK, stakerVars
  <2>2. SchedTyped'
    BY <1>1, <1>2 DEF SchedTyped
  <2>3. QED
    BY <2>1, <2>2
<1>8. (OneReport /\ SkErrors)'
  BY <1>1, <1>2 DEF OneReport, SkErrors
<1>9. <<"add">> # <<"withdraw">> /\ <<>> # <<"add">> /\ <<>> # <<"withdraw">>
  OBVIOUS
<1>10. CASE x = "add"
  <2>1. Index("withdraw")' = Index("withdraw") /\ Index("add")' = {Len(history) + 1}
    <3>1. Index("add") = {}
      BY <1>1, <1>2, <1>10 DEF AddOnce
    <3>2. QED
      BY <1>3, <1>4, <1>10, <3>1
  <2>2. (AddOnce /\ WithdrawLast)'
    BY <1>1, <1>2, <1>5, <1>9, <1>10, <2>1 DEF AddOnce, WithdrawLast
  <2>3. QED
    BY <1>6, <1>7, <1>8, <2>2, SkParts, PTL
<1>11. CASE x = "withdraw"
  <2>1. wd = "done" /\ Index("withdraw") = {} /\ Index("adding") # {}
    BY <1>1, <1>2, <1>11 DEF WithdrawLast
  <2>2. Index("add")' = Index("add") /\ Index("withdraw")' = {Len(history) + 1}
    BY <1>3, <1>4, <1>11, <2>1
  <2>3. AddOnce'
    BY <1>1, <1>2, <1>9, <1>11, <2>2 DEF AddOnce
  <2>4. PICK j : j \in Index("adding") /\ j < Len(history) + 1
    <3>1. PICK j : j \in Index("adding")
      BY <2>1
    <3>2. j \in 1 .. Len(history)
      BY <1>4, <3>1
    <3>3. QED
      BY <1>4, <3>1, <3>2
  <2>5. WithdrawLast'
    BY <1>2, <1>5, <1>9, <2>1, <2>2, <2>4 DEF WithdrawLast
  <2>6. QED
    BY <1>6, <1>7, <1>8, <2>3, <2>5, SkParts, PTL
<1>12. QED
  BY <1>2, <1>10, <1>11

LEMMA SkAdded == ASSUME SkInv, on_staker_receipt PROVE SkInv'
<1>1. /\ StakerTyped /\ SchedTyped /\ history \in Seq(SkEvents)
      /\ OneReport /\ AddOnce /\ AddedCancels /\ WithdrawLast /\ SkErrors
  BY SkParts
<1>2. /\ srgtC # <<>> /\ srgtC' = <<>> /\ history' = Append(history, "adding")
      /\ addCtx' = "canceled" /\ wd' = "sub"
      /\ UNCHANGED <<stakerVars, ctx, loop, op, eventC, errorC>>
  BY DEF on_staker_receipt
<1>3. wd = "none" /\ op = "done"
  BY <1>1, <1>2 DEF OneReport
<1>4. /\ history' \in Seq(SkEvents) /\ Len(history) \in Nat
      /\ Index("add")' = Index("add") /\ Index("withdraw")' = Index("withdraw")
      /\ Index("adding")' = Index("adding") \cup {Len(history) + 1}
  BY <1>1, <1>2, HistoryGrows DEF SkEvents
<1>5. (history \in Seq(SkEvents) /\ AddedCancels)'
  BY <1>2, <1>4 DEF AddedCancels
<1>6. (StakerTyped /\ SchedTyped)'
  <2>1. StakerTyped'
    BY <1>1, <1>2 DEF StakerTyped, StakerTypeOK, stakerVars
  <2>2. SchedTyped'
    BY <1>1, <1>2 DEF SchedTyped
  <2>3. QED
    BY <2>1, <2>2
<1>7. (OneReport /\ SkErrors)'
  BY <1>1, <1>2, <1>3 DEF OneReport, SkErrors
<1>8. AddOnce'
  BY <1>1, <1>2, <1>4 DEF AddOnce
<1>9. WithdrawLast'
  BY <1>1, <1>2, <1>3, <1>4 DEF WithdrawLast
<1>10. QED
  BY <1>5, <1>6, <1>7, <1>8, <1>9, SkParts, PTL

\* The staker scheduler keeps its invariant.
THEOREM SkInvariance == SkSpec => []SkInv
<1>1. ASSUME SkInv, SkNext PROVE SkInv'
  BY <1>1, SkStaker, SkQuiet, SkEvent, SkAdded DEF SkNext
<1>2. ASSUME SkInv, UNCHANGED skVars PROVE SkInv'
  <2>1. UNCHANGED stakerVars /\ UNCHANGED schedVars
    BY <1>2 DEF skVars
  <2>2. SkTypeOK /\ SkTyped /\ OneReport /\ AddOnce /\ AddedCancels /\ WithdrawLast /\ SkErrors
    BY <1>2 DEF SkInv
  <2>3. (SkTypeOK /\ SkTyped)'
    BY <2>1, <2>2 DEF stakerVars, schedVars, SkTypeOK, StakerTypeOK, SkTyped
  <2>4. (OneReport /\ SkErrors)'
    BY <2>1, <2>2 DEF schedVars, OneReport, SkErrors
  <2>5. (AddOnce /\ AddedCancels /\ WithdrawLast)'
    BY <2>1, <2>2 DEF schedVars, AddOnce, AddedCancels, WithdrawLast, Index
  <2>6. QED
    BY <2>3, <2>4, <2>5 DEF SkInv
<1>3. QED
  BY SkInitInv, <1>1, <1>2, PTL DEF SkSpec

\* A set with at most one element.
LEMMA AtMostOne ==
  ASSUME NEW S, \A i, j \in S : i = j
  PROVE  Cardinality(S) <= 1
<1>1. CASE S = {}
  BY <1>1, FS_EmptySet
<1>2. CASE S # {}
  <2>1. PICK i : i \in S
    BY <1>2
  <2>2. S = {i}
    BY <2>1
  <2>3. Cardinality({i}) = 1
    BY FS_Singleton, Zenon
  <2>4. QED
    BY <2>2, <2>3
<1>3. QED
  BY <1>1, <1>2

\* What the staker and the receipt schedulers ask for is current: a request
\* to add a staker that was already added is broadcast only under a canceled
\* context (srgtC and eventC have no order between them), a withdrawal is
\* asked for once and after the staker was added, and no live request asks
\* the validator to approve a count that was approved or overtaken.
THEOREM RequestsAreCurrent == SkSpec /\ RsSpec => []RequestsCurrent
<1>1. ASSUME SkInv, RsInv PROVE RequestsCurrent
  <2>1. SkTypeOK /\ AddOnce /\ AddedCancels /\ WithdrawLast
    BY <1>1 DEF SkInv
  <2>2. Cardinality(Index("add")) <= 1 /\ Cardinality(Index("withdraw")) <= 1
    BY <2>1, AtMostOne DEF AddOnce, WithdrawLast
  <2>3. AddRequestCanceled
    BY <2>1, <2>2 DEF AddedCancels, AddRequestCanceled
  <2>4. WithdrawAfterAdd
    BY <2>1, <2>2 DEF WithdrawLast, WithdrawAfterAdd
  <2>5. QED
    BY <1>1, <2>1, <2>3, <2>4 DEF RsInv, RequestsCurrent
<1>2. QED
  BY <1>1, SkInvariance, RsInvariance, PTL
-----------------------------------------------------------------------------
(* ScriptWrapper.                                                          *)

Keys == {"payer", "admin", "bidder", "cranker", "bidlist", "payout",
         "mint", "authority", "refunds", "periods", "pipeline", "stake", "vote",
         "receipt"}
Ops == {"create_account", "token_account", "close_bids", "insert_bid", "crank",
        "close_payout", "append_period", "claim_refund", "transfer", "create",
        "initialize_mint", "mint_to", "add_pipeline", "update_pipeline",
        "add_staker", "add_staker_to_receipt", "add_validator",
        "validator_set_payout", "validator_withdraw_receipt"}
Instr == [op : Ops, sign : SUBSET Keys]
Scripts == [open : BOOLEAN, tx : Seq(Instr), keys : SUBSET Keys]

\* The keys of an open script are those its instructions name, but for K.
Fits(s, K) == s \in Scripts /\ s.open /\ s.keys \subseteq Signers(s) \cup K

WTyped ==
    /\ wctx \in {"open", "done"} /\ wloop \in {"run", "dead"}
    /\ tctx \in [Senders -> {"open", "done"}]
    /\ prog \in [Senders -> Seq(BuilderNames)]
    /\ snd \in [Senders -> {"new", "put", "wait", "delay", "ret", "end"}]
    /\ tries \in [Senders -> 0 .. MaxTries]
    /\ result \in [Senders -> {"none", "ok", "err"}]
    /\ resC \in [Senders -> {<<>>, <<"ok">>, <<"err">>}]
    /\ queue \in Seq(Senders) /\ Len(queue) <= WQueueCap
    /\ cur \in Senders \cup {Idle} /\ step \in Nat
    /\ scr \in Scripts /\ wire \in Scripts
    /\ confirmed \in [Senders -> Nat]
    /\ signal \in Nat

\* A closure is queued once, and not while it runs; it finds errorC empty.
OneClosure ==
    /\ NoneTwice(queue)
    /\ cur # Idle => ~Within(cur, queue) /\ resC[cur] = <<>>

\* The closure of a sender is in one place: in internalC, being run, or its
\* result is in errorC; and in none of them while Send is elsewhere.
ClosureOf(s) ==
    /\ resC[s] # <<>> => ~Within(s, queue)
    /\ snd[s] \in {"new", "put", "delay"} =>
          ~Within(s, queue) /\ cur # s /\ resC[s] = <<>>

\* An attempt that succeeded is the last one: its result waits for Send or
\* Send has returned.
Succeeded(s) ==
    /\ confirmed[s] <= 1
    /\ confirmed[s] = 1 =>
          /\ cur # s /\ ~Within(s, queue) /\ snd[s] \in {"wait", "ret", "end"}
          /\ snd[s] = "wait" => resC[s] = <<"ok">>
    /\ resC[s] = <<"ok">> => confirmed[s] = 1
    /\ result[s] = "ok" => confirmed[s] = 1 /\ snd[s] \in {"ret", "end"}

\* What Send has in hand when it waits or has returned.
Reported(s) ==
    /\ snd[s] \in {"new", "put", "wait", "delay"} => tries[s] < MaxTries
    /\ snd[s] = "delay" => result[s] = "err"
    /\ snd[s] \in {"ret", "end"} =>
          /\ result[s] = "none" => tctx[s] = "done" \/ prog[s] = <<>>
          /\ result[s] = "err" =>
                \/ wctx = "done" \/ tctx[s] = "done"
                \/ /\ confirmed[s] = 0 /\ cur # s /\ ~Within(s, queue)

Tracked(s) == ClosureOf(s) /\ Succeeded(s) /\ Reported(s)

\* The script under construction belongs to the attempt that is running.
OwnScript ==
    /\ cur # Idle => scrCtx = cur
    /\ cur # Idle /\ step = 0 => ~scr.open
    /\ cur # Idle /\ step \in 1 .. Len(prog[cur]) + 1 => Fits(scr, {})

\* An error is passed on for a sender that has ended.
Returned == {s \in Senders : snd[s] = "end"}
Counted == signal <= Cardinality(Returned)

WInv ==
    /\ WTyped /\ OneClosure /\ (\A s \in Senders : Tracked(s))
    /\ OwnScript /\ FreshBuilder /\ Counted

\* The outcomes of a builder: one that is not an error leaves a script that
\* fits.
Good(O) == \A o \in O : o.s \in Scripts /\ (o.ok => Fits(o.s, {}))

LEMMA FitsMore ==
  ASSUME NEW s, NEW K, NEW L, K \subseteq L, Fits(s, K)
  PROVE  Fits(s, L) /\ ~Blank(s) /\ s \in Scripts
BY DEF Fits, Blank

LEMMA AppendKeysFits ==
  ASSUME NEW s, NEW K, NEW L \in SUBSET Keys, Fits(s, K)
  PROVE  Fits(AppendKeys(s, L), K \cup L)
<1>1. PICK t : t = AppendKeys(s, L)
  OBVIOUS
<1>2. s \in Scripts /\ s.open /\ s.keys \subseteq Signers(s) \cup K
  BY DEF Fits
<1>3. t \in Scripts /\ t.open /\ t.tx = s.tx /\ t.keys = s.keys \cup L
  BY <1>1, <1>2 DEF AppendKeys, Scripts
<1>4. Signers(t) = Signers(s)
  BY <1>3 DEF Signers
<1>5. Fits(t, K \cup L)
  BY <1>2, <1>3, <1>4 DEF Fits
<1>6. QED
  BY <1>1, <1>5

\* An instruction accounts for the keys of those who sign it.
LEMMA AppendInstructionFits ==
  ASSUME NEW s, NEW K, NEW M \in SUBSET Keys, NEW x \in Ops, Fits(s, K)
  PROVE  \A o \in AppendInstruction(s, x, M) : o.ok /\ Fits(o.s, K \ M)
<1>1. s \in Scripts /\ s.open /\ s.keys \subseteq Signers(s) \cup K /\ s.tx \in Seq(Instr)
  BY DEF Fits, Scripts
<1>2. PICK u : u = [op |-> x, sign |-> M]
  OBVIOUS
<1>3. PICK t : t = [s EXCEPT !.tx = Append(@, u)]
  OBVIOUS
<1>4. AppendInstruction(s, x, M) = {Ok(t)}
  BY <1>1, <1>2, <1>3 DEF AppendInstruction, Blank
<1>5. u \in Instr /\ u.sign = M
  BY <1>2 DEF Instr
<1>6. PICK q : q = Append(s.tx, u)
  OBVIOUS
<1>7. /\ q \in Seq(Instr) /\ Len(q) = Len(s.tx) + 1 /\ Len(s.tx) \in Nat
      /\ \A i \in 1 .. Len(s.tx) : q[i] = s.tx[i]
      /\ q[Len(s.tx) + 1] = u
  BY <1>1, <1>5, <1>6, AppendProperties, LenProperties
<1>8. t \in Scripts /\ t.open /\ t.tx = q /\ t.keys = s.keys
  BY <1>1, <1>3, <1>6, <1>7 DEF Scripts
<1>9. Signers(s) \cup M \subseteq Signers(t)
  <2>1. DOMAIN s.tx = 1 .. Len(s.tx) /\ DOMAIN q = 1 .. (Len(s.tx) + 1)
    BY <1>1, <1>7, LenProperties
  <2>2. \A i \in DOMAIN s.tx : i \in DOMAIN q /\ q[i].sign = s.tx[i].sign
    BY <1>7, <2>1
  <2>3. Len(s.tx) + 1 \in DOMAIN q /\ q[Len(s.tx) + 1].sign = M
    BY <1>5, <1>7, <2>1
  <2>4. Signers(s) \subseteq Signers(t)
    BY <1>8, <2>2 DEF Signers
  <2>5. M \subseteq Signers(t)
    BY <1>8, <2>3 DEF Signers
  <2>6. QED
    BY <2>4, <2>5
<1>10. Fits(t, K \ M)
  BY <1>1, <1>8, <1>9 DEF Fits
<1>11. QED
  BY <1>4, <1>10 DEF Ok

LEMMA BuildsFit ==
  ASSUME NEW s, NEW K, NEW M \in SUBSET Keys, NEW x \in Ops, Fits(s, K)
  PROVE  \A o \in Builds(s, x, M) : o.ok /\ Fits(o.s, K \ M)
<1>1. PICK t : t = AppendKeys(s, M)
  OBVIOUS
<1>2. Fits(t, K \cup M)
  BY <1>1, AppendKeysFits
<1>3. Builds(s, x, M) = AppendInstruction(t, x, M)
  BY <1>1, FitsMore DEF Builds
<1>4. \A o \in AppendInstruction(t, x, M) : o.ok /\ Fits(o.s, (K \cup M) \ M)
  BY <1>2, AppendInstructionFits
<1>5. ASSUME NEW z, Fits(z, (K \cup M) \ M) PROVE Fits(z, K \ M)
  BY <1>5 DEF Fits
<1>6. QED
  BY <1>3, <1>4, <1>5

LEMMA ReadsFit ==
  ASSUME NEW s, NEW p \in Reads(s)
  PROVE  p.s = s
BY DEF Reads, Ok, Fail

LEMMA ReadsAndBuildsFit ==
  ASSUME NEW s, NEW M \in SUBSET Keys, NEW x \in Ops, Fits(s, {})
  PROVE  Good(ReadsAndBuilds(s, x, M))
<1> SUFFICES ASSUME NEW o \in ReadsAndBuilds(s, x, M)
             PROVE  o.s \in Scripts /\ (o.ok => Fits(o.s, {}))
  BY DEF Good
<1>1. ~Blank(s) /\ s \in Scripts
  BY FitsMore
<1>2. PICK p \in Reads(s) : o \in (IF p.ok THEN Builds(p.s, x, M) ELSE {p})
  BY <1>1 DEF ReadsAndBuilds, Then
<1>3. \A z \in Builds(s, x, M) : z.ok /\ Fits(z.s, {} \ M)
  BY BuildsFit
<1>4. QED
  BY <1>1, <1>2, <1>3, ReadsFit, FitsMore

LEMMA TokenAccountFits ==
  ASSUME NEW s, NEW K, NEW a \in Keys, Fits(s, K)
  PROVE  \A o \in token_account(s, a) : o.ok /\ Fits(o.s, K)
<1>1. {a} \in SUBSET Keys /\ "token_account" \in Ops
  BY DEF Ops
<1>2. \A o \in Builds(s, "token_account", {a}) : o.ok /\ Fits(o.s, K \ {a})
  BY <1>1, BuildsFit
<1>3. \A o \in CreateTokenAccount(s, a) : o.ok /\ Fits(o.s, K)
  BY <1>2 DEF CreateTokenAccount, Fits
<1>4. QED
  BY <1>3 DEF token_account, Ok

LEMMA CreateAccountFits ==
  ASSUME NEW s, NEW a \in Keys, NEW b \in Keys, Fits(s, {})
  PROVE  Good(CreateAccount(s, a, b))
<1>1. {a, b} \in SUBSET Keys /\ "create_account" \in Ops
  BY DEF Ops
<1>2. QED
  BY <1>1, ReadsAndBuildsFit DEF CreateAccount

LEMMA BidFits == ASSUME NEW s, Fits(s, {}) PROVE Good(Bid(s))
<1> SUFFICES ASSUME NEW o \in Bid(s) PROVE o.s \in Scripts /\ (o.ok => Fits(o.s, {}))
  BY DEF Good
<1>1. ~Blank(s) /\ s \in Scripts /\ {"bidder"} \in SUBSET Keys /\ "insert_bid" \in Ops
  BY FitsMore DEF Keys, Ops
<1>2. PICK p \in Reads(s) :
        o \in (IF p.ok
               THEN {Fail(AppendKeys(p.s, {"bidder"}))} \cup Builds(p.s, "insert_bid", {"bidder"})
               ELSE {p})
  BY <1>1 DEF Bid, Then
<1>3. \A z \in Builds(s, "insert_bid", {"bidder"}) : z.ok /\ Fits(z.s, {} \ {"bidder"})
  BY <1>1, BuildsFit
<1>4. \A z \in Builds(s, "insert_bid", {"bidder"}) : z.s \in Scripts /\ Fits(z.s, {})
  BY <1>3 DEF Fits
<1>5. Fits(AppendKeys(s, {"bidder"}), {} \cup {"bidder"})
  BY <1>1, AppendKeysFits
<1>6. AppendKeys(s, {"bidder"}) \in Scripts
  BY <1>5 DEF Fits
<1>7. QED
  BY <1>1, <1>2, <1>4, <1>6, ReadsFit DEF Fail

LEMMA CrankFits == ASSUME NEW s, Fits(s, {}) PROVE Good(Crank(s))
<1> SUFFICES ASSUME NEW o \in Crank(s) PROVE o.s \in Scripts /\ (o.ok => Fits(o.s, {}))
  BY DEF Good
<1>1. /\ ~Blank(s) /\ s \in Scripts /\ {"cranker"} \in SUBSET Keys /\ "cranker" \in Keys
      /\ "crank" \in Ops
  BY FitsMore DEF Keys, Ops
<1>2. PICK t : t = AppendKeys(s, {"cranker"})
  OBVIOUS
<1>3. Fits(t, {"cranker"})
  <2>1. Fits(t, {} \cup {"cranker"})
    BY <1>1, <1>2, AppendKeysFits
  <2>2. QED
    BY <2>1 DEF Fits
<1>4. PICK p \in Reads(s) :
        o \in (IF p.ok
               THEN Then(token_account(AppendKeys(p.s, {"cranker"}), "cranker"), LAMBDA u :
                        {Fail(u)} \cup Builds(u, "crank", {"cranker"}))
               ELSE {p})
  BY <1>1 DEF Crank, Then
<1>5. CASE ~p.ok
  BY <1>1, <1>4, <1>5, ReadsFit
<1>6. CASE p.ok
  <2>1. o \in Then(token_account(t, "cranker"), LAMBDA u :
                    {Fail(u)} \cup Builds(u, "crank", {"cranker"}))
    BY <1>2, <1>4, <1>6, ReadsFit
  <2>2. PICK q \in token_account(t, "cranker") :
          o \in (IF q.ok THEN {Fail(q.s)} \cup Builds(q.s, "crank", {"cranker"}) ELSE {q})
    BY <2>1 DEF Then
  <2>3. q.ok /\ Fits(q.s, {"cranker"})
    BY <1>1, <1>3, <2>2, TokenAccountFits
  <2>4. \A z \in Builds(q.s, "crank", {"cranker"}) : z.ok /\ Fits(z.s, {"cranker"} \ {"cranker"})
    BY <1>1, <2>3, BuildsFit
  <2>5. \A z \in Builds(q.s, "crank", {"cranker"}) : Fits(z.s, {}) /\ z.s \in Scripts
    BY <2>4 DEF Fits
  <2>6. q.s \in Scripts
    BY <2>3 DEF Fits
  <2>7. QED
    BY <2>2, <2>3, <2>5, <2>6 DEF Fail
<1>7. QED
  BY <1>5, <1>6

LEMMA AppendPeriodFits == ASSUME NEW s, Fits(s, {}) PROVE Good(AppendPeriod(s))
<1> SUFFICES ASSUME NEW o \in AppendPeriod(s) PROVE o.s \in Scripts /\ (o.ok => Fits(o.s, {}))
  BY DEF Good
<1>1. /\ ~Blank(s) /\ s \in Scripts /\ {"payout"} \in SUBSET Keys /\ {"admin", "payout"} \in SUBSET Keys
      /\ "admin" \in Keys /\ "bidlist" \in Keys /\ "append_period" \in Ops
  BY FitsMore DEF Keys, Ops
<1>2. PICK p \in Reads(s) :
        o \in (IF p.ok
               THEN Then(CreateAccount(p.s, "admin", "bidlist"), LAMBDA u :
                        AppendInstruction(AppendKeys(u, {"payout"}), "append_period",
                                          {"admin", "payout"}))
               ELSE {p})
  BY <1>1 DEF AppendPeriod, Then
<1>3. CASE ~p.ok
  BY <1>1, <1>2, <1>3, ReadsFit
<1>4. CASE p.ok
  <2>1. o \in Then(CreateAccount(s, "admin", "bidlist"), LAMBDA u :
                    AppendInstruction(AppendKeys(u, {"payout"}), "append_period",
                                      {"admin", "payout"}))
    BY <1>2, <1>4, ReadsFit
  <2>2. PICK q \in CreateAccount(s, "admin", "bidlist") :
          o \in (IF q.ok
                 THEN AppendInstruction(AppendKeys(q.s, {"payout"}), "append_period",
                                        {"admin", "payout"})
                 ELSE {q})
    BY <2>1 DEF Then
  <2>3. q.s \in Scripts /\ (q.ok => Fits(q.s, {}))
    BY <1>1, <2>2, CreateAccountFits DEF Good
  <2>4. CASE ~q.ok
    BY <2>2, <2>3, <2>4
  <2>5. CASE q.ok
    <3>1. PICK t : t = AppendKeys(q.s, {"payout"})
      OBVIOUS
    <3>2. Fits(t, {} \cup {"payout"})
      BY <1>1, <2>3, <2>5, <3>1, AppendKeysFits
    <3>3. \A z \in AppendInstruction(t, "append_period", {"admin", "payout"}) :
            z.ok /\ Fits(z.s, ({} \cup {"payout"}) \ {"admin", "payout"})
      BY <1>1, <3>2, AppendInstructionFits
    <3>4. Fits(o.s, ({} \cup {"payout"}) \ {"admin", "payout"})
      BY <2>2, <2>5, <3>1, <3>3
    <3>5. QED
      BY <3>4 DEF Fits
  <2>6. QED
    BY <2>4, <2>5
<1>5. QED
  BY <1>3, <1>4

\* A builder that asks for the payer's token account and then adds its
\* instruction, for which no key is appended.
LEMMA WithTokenAccountFits ==
  ASSUME NEW s, NEW x \in Ops, Fits(s, {}),
         NEW o \in Then(token_account(s, "payer"), LAMBDA u : Builds(u, x, {}))
  PROVE  o.s \in Scripts /\ Fits(o.s, {})
<1>1. "payer" \in Keys /\ {} \in SUBSET Keys
  BY DEF Keys
<1>2. PICK q \in token_account(s, "payer") : o \in (IF q.ok THEN Builds(q.s, x, {}) ELSE {q})
  BY DEF Then
<1>3. q.ok /\ Fits(q.s, {})
  BY <1>1, <1>2, TokenAccountFits
<1>4. \A z \in Builds(q.s, x, {}) : z.ok /\ Fits(z.s, {} \ {})
  BY <1>1, <1>3, BuildsFit
<1>5. Fits(o.s, {} \ {})
  BY <1>2, <1>3, <1>4
<1>6. QED
  BY <1>5 DEF Fits

LEMMA ClaimRefundFits == ASSUME NEW s, Fits(s, {}) PROVE Good(ClaimRefund(s))
<1> SUFFICES ASSUME NEW o \in ClaimRefund(s) PROVE o.s \in Scripts /\ (o.ok => Fits(o.s, {}))
  BY DEF Good
<1>1. ~Blank(s) /\ s \in Scripts /\ "claim_refund" \in Ops
  BY FitsMore DEF Ops
<1>2. PICK p \in Reads(s) :
        o \in (IF p.ok
               THEN Then(token_account(p.s, "payer"), LAMBDA u : Builds(u, "claim_refund", {}))
               ELSE {p})
  BY <1>1 DEF ClaimRefund, Then
<1>3. CASE ~p.ok
  BY <1>1, <1>2, <1>3, ReadsFit
<1>4. CASE p.ok
  <2>1. o \in Then(token_account(s, "payer"), LAMBDA u : Builds(u, "claim_refund", {}))
    BY <1>2, <1>4, ReadsFit
  <2>2. QED
    BY <1>1, <2>1, WithTokenAccountFits
<1>5. QED
  BY <1>3, <1>4

LEMMA WithdrawReceiptFits == ASSUME NEW s, Fits(s, {}) PROVE Good(ValidatorWithdrawReceipt(s))
<1> SUFFICES ASSUME NEW o \in ValidatorWithdrawReceipt(s)
             PROVE  o.s \in Scripts /\ (o.ok => Fits(o.s, {}))
  BY DEF Good
<1>1. ~Blank(s) /\ s \in Scripts /\ "validator_withdraw_receipt" \in Ops
  BY FitsMore DEF Ops
<1>2. PICK p \in Reads(s) :
        o \in (IF p.ok
               THEN Then(token_account(p.s, "payer"), LAMBDA u :
                        Builds(u, "validator_withdraw_receipt", {}))
               ELSE {p})
  BY <1>1 DEF ValidatorWithdrawReceipt, Then
<1>3. CASE ~p.ok
  BY <1>1, <1>2, <1>3, ReadsFit
<1>4. CASE p.ok
  <2>1. o \in Then(token_account(s, "payer"), LAMBDA u :
                    Builds(u, "validator_withdraw_receipt", {}))
    BY <1>2, <1>4, ReadsFit
  <2>2. QED
    BY <1>1, <2>1, WithTokenAccountFits
<1>5. QED
  BY <1>3, <1>4

LEMMA MultipleClaimRefundFits == ASSUME NEW s, Fits(s, {}) PROVE Good(MultipleClaimRefund(s))
<1> SUFFICES ASSUME NEW o \in MultipleClaimRefund(s)
             PROVE  o.s \in Scripts /\ (o.ok => Fits(o.s, {}))
  BY DEF Good
<1>1. s \in Scripts
  BY FitsMore
<1>2. PICK p \in Reads(s) :
        o \in (IF p.ok THEN Then(ClaimRefund(p.s), LAMBDA u : ClaimRefund(u)) ELSE {p})
  BY DEF MultipleClaimRefund, Then
<1>3. CASE ~p.ok
  BY <1>1, <1>2, <1>3, ReadsFit
<1>4. CASE p.ok
  <2>1. o \in Then(ClaimRefund(s), LAMBDA u : ClaimRefund(u))
    BY <1>2, <1>4, ReadsFit
  <2>2. PICK q \in ClaimRefund(s) : o \in (IF q.ok THEN ClaimRefund(q.s) ELSE {q})
    BY <2>1 DEF Then
  <2>3. q.s \in Scripts /\ (q.ok => Fits(q.s, {}))
    BY <2>2, ClaimRefundFits DEF Good
  <2>4. q.ok => Good(ClaimRefund(q.s))
    BY <2>3, ClaimRefundFits
  <2>5. QED
    BY <2>2, <2>3, <2>4 DEF Good
<1>5. QED
  BY <1>3, <1>4

LEMMA CreateMintFits == ASSUME NEW s, Fits(s, {}) PROVE Good(CreateMint(s))
<1> SUFFICES ASSUME NEW o \in CreateMint(s) PROVE o.s \in Scripts /\ (o.ok => Fits(o.s, {}))
  BY DEF Good
<1>1. /\ ~Blank(s) /\ {"mint"} \in SUBSET Keys /\ {"payer", "mint"} \in SUBSET Keys
      /\ {} \in SUBSET Keys /\ "create_account" \in Ops /\ "initialize_mint" \in Ops
  BY FitsMore DEF Keys, Ops
<1>2. PICK t : t = AppendKeys(s, {"mint"})
  OBVIOUS
<1>3. Fits(t, {} \cup {"mint"})
  BY <1>1, <1>2, AppendKeysFits
<1>4. PICK p \in Reads(t) :
        o \in (IF p.ok
               THEN Then(AppendInstruction(p.s, "create_account", {"payer", "mint"}), LAMBDA u :
                        AppendInstruction(u, "initialize_mint", {}))
               ELSE {p})
  BY <1>1, <1>2 DEF CreateMint, Then
<1>5. CASE ~p.ok
  <2>1. o.s = t /\ ~o.ok
    BY <1>4, <1>5, ReadsFit
  <2>2. QED
    BY <1>3, <2>1 DEF Fits
<1>6. CASE p.ok
  <2>1. o \in Then(AppendInstruction(t, "create_account", {"payer", "mint"}), LAMBDA u :
                    AppendInstruction(u, "initialize_mint", {}))
    BY <1>4, <1>6, ReadsFit
  <2>2. PICK q \in AppendInstruction(t, "create_account", {"payer", "mint"}) :
          o \in (IF q.ok THEN AppendInstruction(q.s, "initialize_mint", {}) ELSE {q})
    BY <2>1 DEF Then
  <2>3. q.ok /\ Fits(q.s, ({} \cup {"mint"}) \ {"payer", "mint"})
    BY <1>1, <1>3, <2>2, AppendInstructionFits
  <2>4. Fits(q.s, {})
    BY <2>3 DEF Fits
  <2>5. \A z \in AppendInstruction(q.s, "initialize_mint", {}) : z.ok /\ Fits(z.s, {} \ {})
    BY <1>1, <2>4, AppendInstructionFits
  <2>6. Fits(o.s, {} \ {})
    BY <2>2, <2>3, <2>5
  <2>7. QED
    BY <2>6 DEF Fits
<1>7. QED
  BY <1>5, <1>6

LEMMA AddPipelineFits == ASSUME NEW s, Fits(s, {}) PROVE Good(AddPipeline(s))
<1> SUFFICES ASSUME NEW o \in AddPipeline(s) PROVE o.s \in Scripts /\ (o.ok => Fits(o.s, {}))
  BY DEF Good
<1>1. /\ ~Blank(s) /\ s \in Scripts /\ {"pipeline", "admin"} \in SUBSET Keys /\ "admin" \in Keys
      /\ "refunds" \in Keys /\ "periods" \in Keys /\ "add_pipeline" \in Ops
  BY FitsMore DEF Keys, Ops
<1>2. PICK p \in Reads(s) :
        o \in (IF p.ok
               THEN Then(CreateAccount(p.s, "admin", "refunds"), LAMBDA u :
                        Then(CreateAccount(u, "admin", "periods"), LAMBDA v :
                            Builds(v, "add_pipeline", {"pipeline", "admin"})))
               ELSE {p})
  BY <1>1 DEF AddPipeline, Then
<1>3. CASE ~p.ok
  BY <1>1, <1>2, <1>3, ReadsFit
<1>4. CASE p.ok
  <2>1. o \in Then(CreateAccount(s, "admin", "refunds"), LAMBDA u :
                    Then(CreateAccount(u, "admin", "periods"), LAMBDA v :
                        Builds(v, "add_pipeline", {"pipeline", "admin"})))
    BY <1>2, <1>4, ReadsFit
  <2>2. PICK q \in CreateAccount(s, "admin", "refunds") :
          o \in (IF q.ok
                 THEN Then(CreateAccount(q.s, "admin", "periods"), LAMBDA v :
                          Builds(v, "add_pipeline", {"pipeline", "admin"}))
                 ELSE {q})
    BY <2>1 DEF Then
  <2>3. q.s \in Scripts /\ (q.ok => Fits(q.s, {}))
    BY <1>1, <2>2, CreateAccountFits DEF Good
  <2>4. CASE ~q.ok
    BY <2>2, <2>3, <2>4
  <2>5. CASE q.ok
    <3>1. o \in Then(CreateAccount(q.s, "admin", "periods"), LAMBDA v :
                      Builds(v, "add_pipeline", {"pipeline", "admin"}))
      BY <2>2, <2>5
    <3>2. PICK r \in CreateAccount(q.s, "admin", "periods") :
            o \in (IF r.ok THEN Builds(r.s, "add_pipeline", {"pipeline", "admin"}) ELSE {r})
      BY <3>1 DEF Then
    <3>3. r.s \in Scripts /\ (r.ok => Fits(r.s, {}))
      BY <1>1, <2>3, <2>5, <3>2, CreateAccountFits DEF Good
    <3>4. r.ok => \A z \in Builds(r.s, "add_pipeline", {"pipeline", "admin"}) :
                    z.ok /\ Fits(z.s, {} \ {"pipeline", "admin"})
      BY <1>1, <3>3, BuildsFit
    <3>5. \/ o.s \in Scripts /\ ~o.ok
          \/ Fits(o.s, {} \ {"pipeline", "admin"})
      BY <3>2, <3>3, <3>4
    <3>6. QED
      BY <3>5 DEF Fits
  <2>6. QED
    BY <2>4, <2>5
<1>5. QED
  BY <1>3, <1>4

LEMMA AddValidatorFits == ASSUME NEW s, Fits(s, {}) PROVE Good(AddValidator(s))
<1> SUFFICES ASSUME NEW o \in AddValidator(s) PROVE o.s \in Scripts /\ (o.ok => Fits(o.s, {}))
  BY DEF Good
<1>1. ~Blank(s) /\ {"vote", "admin"} \in SUBSET Keys /\ "add_validator" \in Ops
  BY FitsMore DEF Keys, Ops
<1>2. PICK t : t = AppendKeys(s, {"vote", "admin"})
  OBVIOUS
<1>3. Fits(t, {} \cup {"vote", "admin"})
  BY <1>1, <1>2, AppendKeysFits
<1>4. PICK p \in Reads(t) :
        o \in (IF p.ok THEN AppendInstruction(p.s, "add_validator", {"vote", "admin"}) ELSE {p})
  BY <1>1, <1>2 DEF AddValidator, Then
<1>5. \A z \in AppendInstruction(t, "add_validator", {"vote", "admin"}) :
        z.ok /\ Fits(z.s, ({} \cup {"vote", "admin"}) \ {"vote", "admin"})
  BY <1>1, <1>3, AppendInstructionFits
<1>6. \/ o.s = t /\ ~o.ok
      \/ Fits(o.s, ({} \cup {"vote", "admin"}) \ {"vote", "admin"})
  BY <1>4, <1>5, ReadsFit
<1>7. QED
  BY <1>3, <1>6 DEF Fits

LEMMA SimpleFits ==
  ASSUME NEW s, NEW x \in Ops, NEW M \in SUBSET Keys, Fits(s, {})
  PROVE  Good(Builds(s, x, M))
<1>1. \A z \in Builds(s, x, M) : z.ok /\ Fits(z.s, {} \ M)
  BY BuildsFit
<1>2. QED
  BY <1>1 DEF Good, Fits

\* Every builder leaves a script whose keys are those of its signers.
LEMMA BuildFits ==
  ASSUME NEW b \in BuilderNames, NEW s, Fits(s, {})
  PROVE  Good(Build(b, s))
<1>1. /\ {"admin"} \in SUBSET Keys /\ {"payer"} \in SUBSET Keys
      /\ {"admin", "cranker"} \in SUBSET Keys /\ {"authority"} \in SUBSET Keys
      /\ {"stake", "admin"} \in SUBSET Keys /\ {"receipt", "admin"} \in SUBSET Keys
  BY DEF Keys
<1>2. /\ "close_bids" \in Ops /\ "close_payout" \in Ops /\ "transfer" \in Ops /\ "create" \in Ops
      /\ "mint_to" \in Ops /\ "update_pipeline" \in Ops /\ "add_staker" \in Ops
      /\ "add_staker_to_receipt" \in Ops /\ "validator_set_payout" \in Ops
  BY DEF Ops
<1>3. Good(CloseBids(s)) /\ Good(ClosePayout(s)) /\ Good(CreateController(s))
  BY <1>1, <1>2, ReadsAndBuildsFit DEF CloseBids, ClosePayout, CreateController
<1>4. Good(MintIssue(s)) /\ Good(AddStaker(s)) /\ Good(AddStakerToReceipt(s))
  BY <1>1, <1>2, ReadsAndBuildsFit DEF MintIssue, AddStaker, AddStakerToReceipt
<1>5. Good(ValidatorSetPipeline(s)) /\ Good(Transfer(s)) /\ Good(UpdatePipeline(s))
  BY <1>1, <1>2, ReadsAndBuildsFit, SimpleFits DEF ValidatorSetPipeline, Transfer, UpdatePipeline
<1>6. Good(Bid(s)) /\ Good(Crank(s)) /\ Good(AppendPeriod(s)) /\ Good(MultipleClaimRefund(s))
  BY BidFits, CrankFits, AppendPeriodFits, MultipleClaimRefundFits
<1>7. Good(CreateMint(s)) /\ Good(AddPipeline(s)) /\ Good(AddValidator(s))
      /\ Good(ValidatorWithdrawReceipt(s))
  BY CreateMintFits, AddPipelineFits, AddValidatorFits, WithdrawReceiptFits
<1>8. QED
  BY <1>3, <1>4, <1>5, <1>6, <1>7 DEF BuilderNames, Build

-----------------------------------------------------------------------------
LEMMA SenderNotIdle == ASSUME NEW s \in Senders PROVE s # Idle
BY ScriptWrapperAssumption

LEMMA ReturnedFinite ==
  /\ IsFiniteSet(Returned) /\ Cardinality(Returned) \in Nat
  /\ Cardinality(Returned) <= Cardinality(Senders)
<1>1. Returned \in SUBSET Senders /\ IsFiniteSet(Senders)
  BY ScriptWrapperAssumption DEF Returned
<1>2. IsFiniteSet(Returned) /\ Cardinality(Returned) <= Cardinality(Senders)
  BY <1>1, FS_Subset
<1>3. QED
  BY <1>2, FS_CardinalityType

\* A step that leaves a sender alone.  A context that is done stays so.
LEMMA Untouched ==
  ASSUME NEW t \in Senders, Tracked(t),
         resC'[t] = resC[t], snd'[t] = snd[t], confirmed'[t] = confirmed[t],
         result'[t] = result[t], tries'[t] = tries[t], prog'[t] = prog[t],
         tctx[t] = "done" => tctx'[t] = "done", wctx = "done" => wctx' = "done",
         Within(t, queue') => Within(t, queue), cur' = t => cur = t
  PROVE  Tracked(t)'
<1>1. ClosureOf(t)'
  BY DEF Tracked, ClosureOf
<1>2. Succeeded(t)'
  BY DEF Tracked, Succeeded
<1>3. Reported(t)'
  BY DEF Tracked, Reported
<1>4. QED
  BY <1>1, <1>2, <1>3 DEF Tracked

\* A step that leaves the script and the running callback alone.
LEMMA ScriptKept ==
  ASSUME OwnScript, FreshBuilder, UNCHANGED <<cur, step, scr, scrCtx, staleTx, wire, prog>>
  PROVE  OwnScript' /\ FreshBuilder'
<1>1. OwnScript'
  BY DEF OwnScript, Fits, Signers
<1>2. FreshBuilder'
  BY DEF FreshBuilder, Signers
<1>3. QED
  BY <1>1, <1>2

LEMMA WInitInv == WInit => WInv
<1> SUFFICES ASSUME WInit PROVE WInv
  OBVIOUS
<1>1. prog \in [Senders -> Seq(BuilderNames)] /\ MaxTries \in Nat \ {0} /\ WQueueCap \in Nat
  BY ScriptWrapperAssumption DEF WInit
<1>2. NewScript \in Scripts /\ NewScript.open = FALSE
  BY DEF NewScript, Scripts
<1>3. 0 \in 0 .. MaxTries /\ <<>> \in Seq(Senders) /\ Len(<<>>) = 0
  BY <1>1
<1>4. WTyped
  <2>1. snd \in [Senders -> {"new", "put", "wait", "delay", "ret", "end"}]
    BY DEF WInit
  <2>2. tries \in [Senders -> 0 .. MaxTries] /\ Len(queue) <= WQueueCap /\ queue \in Seq(Senders)
    BY <1>1, <1>3 DEF WInit
  <2>3. QED
    BY <1>1, <1>2, <2>1, <2>2 DEF WInit, WTyped
<1>5. OneClosure /\ OwnScript /\ \A s : ~Within(s, queue)
  BY DEF WInit, OneClosure, OwnScript, NoneTwice, Within
<1>6. ASSUME NEW s \in Senders PROVE Tracked(s)
  <2>1. /\ cur # s /\ ~Within(s, queue) /\ resC[s] = <<>> /\ confirmed[s] = 0 /\ tries[s] = 0
        /\ result[s] = "none" /\ snd[s] = IF prog[s] = <<>> THEN "end" ELSE "new"
    BY <1>5, <1>6, SenderNotIdle DEF WInit
  <2>2. <<>> # <<"ok">> /\ 0 < MaxTries
    BY <1>1
  <2>3. QED
    BY <2>1, <2>2 DEF Tracked, ClosureOf, Succeeded, Reported
<1>7. FreshBuilder
  BY <1>2 DEF WInit, FreshBuilder
<1>8. Counted
  BY ReturnedFinite DEF WInit, Counted
<1>9. QED
  BY <1>4, <1>5, <1>6, <1>7, <1>8 DEF WInv

\* The contexts end.
LEMMA WContexts ==
  ASSUME WInv, WrapperDone \/ \E s \in Senders : TaskDone(s)
  PROVE  WInv'
<1>1. /\ WTyped /\ OneClosure /\ (\A s \in Senders : Tracked(s))
      /\ OwnScript /\ FreshBuilder /\ Counted
  BY DEF WInv
<1>2. /\ UNCHANGED <<wloop, prog, snd, tries, result, resC, queue, cur, step, scr, scrCtx,
                     staleTx, wire, confirmed, signal>>
      /\ wctx' \in {"open", "done"} /\ tctx' \in [Senders -> {"open", "done"}]
      /\ wctx = "done" => wctx' = "done"
      /\ \A t \in Senders : tctx[t] = "done" => tctx'[t] = "done"
  BY <1>1 DEF WrapperDone, TaskDone, WTyped
<1>3. WTyped' /\ OneClosure'
  BY <1>1, <1>2 DEF WTyped, OneClosure
<1>4. ASSUME NEW t \in Senders PROVE Tracked(t)'
  BY <1>1, <1>2, Untouched
<1>5. OwnScript' /\ FreshBuilder'
  BY <1>1, <1>2, ScriptKept
<1>6. Counted'
  BY <1>1, <1>2 DEF Counted, Returned
<1>7. QED
  BY <1>3, <1>4, <1>5, <1>6 DEF WInv

\* A step of Send, but for SendPut and Relay: what it has to show.
LEMMA WSends ==
  ASSUME WInv, NEW s \in Senders, NEW x \in {"new", "put", "wait", "delay", "ret"},
         snd[s] \in {"new", "put", "wait", "delay"}, Moves(s, x),
         UNCHANGED <<wctx, wloop, tctx, prog, queue, cur, step, scr, scrCtx, staleTx, wire,
                     confirmed, signal>>,
         tries' \in [Senders -> 0 .. MaxTries],
         result' \in [Senders -> {"none", "ok", "err"}],
         resC' \in [Senders -> {<<>>, <<"ok">>, <<"err">>}],
         cur = s => resC'[s] = <<>>,
         \A t \in Senders : t # s => /\ tries'[t] = tries[t] /\ result'[t] = result[t]
                                     /\ resC'[t] = resC[t],
         Tracked(s)'
  PROVE  WInv'
<1>1. /\ WTyped /\ OneClosure /\ (\A t \in Senders : Tracked(t))
      /\ OwnScript /\ FreshBuilder /\ Counted
  BY DEF WInv
<1>2. /\ snd' \in [Senders -> {"new", "put", "wait", "delay", "ret", "end"}]
      /\ \A t \in Senders : snd'[t] = IF t = s THEN x ELSE snd[t]
  BY <1>1 DEF Moves, WTyped
<1>3. WTyped'
  BY <1>1, <1>2 DEF WTyped
<1>4. OneClosure'
  <2>1. cur # Idle => cur \in Senders
    BY <1>1 DEF WTyped
  <2>2. QED
    BY <1>1, <2>1 DEF OneClosure
<1>5. ASSUME NEW t \in Senders PROVE Tracked(t)'
  <2>1. CASE t = s
    BY <2>1
  <2>2. CASE t # s
    <3>1. snd'[t] = snd[t]
      BY <1>2, <2>2
    <3>2. QED
      BY <1>1, <2>2, <3>1, Untouched
  <2>3. QED
    BY <2>1, <2>2
<1>6. OwnScript' /\ FreshBuilder'
  BY <1>1, ScriptKept
<1>7. Returned' = Returned
  BY <1>2 DEF Returned
<1>8. Counted'
  BY <1>1, <1>7 DEF Counted
<1>9. QED
  BY <1>3, <1>4, <1>5, <1>6, <1>8 DEF WInv

\* What is known of a sender in a state of the invariant.
LEMMA SenderTyped ==
  ASSUME WInv, NEW s \in Senders
  PROVE  /\ WTyped /\ OneClosure /\ ClosureOf(s) /\ Succeeded(s) /\ Reported(s) /\ s # Idle
         /\ tries[s] \in 0 .. MaxTries /\ result[s] \in {"none", "ok", "err"}
         /\ resC[s] \in {<<>>, <<"ok">>, <<"err">>} /\ confirmed[s] \in Nat
         /\ snd \in [Senders -> {"new", "put", "wait", "delay", "ret", "end"}]
         /\ tries \in [Senders -> 0 .. MaxTries]
         /\ result \in [Senders -> {"none", "ok", "err"}]
         /\ resC \in [Senders -> {<<>>, <<"ok">>, <<"err">>}]
         /\ MaxTries \in Nat
<1>1. WTyped /\ OneClosure /\ Tracked(s) /\ s # Idle /\ MaxTries \in Nat
  BY SenderNotIdle, ScriptWrapperAssumption DEF WInv
<1>2. QED
  BY <1>1 DEF WTyped, Tracked

LEMMA WStart == ASSUME WInv, NEW s \in Senders, SendStart(s) PROVE WInv'
<1>1. /\ WTyped /\ OneClosure /\ ClosureOf(s) /\ Succeeded(s) /\ Reported(s)
      /\ snd \in [Senders -> {"new", "put", "wait", "delay", "ret", "end"}]
      /\ tries \in [Senders -> 0 .. MaxTries]
      /\ result \in [Senders -> {"none", "ok", "err"}]
      /\ resC \in [Senders -> {<<>>, <<"ok">>, <<"err">>}]
  BY SenderTyped
<1>2. /\ snd[s] = "new" /\ Moves(s, "put") /\ snd'[s] = "put"
      /\ UNCHANGED <<wctx, wloop, tctx, prog, tries, result, resC, queue, cur,
                     step, scr, scrCtx, staleTx, wire, confirmed, signal>>
  BY <1>1 DEF SendStart, Moves
<1>3. Tracked(s)'
  <2>1. ClosureOf(s)'
    BY <1>1, <1>2 DEF ClosureOf
  <2>2. Succeeded(s)'
    BY <1>1, <1>2 DEF Succeeded
  <2>3. Reported(s)'
    BY <1>1, <1>2 DEF Reported
  <2>4. QED
    BY <2>1, <2>2, <2>3 DEF Tracked
<1>4. cur = s => resC'[s] = <<>>
  BY <1>1, <1>2 DEF ClosureOf
<1>5. QED
  BY <1>1, <1>2, <1>3, <1>4, WSends

LEMMA WResult == ASSUME WInv, NEW s \in Senders, SendResult(s) PROVE WInv'
<1>1. /\ WTyped /\ OneClosure /\ ClosureOf(s) /\ Succeeded(s) /\ Reported(s) /\ s # Idle
      /\ snd \in [Senders -> {"new", "put", "wait", "delay", "ret", "end"}]
      /\ tries \in [Senders -> 0 .. MaxTries]
      /\ result \in [Senders -> {"none", "ok", "err"}]
      /\ resC \in [Senders -> {<<>>, <<"ok">>, <<"err">>}]
      /\ resC[s] \in {<<>>, <<"ok">>, <<"err">>} /\ confirmed[s] \in Nat
  BY SenderTyped
<1>a. PICK r : r = Head(resC[s])
  OBVIOUS
<1>2. /\ snd[s] = "wait" /\ resC[s] # <<>> /\ resC[s] = <<r>> /\ r \in {"ok", "err"}
  BY <1>a, <1>1 DEF SendResult
<1>b. PICK x : x = IF r = "ok" THEN "ret" ELSE "delay"
  OBVIOUS
<1>3. /\ Moves(s, x) /\ x \in {"ret", "delay"}
      /\ result' = [result EXCEPT ![s] = r] /\ resC' = [resC EXCEPT ![s] = <<>>]
      /\ UNCHANGED <<wctx, wloop, tctx, prog, tries, queue, cur, step, scr,
                     scrCtx, staleTx, wire, confirmed, signal>>
  BY <1>a, <1>b DEF SendResult
<1>4. /\ result' \in [Senders -> {"none", "ok", "err"}]
      /\ resC' \in [Senders -> {<<>>, <<"ok">>, <<"err">>}]
      /\ snd'[s] = x /\ result'[s] = r /\ resC'[s] = <<>>
      /\ \A t \in Senders : t # s => result'[t] = result[t] /\ resC'[t] = resC[t]
  BY <1>1, <1>2, <1>3 DEF Moves
<1>5. ~Within(s, queue) /\ cur # s
  BY <1>1, <1>2 DEF ClosureOf, OneClosure
<1>6. <<"ok">> # <<"err">> /\ <<>> # <<"ok">>
  OBVIOUS
<1>7. /\ confirmed[s] = 1 => r = "ok"
      /\ r = "ok" => confirmed[s] = 1
  BY <1>1, <1>2, <1>6 DEF Succeeded
<1>8. Tracked(s)'
  <2>1. ClosureOf(s)'
    BY <1>3, <1>4, <1>5 DEF ClosureOf
  <2>2. Succeeded(s)'
    BY <1>1, <1>b, <1>2, <1>3, <1>4, <1>5, <1>6, <1>7 DEF Succeeded
  <2>3. Reported(s)'
    BY <1>1, <1>b, <1>2, <1>3, <1>4, <1>5, <1>7 DEF Reported
  <2>4. QED
    BY <2>1, <2>2, <2>3 DEF Tracked
<1>9. QED
  BY <1>1, <1>2, <1>3, <1>4, <1>8, WSends

LEMMA WDelay == ASSUME WInv, NEW s \in Senders, SendDelay(s) PROVE WInv'
<1>1. /\ WTyped /\ OneClosure /\ ClosureOf(s) /\ Succeeded(s) /\ Reported(s)
      /\ snd \in [Senders -> {"new", "put", "wait", "delay", "ret", "end"}]
      /\ tries \in [Senders -> 0 .. MaxTries] /\ tries[s] \in 0 .. MaxTries
      /\ result \in [Senders -> {"none", "ok", "err"}]
      /\ resC \in [Senders -> {<<>>, <<"ok">>, <<"err">>}]
      /\ confirmed[s] \in Nat /\ MaxTries \in Nat
  BY SenderTyped
<1>a. PICK x : x = IF tries'[s] < MaxTries THEN "put" ELSE "ret"
  OBVIOUS
<1>2. /\ snd[s] = "delay" /\ Moves(s, x) /\ x \in {"put", "ret"}
      /\ tries' = [tries EXCEPT ![s] = tries[s] + 1]
      /\ UNCHANGED <<wctx, wloop, tctx, prog, result, resC, queue, cur, step,
                     scr, scrCtx, staleTx, wire, confirmed, signal>>
  BY <1>a DEF SendDelay
<1>3. tries[s] < MaxTries /\ result[s] = "err"
  BY <1>1, <1>2 DEF Reported
<1>4. tries[s] + 1 \in 0 .. MaxTries
  BY <1>1, <1>3
<1>5. /\ tries' \in [Senders -> 0 .. MaxTries] /\ tries'[s] = tries[s] + 1
      /\ \A t \in Senders : t # s => tries'[t] = tries[t]
      /\ snd'[s] = x
  BY <1>1, <1>2, <1>4 DEF Moves
<1>6. ~Within(s, queue) /\ cur # s /\ resC[s] = <<>> /\ confirmed[s] = 0
  BY <1>1, <1>2 DEF ClosureOf, Succeeded
<1>7. Tracked(s)'
  <2>1. ClosureOf(s)'
    BY <1>1, <1>2, <1>5, <1>6 DEF ClosureOf
  <2>2. Succeeded(s)'
    BY <1>1, <1>2, <1>3, <1>5, <1>6 DEF Succeeded
  <2>3. Reported(s)'
    BY <1>a, <1>2, <1>3, <1>5, <1>6 DEF Reported
  <2>4. QED
    BY <2>1, <2>2, <2>3 DEF Tracked
<1>8. QED
  BY <1>1, <1>2, <1>5, <1>6, <1>7, WSends

LEMMA WStops == ASSUME WInv, NEW s \in Senders, SendStops(s) PROVE WInv'
<1>1. /\ WTyped /\ OneClosure /\ ClosureOf(s) /\ Succeeded(s) /\ Reported(s) /\ s # Idle
      /\ snd \in [Senders -> {"new", "put", "wait", "delay", "ret", "end"}]
      /\ tries \in [Senders -> 0 .. MaxTries]
      /\ result \in [Senders -> {"none", "ok", "err"}]
      /\ resC \in [Senders -> {<<>>, <<"ok">>, <<"err">>}]
      /\ confirmed[s] \in Nat
  BY SenderTyped
<1>2. /\ snd[s] \in {"put", "wait", "delay"} /\ Moves(s, "ret") /\ snd'[s] = "ret"
      /\ UNCHANGED <<wctx, wloop, tctx, prog, tries, resC, queue, cur, step,
                     scr, scrCtx, staleTx, wire, confirmed, signal>>
  BY <1>1 DEF SendStops, Moves
<1>3. /\ result' \in [Senders -> {"none", "ok", "err"}]
      /\ \A t \in Senders : t # s => result'[t] = result[t]
      /\ \/ wctx = "done" /\ result'[s] = "err"
         \/ tctx[s] = "done" /\ result'[s] = result[s]
  BY <1>1 DEF SendStops
<1>4. result[s] # "ok"
  BY <1>1, <1>2 DEF Succeeded
<1>5. cur = s => resC'[s] = <<>>
  BY <1>1, <1>2 DEF OneClosure
<1>6. Tracked(s)'
  <2>1. ClosureOf(s)'
    BY <1>1, <1>2 DEF ClosureOf
  <2>2. Succeeded(s)'
    BY <1>1, <1>2, <1>3, <1>4 DEF Succeeded
  <2>3. Reported(s)'
    BY <1>2, <1>3, <1>4 DEF Reported
  <2>4. QED
    BY <2>1, <2>2, <2>3 DEF Tracked
<1>7. QED
  BY <1>1, <1>2, <1>3, <1>5, <1>6, WSends

LEMMA WPut == ASSUME WInv, NEW s \in Senders, SendPut(s) PROVE WInv'
<1>1. /\ WTyped /\ OneClosure /\ ClosureOf(s) /\ Succeeded(s) /\ Reported(s) /\ s # Idle
      /\ snd \in [Senders -> {"new", "put", "wait", "delay", "ret", "end"}]
      /\ confirmed[s] \in Nat
  BY SenderTyped
<1>2. (\A t \in Senders : Tracked(t)) /\ OwnScript /\ FreshBuilder /\ Counted
  BY DEF WInv
<1>3. /\ snd[s] = "put" /\ Len(queue) < WQueueCap /\ queue' = Append(queue, s)
      /\ Moves(s, "wait")
      /\ UNCHANGED <<wctx, wloop, tctx, prog, tries, result, resC, cur, step,
                     scr, scrCtx, staleTx, wire, confirmed, signal>>
  BY DEF SendPut
<1>4. queue \in Seq(Senders) /\ WQueueCap \in Nat
  BY <1>1, ScriptWrapperAssumption DEF WTyped
<1>5. ~Within(s, queue) /\ cur # s /\ resC[s] = <<>> /\ confirmed[s] # 1 /\ result[s] # "ok"
  BY <1>1, <1>3 DEF ClosureOf, Succeeded
<1>6. /\ queue' \in Seq(Senders) /\ Len(queue') <= WQueueCap
      /\ NoneTwice(queue')
      /\ \A t : Within(t, queue') <=> Within(t, queue) \/ t = s
  <2>1. queue' \in Seq(Senders) /\ Len(queue') = Len(queue) + 1 /\ Len(queue) \in Nat
    BY <1>3, <1>4, AppendTyped
  <2>2. NoneTwice(queue')
    BY <1>1, <1>3, <1>4, <1>5, NoneTwiceAppend DEF OneClosure
  <2>3. \A t : Within(t, queue') <=> Within(t, queue) \/ t = s
    BY <1>3, <1>4, WithinAppend
  <2>4. QED
    BY <1>3, <1>4, <2>1, <2>2, <2>3
<1>7. /\ snd' \in [Senders -> {"new", "put", "wait", "delay", "ret", "end"}]
      /\ \A t \in Senders : snd'[t] = IF t = s THEN "wait" ELSE snd[t]
  BY <1>1, <1>3 DEF Moves
<1>8. WTyped'
  BY <1>1, <1>3, <1>6, <1>7 DEF WTyped
<1>9. OneClosure'
  BY <1>1, <1>3, <1>5, <1>6 DEF OneClosure
<1>10. ASSUME NEW t \in Senders PROVE Tracked(t)'
  <2>1. CASE t = s
    <3>1. snd'[s] = "wait"
      BY <1>7
    <3>2. ClosureOf(s)'
      BY <1>3, <1>5, <3>1 DEF ClosureOf
    <3>3. Succeeded(s)'
      BY <1>1, <1>3, <1>5, <3>1 DEF Succeeded
    <3>4. Reported(s)'
      BY <1>1, <1>3, <3>1 DEF Reported
    <3>5. QED
      BY <2>1, <3>2, <3>3, <3>4 DEF Tracked
  <2>2. CASE t # s
    <3>1. snd'[t] = snd[t] /\ (Within(t, queue') => Within(t, queue))
      BY <1>6, <1>7, <2>2
    <3>2. QED
      BY <1>2, <1>3, <3>1, Untouched
  <2>3. QED
    BY <2>1, <2>2
<1>11. OwnScript' /\ FreshBuilder'
  BY <1>2, <1>3, ScriptKept
<1>12. Returned' = Returned
  BY <1>3, <1>7 DEF Returned
<1>13. Counted'
  BY <1>2, <1>3, <1>12 DEF Counted
<1>14. QED
  BY <1>8, <1>9, <1>10, <1>11, <1>13 DEF WInv

LEMMA WRelay == ASSUME WInv, NEW s \in Senders, Relay(s) PROVE WInv'
<1>1. /\ WTyped /\ OneClosure /\ ClosureOf(s) /\ Succeeded(s) /\ Reported(s)
      /\ snd \in [Senders -> {"new", "put", "wait", "delay", "ret", "end"}]
  BY SenderTyped
<1>2. (\A t \in Senders : Tracked(t)) /\ OwnScript /\ FreshBuilder /\ Counted /\ signal \in Nat
  BY DEF WInv, WTyped
<1>3. /\ snd[s] = "ret" /\ Moves(s, "end")
      /\ (signal' = signal \/ signal' = signal + 1)
      /\ UNCHANGED <<wctx, wloop, tctx, prog, tries, result, resC, queue, cur,
                     step, scr, scrCtx, staleTx, wire, confirmed>>
  BY DEF Relay
<1>4. /\ snd' \in [Senders -> {"new", "put", "wait", "delay", "ret", "end"}]
      /\ \A t \in Senders : snd'[t] = IF t = s THEN "end" ELSE snd[t]
  BY <1>1, <1>3 DEF Moves
<1>5. WTyped' /\ OneClosure'
  BY <1>1, <1>2, <1>3, <1>4 DEF WTyped, OneClosure
<1>6. ASSUME NEW t \in Senders PROVE Tracked(t)'
  <2>1. CASE t = s
    <3>1. snd'[s] = "end"
      BY <1>4
    <3>2. ClosureOf(s)'
      BY <1>1, <1>3, <3>1 DEF ClosureOf
    <3>3. Succeeded(s)'
      BY <1>1, <1>3, <3>1 DEF Succeeded
    <3>4. Reported(s)'
      BY <1>1, <1>3, <3>1 DEF Reported
    <3>5. QED
      BY <2>1, <3>2, <3>3, <3>4 DEF Tracked
  <2>2. CASE t # s
    <3>1. snd'[t] = snd[t]
      BY <1>4, <2>2
    <3>2. QED
      BY <1>2, <1>3, <3>1, Untouched
  <2>3. QED
    BY <2>1, <2>2
<1>7. OwnScript' /\ FreshBuilder'
  BY <1>2, <1>3, ScriptKept
<1>8. Counted'
  <2>1. Returned' = Returned \cup {s} /\ s \notin Returned
    BY <1>3, <1>4 DEF Returned
  <2>2. IsFiniteSet(Returned) /\ Cardinality(Returned) \in Nat
    BY ReturnedFinite
  <2>3. Cardinality(Returned \cup {s}) = Cardinality(Returned) + 1
    BY <2>1, <2>2, FS_AddElement
  <2>4. signal' <= Cardinality(Returned) + 1
    BY <1>2, <1>3, <2>2 DEF Counted
  <2>5. QED
    BY <2>1, <2>3, <2>4 DEF Counted
<1>9. QED
  BY <1>5, <1>6, <1>7, <1>8 DEF WInv

LEMMA WTake == ASSUME WInv, LoopTake PROVE WInv'
<1>1. /\ WTyped /\ OneClosure /\ (\A t \in Senders : Tracked(t))
      /\ OwnScript /\ FreshBuilder /\ Counted
  BY DEF WInv
<1>a. PICK s : s = Head(queue)
  OBVIOUS
<1>2. /\ cur = Idle /\ queue # <<>> /\ cur' = s /\ queue' = Tail(queue) /\ step' = 0
      /\ scr' = Cleared(scr) /\ scrCtx' = s
      /\ UNCHANGED <<wctx, wloop, tctx, prog, snd, tries, result, resC, staleTx,
                     wire, confirmed, signal>>
  BY <1>a DEF LoopTake, run
<1>3. queue \in Seq(Senders) /\ Len(queue) <= WQueueCap /\ WQueueCap \in Nat /\ scr \in Scripts
  BY <1>1, ScriptWrapperAssumption DEF WTyped
<1>4. /\ s \in Senders /\ queue' \in Seq(Senders) /\ Len(queue') <= WQueueCap
      /\ NoneTwice(queue') /\ ~Within(s, queue') /\ Within(s, queue)
      /\ \A t : Within(t, queue') => Within(t, queue)
  <2>1. /\ s \in Senders /\ queue' \in Seq(Senders) /\ Len(queue') = Len(queue) - 1
        /\ Len(queue) \in Nat
    BY <1>a, <1>2, <1>3, HeadTailProperties, LenProperties
  <2>2. NoneTwice(queue') /\ ~Within(s, queue')
    BY <1>1, <1>a, <1>2, <1>3, NoneTwiceTail DEF OneClosure
  <2>3. \A t : Within(t, queue) <=> t = s \/ Within(t, queue')
    BY <1>a, <1>2, <1>3, WithinHead
  <2>4. QED
    BY <1>3, <2>1, <2>2, <2>3
<1>5. s # Idle /\ Tracked(s) /\ resC[s] \in {<<>>, <<"ok">>, <<"err">>}
  BY <1>1, <1>4, SenderNotIdle DEF WTyped
<1>6. Cleared(scr) \in Scripts /\ ~Cleared(scr).open
  <2>1. <<>> \in Seq(Instr)
    OBVIOUS
  <2>3. PICK m : m = [scr EXCEPT !.open = FALSE]
    OBVIOUS
  <2>4. m \in Scripts /\ m.open = FALSE
    BY <1>3, <2>3 DEF Scripts
  <2>5. Cleared(scr) = [m EXCEPT !.tx = <<>>]
    BY <2>3 DEF Cleared
  <2>6. QED
    BY <2>1, <2>4, <2>5 DEF Scripts
<1>7. WTyped'
  BY <1>1, <1>2, <1>4, <1>6 DEF WTyped
<1>8. resC[s] = <<>> /\ confirmed[s] # 1 /\ snd[s] \notin {"new", "put", "delay"}
  BY <1>4, <1>5 DEF Tracked, ClosureOf, Succeeded
<1>9. OneClosure'
  BY <1>2, <1>4, <1>8 DEF OneClosure
<1>10. ASSUME NEW t \in Senders PROVE Tracked(t)'
  <2>1. CASE t = s
    <3>1. ClosureOf(s)'
      BY <1>2, <1>4, <1>8 DEF ClosureOf
    <3>2. Succeeded(s)'
      BY <1>2, <1>5, <1>8 DEF Tracked, Succeeded
    <3>3. Reported(s)'
      BY <1>2, <1>4, <1>5 DEF Tracked, Reported
    <3>4. QED
      BY <2>1, <3>1, <3>2, <3>3 DEF Tracked
  <2>2. CASE t # s
    BY <1>1, <1>2, <1>4, <2>2, Untouched
  <2>3. QED
    BY <2>1, <2>2
<1>11. OwnScript'
  BY <1>2, <1>6 DEF OwnScript
<1>12. FreshBuilder' /\ Counted'
  BY <1>1, <1>2 DEF FreshBuilder, Signers, Counted, Returned
<1>13. QED
  BY <1>7, <1>9, <1>10, <1>11, <1>12 DEF WInv

LEMMA WLoopEnds == ASSUME WInv, LoopEnds PROVE WInv'
<1>1. /\ WTyped /\ OneClosure /\ (\A t \in Senders : Tracked(t))
      /\ OwnScript /\ FreshBuilder /\ Counted
  BY DEF WInv
<1>2. /\ wloop' = "dead"
      /\ UNCHANGED <<wctx, tctx, prog, snd, tries, result, resC, queue, cur,
                     step, scr, scrCtx, staleTx, wire, confirmed, signal>>
  BY DEF LoopEnds
<1>3. WTyped' /\ OneClosure'
  BY <1>1, <1>2 DEF WTyped, OneClosure
<1>4. ASSUME NEW t \in Senders PROVE Tracked(t)'
  BY <1>1, <1>2, Untouched
<1>5. OwnScript' /\ FreshBuilder'
  BY <1>1, <1>2, ScriptKept
<1>6. Counted'
  BY <1>1, <1>2 DEF Counted, Returned
<1>7. QED
  BY <1>3, <1>4, <1>5, <1>6 DEF WInv

\* A callback returns: its sender learns the result, whatever the script is.
LEMMA WReturns ==
  ASSUME WInv, cur # Idle, NEW r \in {"ok", "err"}, Returns(r),
         UNCHANGED <<wctx, wloop, tctx, prog, snd, tries, result, queue, signal>>,
         scr' \in Scripts, wire' \in Scripts, FreshBuilder',
         confirmed' = IF r = "ok" THEN [confirmed EXCEPT ![cur] = @ + 1] ELSE confirmed
  PROVE  WInv'
<1>1. /\ WTyped /\ OneClosure /\ (\A t \in Senders : Tracked(t)) /\ Counted
  BY DEF WInv
<1>a. PICK s \in Senders : s = cur
  BY <1>1 DEF WTyped
<1>2. /\ resC \in [Senders -> {<<>>, <<"ok">>, <<"err">>}] /\ confirmed \in [Senders -> Nat]
      /\ snd[s] \in {"new", "put", "wait", "delay", "ret", "end"}
      /\ confirmed[s] \in Nat /\ s # Idle
  BY <1>1, SenderNotIdle DEF WTyped
<1>3. /\ resC' = [resC EXCEPT ![s] = <<r>>] /\ cur' = Idle /\ step' = 0
      /\ confirmed' = IF r = "ok" THEN [confirmed EXCEPT ![s] = confirmed[s] + 1] ELSE confirmed
  BY <1>a DEF Returns
<1>4. /\ resC' \in [Senders -> {<<>>, <<"ok">>, <<"err">>}] /\ resC'[s] = <<r>>
      /\ \A t \in Senders : t # s => resC'[t] = resC[t]
  BY <1>2, <1>3
<1>5. /\ confirmed' \in [Senders -> Nat]
      /\ confirmed'[s] = IF r = "ok" THEN confirmed[s] + 1 ELSE confirmed[s]
      /\ \A t \in Senders : t # s => confirmed'[t] = confirmed[t]
  BY <1>2, <1>3
<1>6. WTyped'
  BY <1>1, <1>3, <1>4, <1>5 DEF WTyped
<1>7. OneClosure' /\ OwnScript'
  BY <1>1, <1>3 DEF OneClosure, OwnScript
<1>8. /\ ~Within(s, queue) /\ confirmed[s] = 0 /\ snd[s] \in {"wait", "ret", "end"}
      /\ result[s] # "ok"
  BY <1>1, <1>a, <1>2 DEF OneClosure, Tracked, ClosureOf, Succeeded
<1>9. <<"err">> # <<"ok">>
  OBVIOUS
<1>10. ASSUME NEW t \in Senders PROVE Tracked(t)'
  <2>1. CASE t = s
    <3>1. ClosureOf(s)'
      BY <1>8 DEF ClosureOf
    <3>2. Succeeded(s)'
      BY <1>2, <1>3, <1>4, <1>5, <1>8, <1>9 DEF Succeeded
    <3>3. Reported(s)'
      BY <1>1, <1>a, <1>8 DEF Tracked, Reported
    <3>4. QED
      BY <2>1, <3>1, <3>2, <3>3 DEF Tracked
  <2>2. CASE t # s
    <3>1. t # Idle
      BY SenderNotIdle
    <3>2. QED
      BY <1>1, <1>3, <1>4, <1>5, <2>2, <3>1, Untouched
  <2>3. QED
    BY <2>1, <2>2
<1>11. Counted'
  BY <1>1 DEF Counted, Returned
<1>12. QED
  BY <1>6, <1>7, <1>10, <1>11 DEF WInv

\* A callback goes on.
LEMMA WGoesOn ==
  ASSUME WInv,
         UNCHANGED <<wctx, wloop, tctx, prog, snd, tries, result, resC, queue, cur, scrCtx,
                     confirmed, signal>>,
         step' \in Nat \ {0}, scr' \in Scripts, wire' \in Scripts, FreshBuilder',
         cur # Idle /\ step' \in 1 .. Len(prog[cur]) + 1 => Fits(scr', {})
  PROVE  WInv'
<1>1. /\ WTyped /\ OneClosure /\ (\A t \in Senders : Tracked(t)) /\ OwnScript /\ Counted
  BY DEF WInv
<1>2. WTyped' /\ OneClosure'
  BY <1>1 DEF WTyped, OneClosure
<1>3. ASSUME NEW t \in Senders PROVE Tracked(t)'
  BY <1>1, Untouched
<1>4. OwnScript'
  BY <1>1 DEF OwnScript, Fits, Signers
<1>5. Counted'
  BY <1>1 DEF Counted, Returned
<1>6. QED
  BY <1>2, <1>3, <1>4, <1>5 DEF WInv

LEMMA WCallback == ASSUME WInv, CallbackStep PROVE WInv'
<1>1. /\ WTyped /\ OwnScript /\ FreshBuilder /\ prog \in [Senders -> Seq(BuilderNames)]
      /\ cur \in Senders /\ step \in Nat /\ scr \in Scripts /\ wire \in Scripts
      /\ cur # Idle /\ step \in 0 .. Len(prog[cur])
      /\ UNCHANGED <<wctx, wloop, tctx, prog, snd, tries, result, queue, scrCtx,
                     wire, confirmed, signal>>
  BY DEF WInv, WTyped, CallbackStep
<1>2. PICK o \in (IF step = 0 THEN {SetTx(scr, "payer")} ELSE Build(prog[cur][step], scr)) :
        /\ scr' = o.s
        /\ IF o.ok THEN step' = step + 1 /\ UNCHANGED <<cur, resC>> ELSE Returns("err")
        /\ staleTx' = (staleTx \/ (step = 0 /\ ~o.ok))
  BY DEF CallbackStep
<1>3. o.s \in Scripts /\ (o.ok => Fits(o.s, {})) /\ (step = 0 => o.ok)
  <2>1. CASE step = 0
    <3>1. ~scr.open
      BY <1>1, <2>1 DEF OwnScript
    <3>2. PICK n : n = [open |-> TRUE, tx |-> <<>>, keys |-> {"payer"}]
      OBVIOUS
    <3>3. o = Ok(n)
      BY <1>2, <2>1, <3>1, <3>2 DEF SetTx, Blank
    <3>4. n \in Scripts /\ n.open /\ n.keys = {"payer"}
      BY <3>2 DEF Scripts, Keys
    <3>a. "payer" \in Signers(n)
      BY DEF Signers
    <3>5. Fits(n, {})
      BY <3>4, <3>a DEF Fits
    <3>6. QED
      BY <3>3, <3>4, <3>5 DEF Ok
  <2>2. CASE step # 0
    <3>1. prog[cur] \in Seq(BuilderNames) /\ Len(prog[cur]) \in Nat /\ step \in 1 .. Len(prog[cur])
      BY <1>1, <2>2, LenProperties
    <3>2. prog[cur][step] \in BuilderNames
      BY <3>1, ElementOfSeq
    <3>3. step \in 1 .. Len(prog[cur]) + 1
      BY <3>1
    <3>4. Fits(scr, {})
      BY <1>1, <3>3 DEF OwnScript
    <3>5. Good(Build(prog[cur][step], scr))
      BY <3>2, <3>4, BuildFits
    <3>6. QED
      BY <1>2, <2>2, <3>5 DEF Good
  <2>3. QED
    BY <2>1, <2>2
<1>4. FreshBuilder'
  <2>1. ~staleTx'
    BY <1>1, <1>2, <1>3 DEF FreshBuilder
  <2>2. QED
    BY <1>1, <2>1 DEF FreshBuilder, Signers
<1>5. CASE o.ok
  BY <1>1, <1>2, <1>3, <1>4, <1>5, WGoesOn
<1>6. CASE ~o.ok
  <2>1. Returns("err") /\ "err" \in {"ok", "err"} /\ scr' \in Scripts /\ wire' \in Scripts
        /\ confirmed' = IF "err" = "ok" THEN [confirmed EXCEPT ![cur] = @ + 1] ELSE confirmed
    BY <1>1, <1>2, <1>3, <1>6
  <2>2. QED
    BY <1>1, <1>4, <2>1, WReturns
<1>7. QED
  BY <1>5, <1>6

LEMMA WFinish ==
  ASSUME WInv, FinishFails \/ FinishTx \/ WaitSig \/ WaitCanceled PROVE WInv'
<1>1. /\ WTyped /\ OwnScript /\ FreshBuilder /\ prog \in [Senders -> Seq(BuilderNames)]
      /\ cur \in Senders /\ step \in Nat /\ scr \in Scripts /\ wire \in Scripts /\ cur # Idle
      /\ UNCHANGED <<wctx, wloop, tctx, prog, snd, tries, result, queue, scrCtx, signal>>
  BY DEF WInv, WTyped, FinishFails, FinishTx, WaitSig, WaitCanceled, AwaitsSig
<1>2. NewScript \in Scripts /\ NewScript.open = FALSE
  BY DEF NewScript, Scripts
<1>3. Len(prog[cur]) \in Nat
  BY <1>1, LenProperties
<1>4. CASE FinishFails
  <2>1. /\ Returns("err") /\ "err" \in {"ok", "err"} /\ scr' \in Scripts /\ wire' \in Scripts
        /\ confirmed' = IF "err" = "ok" THEN [confirmed EXCEPT ![cur] = @ + 1] ELSE confirmed
    BY <1>1, <1>4 DEF FinishFails
  <2>2. FreshBuilder'
    BY <1>1, <1>4 DEF FinishFails, FreshBuilder, Signers
  <2>3. QED
    BY <1>1, <2>1, <2>2, WReturns
<1>5. CASE FinishTx
  <2>1. /\ step = Len(prog[cur]) + 1 /\ step' = step + 1 /\ wire' = scr /\ scr' = NewScript
        /\ Signers(scr) \subseteq scr.keys
        /\ UNCHANGED <<resC, cur, staleTx, confirmed>>
    BY <1>5 DEF FinishTx, Signed
  <2>2. step \in 1 .. Len(prog[cur]) + 1 /\ step' \in Nat \ {0}
        /\ step' \notin 1 .. Len(prog[cur]) + 1
    BY <1>3, <2>1
  <2>3. scr.keys = Signers(scr)
    BY <1>1, <2>1, <2>2 DEF OwnScript, Fits
  <2>4. FreshBuilder'
    BY <1>1, <2>1, <2>3 DEF FreshBuilder, Signers
  <2>5. QED
    BY <1>1, <1>2, <2>1, <2>2, <2>4, WGoesOn
<1>6. CASE WaitSig \/ WaitCanceled
  <2>1. wire' = NewScript /\ UNCHANGED <<scr, staleTx>>
    BY <1>6 DEF WaitSig, WaitCanceled
  <2>2. FreshBuilder'
    BY <1>1, <1>2, <2>1 DEF FreshBuilder
  <2>3. PICK r \in {"ok", "err"} :
          /\ Returns(r)
          /\ confirmed' = IF r = "ok" THEN [confirmed EXCEPT ![cur] = @ + 1] ELSE confirmed
    BY <1>6 DEF WaitSig, WaitCanceled
  <2>4. QED
    BY <1>1, <1>2, <2>1, <2>2, <2>3, WReturns
<1>7. QED
  BY <1>4, <1>5, <1>6

\* The wrapper keeps its invariant.
THEOREM WInvariance == WSpec => []WInv
<1>1. ASSUME WInv, WNext PROVE WInv'
  <2>1. ASSUME NEW s \in Senders, SendNext(s) PROVE WInv'
    BY <1>1, <2>1, WStart, WPut, WResult, WDelay, WStops, WRelay DEF SendNext
  <2>2. ASSUME LoopNext PROVE WInv'
    BY <1>1, <2>2, WTake, WLoopEnds, WCallback, WFinish DEF LoopNext, LoopRun
  <2>3. QED
    BY <1>1, <2>1, <2>2, WContexts DEF WNext
<1>2. ASSUME WInv, UNCHANGED wrapVars PROVE WInv'
  <2>1. /\ WTyped /\ OneClosure /\ (\A t \in Senders : Tracked(t))
        /\ OwnScript /\ FreshBuilder /\ Counted
    BY <1>2 DEF WInv
  <2>2. UNCHANGED <<wctx, wloop, tctx, prog, snd, tries, result, resC, queue, cur,
                    step, scr, scrCtx, staleTx, wire, confirmed, signal>>
    BY <1>2 DEF wrapVars
  <2>3. WTyped' /\ OneClosure'
    BY <2>1, <2>2 DEF WTyped, OneClosure
  <2>4. ASSUME NEW t \in Senders PROVE Tracked(t)'
    BY <2>1, <2>2, Untouched
  <2>5. OwnScript' /\ FreshBuilder'
    BY <2>1, <2>2, ScriptKept
  <2>6. Counted'
    BY <2>1, <2>2 DEF Counted, Returned
  <2>7. QED
    BY <2>3, <2>4, <2>5, <2>6 DEF WInv
<1>3. QED
  BY WInitInv, <1>1, <1>2, PTL DEF WSpec

\* Send says what happened, for any number of senders, callbacks and tries:
\* an attempt that dies half way leaves nothing to the next one, a
\* transaction is signed with the keys of its own accounts, an attempt that
\* succeeded is the last one and the result of Send agrees with it.
THEOREM SendIsTruthful == WSpec => []SendTruthful
<1>1. ASSUME WInv PROVE SendTruthful
  <2>1. /\ WTyped /\ OneClosure /\ (\A t \in Senders : Tracked(t))
        /\ FreshBuilder /\ Counted
    BY <1>1 DEF WInv
  <2>2. signal \in 0 .. Cardinality(Senders)
    <3>1. signal \in Nat /\ signal <= Cardinality(Returned) /\ Cardinality(Returned) \in Nat
          /\ Cardinality(Returned) <= Cardinality(Senders) /\ Cardinality(Senders) \in Nat
      BY <2>1, ReturnedFinite, FS_CardinalityType, ScriptWrapperAssumption DEF WTyped, Counted
    <3>2. QED
      BY <3>1
  <2>3. \A s \in Senders : Len(resC[s]) <= 1
    <3>1. Len(<<>>) <= 1 /\ Len(<<"ok">>) <= 1 /\ Len(<<"err">>) <= 1
      OBVIOUS
    <3>2. \A s \in Senders : resC[s] = <<>> \/ resC[s] = <<"ok">> \/ resC[s] = <<"err">>
      BY <2>1 DEF WTyped
    <3>3. QED
      BY <3>1, <3>2, Zenon
  <2>4. WTypeOK
    BY <2>1, <2>2, <2>3 DEF WTyped, WTypeOK
  <2>5. SendSays
    <3>1. cur # Idle => resC[cur] = <<>>
      BY <2>1 DEF OneClosure
    <3>2. \A s \in Senders : Succeeded(s) /\ Reported(s)
      BY <2>1 DEF Tracked
    <3>3. QED
      BY <3>1, <3>2 DEF SendSays, Succeeded, Reported
  <2>6. QED
    BY <2>1, <2>4, <2>5 DEF SendTruthful
<1>2. QED
  BY <1>1, WInvariance, PTL

\* No transaction is submitted for a task whose context is done: the context
\* of the script is that of the attempt that is running.
THEOREM NothingIsSentAfterCancel == WSpec => NothingAfterCancel
<1>1. ASSUME WInv, [WNext]_wrapVars
      PROVE  [wire'.open /\ ~wire.open => tctx[cur] = "open"]_wrapVars
  <2>1. SUFFICES ASSUME wire'.open, ~wire.open PROVE tctx[cur] = "open"
    OBVIOUS
  <2>2. NewScript.open = FALSE
    BY DEF NewScript
  <2>3. ~UNCHANGED wire /\ wire' # NewScript
    BY <2>1, <2>2
  <2>4. FinishTx
    BY <1>1, <2>3 DEF wrapVars, WNext, SendNext, LoopNext, LoopRun, TaskDone, WrapperDone, SendStart,
                      SendPut, SendResult, SendDelay, SendStops, Relay, LoopTake, LoopEnds,
                      CallbackStep, FinishFails, WaitSig, WaitCanceled
  <2>5. QED
    BY <1>1, <2>4 DEF FinishTx, WInv, OwnScript
<1>2. QED
  BY <1>1, WInvariance, PTL DEF WSpec, NothingAfterCancel
=============================================================================
