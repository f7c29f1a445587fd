------------------------- MODULE ValidatorSchedule -------------------------
(***************************************************************************)
(* The validator scheduler, src/scheduler/validator: it follows the        *)
(* receipt that ties one validator to one payout and tells the validator   *)
(* agent when to set the payout and when to withdraw the receipt.          *)
(*                                                                         *)
(*   home  loopInternal         payout schedule, receipts, stakers         *)
(*   open  loopOpenReceipt      waits for the receipt     -> receiptC      *)
(*   wait  loopWaitStakeFinish  follows the staker count  -> receiptEventC *)
(*                                                                         *)
(* receiptC and receiptEventC are unbuffered: opend and wpend are what the *)
(* two goroutines have still to send.  errorC has one place and is read by *)
(* the home only; the home itself sends on it without an alternative.      *)
(*                                                                         *)
(* The chain is external: phase is where its slots are with respect to the *)
(* period, and the receipt account with its StakerCounter.  The payout     *)
(* scheduler (PayoutSchedule) is seen through the events it broadcasts, in *)
(* its order; EVENT_PERIOD_PRE_START and the events this package ignores   *)
(* are left out.                                                           *)
(***************************************************************************)
EXTENDS Naturals, Sequences

CONSTANTS
    MaxStk,     \* bound on Receipt.StakerCounter
    MaxAdd,     \* bound on the stakers that add themselves in all
    StreamCap,  \* DEFAULT_STREAM_BUFFER_SIZE of package dssub
    ErrorCap    \* capacity of errorC (1 in loopInternal)

ASSUME ValidatorScheduleAssumption ==
    /\ MaxStk \in Nat
    /\ MaxAdd \in Nat
    /\ StreamCap \in Nat \ {0}
    /\ ErrorCap \in Nat \ {0}

\* Phases of the chain: before the period, in it, after it, and after it
\* plus PAYOUT_POST_FINISH_DELAY.
PRE == 0
PERIOD == 1
POST == 2
CLOSEOUT == 3

\* The phase from which the payout scheduler may send an event.
Since == [e \in {"SET_PAYOUT", "START", "FINISH", "DELAY_CLOSE"} |->
            CASE e = "SET_PAYOUT"  -> PRE
              [] e = "START"       -> PERIOD
              [] e = "FINISH"      -> POST
              [] e = "DELAY_CLOSE" -> CLOSEOUT]

ClockFeed == <<"START", "FINISH", "DELAY_CLOSE">>

StakeEvents == {"STK_ADDING", "STK_WITHDRAWN", "STK_EMPTY", "VAL_WITHDRAWN"}
Triggers == {"SET_PAYOUT", "WITHDRAW"}

\* What is sent on errorC.
Errors == {"data", "canceled", "full", "duplicate withdraw trigger", "nil"}

VARIABLES
    phase,    \* where the chain is
    receipt,  \* "none", "open" or "closed"
    stk,      \* Receipt.StakerCounter
    added,    \* stakers that have added themselves so far
    feed,     \* payoutEventSub: events of the payout scheduler to come
    pc,       \* home: "loop", "blocked" (in a send on errorC) or "exit"
    opc,      \* open: "start", "run" or "done"
    opend,    \* open is sending the receipt on receiptC
    rQ,       \* open's receipt stream holds the receipt
    startC,   \* clockPeriodStartC holds a value
    postC,    \* clockPeriodPostCloseC holds a value
    errQ,     \* contents of errorC
    wpc,      \* wait: "off", "start", "load", "run", "end", "hung", "done"
    wait,     \* the local variables of loopWaitStakeFinish
    wpend,    \* events wait has still to send
    dq,       \* dataSub.StreamC of wait
    dErr,     \* dataSub.ErrorC of wait: "none", "nil" (closed) or "full"
    in        \* the fields of internal

chain == <<phase, receipt, stk, added>>
openVars == <<opc, opend, rQ>>
waitVars == <<wpc, wait, wpend, dq, dErr>>
vars == <<phase, receipt, stk, added, feed, pc, opc, opend, rQ, startC, postC,
          errQ, wpc, wait, wpend, dq, dErr, in>>

Init ==
    /\ phase \in PRE .. CLOSEOUT
    /\ receipt \in {"none", "open"}
    /\ stk \in 0 .. MaxStk
    /\ stk > 0 => receipt = "open" /\ phase # PRE
    /\ added = stk
    /\ feed \in IF phase = PRE THEN {ClockFeed, <<"SET_PAYOUT">> \o ClockFeed}
                               ELSE {ClockFeed}
    /\ pc = "loop"
    /\ opc = "start"
    /\ opend = FALSE
    /\ rQ = FALSE
    /\ startC = FALSE
    /\ postC = FALSE
    /\ errQ \in {<<>>, <<"data">>}     \* v.Data() may fail
    /\ wpc = "off"
    /\ wait = [adding |-> FALSE, counter |-> 0, sentAdding |-> FALSE,
               sentEmpty |-> FALSE, sentWithdrawn |-> FALSE]
    /\ wpend = <<>>
    /\ dq = <<>>
    /\ dErr = "none"
    /\ in = [sentPeriodStart |-> FALSE, sentPeriodPostClose |-> FALSE,
             receipts |-> 0, withdrawCtx |-> "none",
             cancelValidatorWithdraw |-> FALSE,
             count |-> [e \in StakeEvents \cup Triggers |-> 0]]

-----------------------------------------------------------------------------
(* The chain and state/receipt, state/validator (external).                *)

Advance ==
    /\ pc # "exit" /\ phase < CLOSEOUT
    /\ phase' = phase + 1
    /\ UNCHANGED <<receipt, stk, added, feed, pc, openVars, startC, postC,
                   errQ, waitVars, in>>

\* receiptHome.Broadcast of the receipt's new counter.
Deliver(n) ==
    /\ dq' = IF wpc \in {"load", "run"} /\ dErr = "none" /\ Len(dq) < StreamCap
             THEN Append(dq, n) ELSE dq
    /\ dErr' = IF wpc \in {"load", "run"} /\ dErr = "none"
                  /\ Len(dq) >= StreamCap
               THEN "full" ELSE dErr

ChainSetPayout ==
    /\ pc # "exit" /\ phase = PRE /\ receipt = "none"
    /\ receipt' = "open"
    /\ rQ' = (opc = "run")
    /\ UNCHANGED <<phase, stk, added, feed, pc, opc, opend, startC, postC,
                   errQ, waitVars, in>>

ChainStakerAdd ==
    /\ pc # "exit" /\ phase = PERIOD /\ receipt = "open"
    /\ stk < MaxStk /\ added < MaxAdd
    /\ stk' = stk + 1
    /\ added' = added + 1
    /\ Deliver(stk')
    /\ UNCHANGED <<phase, receipt, feed, pc, openVars, startC, postC, errQ,
                   wpc, wait, wpend, in>>

ChainStakerWithdraw ==
    /\ pc # "exit" /\ phase >= POST /\ stk > 0
    /\ stk' = stk - 1
    /\ Deliver(stk')
    /\ UNCHANGED <<phase, receipt, added, feed, pc, openVars, startC, postC,
                   errQ, wpc, wait, wpend, in>>

\* ValidatorWithdraw closes the receipt account; state/receipt ends and its
\* SubHome.Close puts a nil error on the subscriptions.
ChainReceiptClose ==
    /\ pc # "exit" /\ phase >= POST /\ receipt = "open" /\ stk = 0
    /\ receipt' = "closed"
    /\ dErr' = IF wpc \in {"load", "run"} /\ dErr = "none" THEN "nil" ELSE dErr
    /\ UNCHANGED <<phase, stk, added, feed, pc, openVars, startC, postC, errQ,
                   wpc, wait, wpend, dq, in>>

-----------------------------------------------------------------------------
(* loopOpenReceipt                                                         *)

\* OnReceipt(), then ReceiptByPayoutId().
OpenStart ==
    /\ pc # "exit" /\ opc = "start"
    /\ opc' = "run"
    /\ opend' = (receipt = "open")
    /\ UNCHANGED <<chain, feed, pc, rQ, startC, postC, errQ, waitVars, in>>

\* rwd = <-sub.StreamC
OpenReceipt ==
    /\ pc # "exit" /\ opc = "run" /\ ~opend /\ rQ
    /\ rQ' = FALSE
    /\ opend' = TRUE
    /\ UNCHANGED <<chain, feed, pc, opc, startC, postC, errQ, waitVars, in>>

\* <-clockPeriodStartC
OpenExpired ==
    /\ pc # "exit" /\ opc = "run" /\ ~opend /\ startC
    /\ startC' = FALSE
    /\ opc' = "done"
    /\ UNCHANGED <<chain, feed, pc, opend, rQ, postC, errQ, waitVars, in>>

-----------------------------------------------------------------------------
(* loopWaitStakeFinish                                                     *)

\* OnData().  A request to a SubHome whose owner has ended is never
\* answered.
WaitSubscribe ==
    /\ wpc = "start"
    /\ wpc' = IF receipt = "closed" THEN "hung" ELSE "load"
    /\ UNCHANGED <<chain, feed, pc, openVars, startC, postC, errQ, wait,
                   wpend, dq, dErr, in>>

\* rwd.Receipt.Data(), which fails once the receipt object has ended.
WaitLoad ==
    /\ wpc = "load"
    /\ IF receipt = "closed"
       THEN /\ Len(errQ) < ErrorCap
            /\ errQ' = Append(errQ, "canceled")
            /\ wpc' = "done"
            /\ UNCHANGED <<wait, wpend>>
       ELSE /\ wait' = [wait EXCEPT !.adding = stk > 0, !.counter = stk]
            /\ wpend' = IF stk > 0 THEN <<"STK_ADDING">> ELSE <<>>
            /\ wpc' = "run"
            /\ UNCHANGED errQ
    /\ UNCHANGED <<chain, feed, pc, openVars, startC, postC, dq, dErr, in>>

\* <-clockPeriodPostCloseC
WaitPost ==
    /\ wpc = "run" /\ wpend = <<>> /\ postC
    /\ postC' = FALSE
    /\ LET empty == ~wait.sentEmpty /\ ~wait.adding /\ wait.counter = 0
       IN  /\ wait' = [wait EXCEPT !.sentEmpty = @ \/ empty]
           /\ wpend' = IF empty THEN <<"STK_EMPTY">> ELSE <<>>
    /\ UNCHANGED <<chain, feed, pc, openVars, startC, errQ, wpc, dq, dErr,
                   in>>

\* The condition under which EVENT_STAKER_HAVE_WITHDRAWN is sent.
Leaves(adding, n) == ~wait.sentWithdrawn /\ adding /\ n = 0

\* data = <-dataSub.StreamC
WaitData ==
    /\ wpc = "run" /\ wpend = <<>> /\ dq # <<>>
    /\ dq' = Tail(dq)
    /\ LET n == Head(dq)
           add == ~wait.sentAdding /\ ~wait.adding /\ n > 0
           adding == wait.adding \/ add
           left == Leaves(adding, n)
           If(b, q) == IF b THEN q ELSE <<>>
       IN  /\ wait' = [wait EXCEPT !.counter = n, !.adding = adding,
                                   !.sentAdding = @ \/ add,
                                   !.sentWithdrawn = @ \/ left]
           /\ wpend' = If(add, <<"STK_ADDING">>)
                       \o If(left, <<"STK_WITHDRAWN">>)
    /\ UNCHANGED <<chain, feed, pc, openVars, startC, postC, errQ, wpc, dErr,
                   in>>

\* err = <-dataSub.ErrorC: nil when the receipt account has been closed.
WaitClosed ==
    /\ wpc = "run" /\ wpend = <<>> /\ dErr # "none"
    /\ wpc' = "end"
    /\ IF dErr = "nil"
       THEN wpend' = <<"VAL_WITHDRAWN">> /\ UNCHANGED errQ
       ELSE /\ Len(errQ) < ErrorCap
            /\ errQ' = Append(errQ, "full")
            /\ UNCHANGED wpend
    /\ UNCHANGED <<chain, feed, pc, openVars, startC, postC, wait, dq, dErr,
                   in>>

-----------------------------------------------------------------------------
(* loopInternal                                                            *)

broadcast(i, e) == [i EXCEPT !.count[e] = @ + 1]

\* A send on errorC without an alternative, the last statement of a handler.
SendError(e) ==
    IF Len(errQ) < ErrorCap
    THEN errQ' = Append(errQ, e) /\ pc' = "loop"
    ELSE pc' = "blocked" /\ UNCHANGED errQ

\* The event on which on_payout_event calls on_post.
IsPost(e) == e = "DELAY_CLOSE"

\* on_payout_event
OnPayoutEvent ==
    /\ pc = "loop" /\ feed # <<>> /\ Since[Head(feed)] <= phase
    /\ feed' = Tail(feed)
    /\ IF Head(feed) = "SET_PAYOUT"
       THEN /\ in' = broadcast(in, "SET_PAYOUT")
            /\ UNCHANGED <<startC, postC>>
       ELSE LET post == IsPost(Head(feed)) IN
            /\ startC' = (startC \/ ~in.sentPeriodStart)
            /\ postC' = (postC \/ (post /\ ~in.sentPeriodPostClose))
            /\ in' = [in EXCEPT !.sentPeriodStart = TRUE,
                                !.sentPeriodPostClose = @ \/ post]
    /\ UNCHANGED <<chain, pc, openVars, errQ, waitVars>>

run_validator_withdraw(i) ==
    IF i.receipts = 0 \/ i.withdrawCtx = "none" THEN i
    ELSE broadcast(i, "WITHDRAW")

\* on_receipt.  EVENT_VALIDATOR_IS_ADDING falls into the default case of
\* on_receipt_event and is not broadcast.
OnReceipt ==
    /\ pc = "loop" /\ opend
    /\ opend' = FALSE
    /\ opc' = "done"
    /\ wpc' = "start"
    /\ in' = run_validator_withdraw([in EXCEPT !.receipts = @ + 1])
    /\ UNCHANGED <<chain, feed, pc, rQ, startC, postC, errQ, wait, wpend, dq,
                   dErr>>

\* in.cancelValidatorWithraw is not nil.
IsWithdrawing(i) == i.cancelValidatorWithdraw

\* Mutant: the handle is cleared but the context not cancelled.
StopWithdrawForgets(i) == [i EXCEPT !.cancelValidatorWithdraw = FALSE]

\* in.cancelValidatorWithraw(), which ends the trigger's context.
StopWithdraw(i) ==
    [i EXCEPT !.cancelValidatorWithdraw = FALSE,
              !.withdrawCtx = IF @ = "live" THEN "done" ELSE @]

\* on_receipt_event and on_staker_have_withdrawn
OnReceiptEvent ==
    /\ pc = "loop" /\ wpend # <<>>
    /\ LET e == Head(wpend)
           told == broadcast(in, e)
       IN  \/ /\ e = "STK_ADDING"
              /\ in' = told
              /\ UNCHANGED <<errQ, pc>>
           \/ /\ e \in {"STK_WITHDRAWN", "STK_EMPTY"}
              /\ ~IsWithdrawing(in)
              /\ in' = run_validator_withdraw(
                         [told EXCEPT !.cancelValidatorWithdraw = TRUE,
                                      !.withdrawCtx = "live"])
              /\ UNCHANGED <<errQ, pc>>
           \/ /\ e \in {"STK_WITHDRAWN", "STK_EMPTY"}
              /\ IsWithdrawing(in)
              /\ in' = told
              /\ SendError("duplicate withdraw trigger")
           \/ /\ e = "VAL_WITHDRAWN"
              /\ in' = StopWithdraw(told)
              /\ SendError("nil")
    /\ wpend' = Tail(wpend)
    /\ wpc' = IF wpc = "end" THEN "done" ELSE wpc
    /\ UNCHANGED <<chain, feed, openVars, startC, postC, wait, dq, dErr>>

\* The loop ends: finish(), eventHome.Close() and cancel(), which ends the
\* goroutines and every context.
Ended ==
    /\ pc' = "exit"
    /\ opc' = "done" /\ opend' = FALSE
    /\ wpc' = "done" /\ wpend' = <<>>
    /\ in' = [in EXCEPT !.withdrawCtx = IF @ = "live" THEN "done" ELSE @]

\* err = <-errorC
OnError ==
    /\ pc = "loop" /\ errQ # <<>>
    /\ errQ' = Tail(errQ)
    /\ Ended
    /\ UNCHANGED <<chain, feed, rQ, startC, postC, wait, dq, dErr>>

\* doneC or payoutEventSub.ErrorC.
Cancel ==
    /\ pc = "loop"
    /\ Ended
    /\ UNCHANGED <<chain, feed, rQ, startC, postC, errQ, wait, dq, dErr>>

-----------------------------------------------------------------------------
Chain ==
    \/ Advance
    \/ ChainSetPayout
    \/ ChainStakerAdd
    \/ ChainStakerWithdraw
    \/ ChainReceiptClose

Open == OpenStart \/ OpenReceipt \/ OpenExpired

Wait == WaitSubscribe \/ WaitLoad \/ WaitPost \/ WaitData \/ WaitClosed

Home == OnPayoutEvent \/ OnReceipt \/ OnReceiptEvent \/ OnError

Next == Chain \/ Open \/ Wait \/ Home \/ Cancel

Spec == Init /\ [][Next]_vars

\* What must not stop: Go schedules every goroutine that can run, the chain
\* moves on and stakers take their stake back.  Nobody has to withdraw the
\* receipt.  No step can be repeated for ever (every one uses up an event, a
\* message or a phase), so fairness of Run is fairness of each of its steps.
Run ==
    \/ Advance \/ ChainStakerWithdraw
    \/ OpenStart \/ OpenReceipt \/ OpenExpired
    \/ WaitSubscribe \/ WaitLoad \/ WaitPost \/ WaitData \/ WaitClosed
    \/ OnPayoutEvent \/ OnReceipt \/ OnReceiptEvent \/ OnError

FairSpec == Spec /\ WF_vars(Run)

-----------------------------------------------------------------------------
\* The variables hold values of the shapes the Go types allow, and errorC
\* never holds more than its capacity.
TypeOK ==
    /\ phase \in PRE .. CLOSEOUT
    /\ receipt \in {"none", "open", "closed"}
    /\ stk \in 0 .. MaxStk
    /\ added \in Nat
    /\ feed \in Seq(DOMAIN Since)
    /\ pc \in {"loop", "blocked", "exit"}
    /\ opc \in {"start", "run", "done"}
    /\ opend \in BOOLEAN /\ rQ \in BOOLEAN
    /\ startC \in BOOLEAN /\ postC \in BOOLEAN
    /\ errQ \in Seq(Errors) /\ Len(errQ) <= ErrorCap
    /\ wpc \in {"off", "start", "load", "run", "end", "hung", "done"}
    /\ wait \in [adding : BOOLEAN, counter : Nat, sentAdding : BOOLEAN,
                 sentEmpty : BOOLEAN, sentWithdrawn : BOOLEAN]
    /\ wpend \in Seq(StakeEvents)
    /\ dq \in Seq(Nat)
    /\ dErr \in {"none", "nil", "full"}
    /\ in \in [sentPeriodStart : BOOLEAN, sentPeriodPostClose : BOOLEAN,
               receipts : Nat, withdrawCtx : {"none", "live", "done"},
               cancelValidatorWithdraw : BOOLEAN,
               count : [StakeEvents \cup Triggers -> Nat]]

\* The agent is told at most once to withdraw the receipt, and on_receipt,
\* which "only gets called once" (receipt.go:10), is called at most once.
WithdrawOnce == in.count["WITHDRAW"] <= 1 /\ in.receipts <= 1

\* The agent is told to withdraw only after the period, when the program
\* accepts it, and only for a receipt the scheduler has taken over.
WithdrawTimely ==
    in.count["WITHDRAW"] > 0 => phase >= POST /\ in.receipts > 0

\* The withdraw trigger's context is live exactly from the trigger to the
\* close of the receipt or the end of the scheduler, so that the agent
\* neither retries a withdrawal that is done nor gives one up.
WithdrawContext ==
    in.withdrawCtx = "live" <=>
        in.count["WITHDRAW"] > 0 /\ in.count["VAL_WITHDRAWN"] = 0 /\ pc # "exit"

\* Subscribers hear of stakers leaving only after they heard of them, and
\* of each of the two at most once.
StakersInOrder ==
    /\ in.count["STK_WITHDRAWN"] <= in.count["STK_ADDING"]
    /\ in.count["STK_ADDING"] <= 1

\* The stakers have left when they are said to have withdrawn.  A withdrawal
\* asked for while a staker is still in comes from the event that says the
\* receipt had none: the follower decides that when the delay has passed
\* (WaitPost), on the last count it has read, and stakers that added
\* themselves are then still in its stream or were lost with it.
StakersLeft ==
    /\ in.count["STK_WITHDRAWN"] > 0 => stk = 0
    /\ in.count["WITHDRAW"] > 0 /\ stk > 0 => in.count["STK_EMPTY"] > 0
    /\ wpend = <<"STK_EMPTY">> /\ stk > 0 => dq # <<>> \/ dErr = "full"

\* The validator scheduler asks for the withdrawal of its receipt at most
\* once, only after the period, and under a context that is live exactly
\* while the receipt can still be withdrawn.  The stakers have left by then,
\* unless the follower had not read that they came; their events reach the
\* subscribers in the order of their life.  The variables keep their types
\* meanwhile.
WithdrawProper ==
    /\ TypeOK
    /\ WithdrawOnce /\ WithdrawTimely /\ WithdrawContext /\ StakersInOrder
    /\ StakersLeft

\* "Be alerted as to when to: ... TRIGGER_VALIDATOR_WITHDRAW_RECEIPT"
\* (validator.go:25): once the scheduler has the receipt, the delay has
\* passed and no stake is left, the trigger comes, unless somebody else
\* closes the receipt or the scheduler ends.
WithdrawTriggered ==
    (in.receipts > 0 /\ phase = CLOSEOUT /\ stk = 0) ~>
        (in.count["WITHDRAW"] > 0 \/ receipt = "closed" \/ pc = "exit")
=============================================================================
