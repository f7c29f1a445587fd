--------------------------- MODULE StakerSchedule ---------------------------
(***************************************************************************)
(* The staker scheduler (src/scheduler/staker) with the staker's state     *)
(* object it follows: loopOpenReceipt asks for the staker to be added to   *)
(* the receipt and waits until it is, loopWithdraw asks for the withdrawal *)
(* when the period is over, and loopInternal records what they send.       *)
(***************************************************************************)
EXTENDS StakerState

VARIABLES
    ctx,       \* of the scheduler: "open", "closed"
    loop,      \* loopInternal: "run", "dead"
    op,        \* loopOpenReceipt
    wd,        \* loopWithdraw
    addCtx,    \* the context of TRIGGER_STAKER_ADD: "live", "canceled"
    wdCtx,     \* that of TRIGGER_STAKER_WITHDRAW: "none", "live", "canceled"
    srgtC,     \* capacity 1: isStateChange
    eventC,    \* capacity 1
    errorC,    \* capacity 5: number of errors
    history,   \* events broadcast
    period,    \* the payout scheduler: "run", "finish" (sent), "closed"
    psub       \* its subscription in loopWithdraw: "none", "wait", "told"

schedVars == <<ctx, loop, op, wd, addCtx, wdCtx, srgtC, eventC, errorC,
               history, period, psub>>
skVars == <<stakerVars, schedVars>>

SkInit ==
    /\ StakerInit
    /\ ctx = "open" /\ loop = "run"
    /\ op = "sub" /\ wd = "none"
    /\ addCtx = "live" /\ wdCtx = "none"
    /\ srgtC = <<>> /\ eventC = <<>> /\ errorC = 0
    /\ history = <<>>
    /\ period = "run" /\ psub = "none"

SkClose ==
    /\ ctx = "open"
    /\ ctx' = "closed"
    /\ UNCHANGED <<stakerVars, loop, op, wd, addCtx, wdCtx, srgtC, eventC,
                   errorC, history, period, psub>>

\* (external) the payout scheduler reaches EVENT_PERIOD_FINISH; it is in its
\* history, so that a later subscription gets it too.
PeriodFinish ==
    /\ period = "run"
    /\ period' = "finish"
    /\ UNCHANGED <<stakerVars, ctx, loop, op, wd, addCtx, wdCtx, srgtC,
                   eventC, errorC, history, psub>>

AddDone == ctx = "closed" \/ addCtx = "canceled"

-----------------------------------------------------------------------------
(* loopOpenReceipt                                                         *)

\* receiptSub := s.OnReceipt(...)
OpenSubscribe ==
    /\ op = "sub"
    /\ \/ /\ ssub["open"].st = "none"
          /\ ssub' = [ssub EXCEPT !["open"].st = "asked"]
          /\ UNCHANGED op
       \/ /\ ssub["open"].st \in {"on", "off"}
          /\ op' = "list"
          /\ UNCHANGED ssub
    /\ UNCHANGED <<sctx, sloop, managerC, receiptC, known, supdates, ctx,
                   loop, wd, addCtx, wdCtx, srgtC, eventC, errorC, history,
                   period, psub>>

\* s.AllReceipts(): an error is reported and the goroutine goes on.
OpenList ==
    /\ op = "list"
    /\ \/ /\ sloop = "run"
          /\ op' = IF Mine \in known THEN "found" ELSE "trigger"
          /\ UNCHANGED errorC
       \/ /\ sctx = "closed"
          /\ errorC' = errorC + 1
          /\ op' = "trigger"
    /\ UNCHANGED <<stakerVars, ctx, loop, wd, addCtx, wdCtx, srgtC, eventC,
                   history, period, psub>>

\* srgtC <- srgWithTransition{...}, then return
OpenReport ==
    /\ op \in {"found", "added"}
    /\ \/ srgtC = <<>> /\ srgtC' = <<op = "added">>
       \/ AddDone /\ UNCHANGED srgtC
    /\ op' = "done"
    /\ UNCHANGED <<stakerVars, ctx, loop, wd, addCtx, wdCtx, eventC, errorC,
                   history, period, psub>>

\* eventC <- TRIGGER_STAKER_ADD
OpenTrigger ==
    /\ op = "trigger"
    /\ \/ eventC = <<>> /\ eventC' = <<"add">> /\ op' = "wait"
       \/ AddDone /\ op' = "done" /\ UNCHANGED eventC
    /\ UNCHANGED <<stakerVars, ctx, loop, wd, addCtx, wdCtx, srgtC, errorC,
                   history, period, psub>>

\* the loop of loopOpenReceipt
OpenWait ==
    /\ op = "wait"
    /\ \/ /\ ssub["open"].queue > 0
          /\ ssub' = [ssub EXCEPT !["open"].queue = @ - 1]
          /\ op' = "added"
          /\ UNCHANGED errorC
       \/ /\ ssub["open"].err # "empty"
          /\ errorC' = IF ssub["open"].err = "full" THEN errorC + 1 ELSE errorC
          /\ op' = "done"
          /\ UNCHANGED ssub
       \/ /\ AddDone
          /\ op' = "done"
          /\ UNCHANGED <<ssub, errorC>>
    /\ UNCHANGED <<sctx, sloop, managerC, receiptC, known, supdates, ctx,
                   loop, wd, addCtx, wdCtx, srgtC, eventC, history, period, psub>>

-----------------------------------------------------------------------------
(* loopWithdraw                                                            *)

WdDone == ctx = "closed" \/ wdCtx = "canceled"

\* the two subscriptions
WithdrawSubscribe ==
    /\ wd = "sub"
    /\ \/ /\ ssub["withdraw"].st = "none"
          /\ ssub' = [ssub EXCEPT !["withdraw"].st = "asked"]
          /\ UNCHANGED <<wd, psub>>
       \/ /\ ssub["withdraw"].st \in {"on", "off"}
          /\ wd' = "wait" /\ psub' = "wait"
          /\ UNCHANGED ssub
    /\ UNCHANGED <<sctx, sloop, managerC, receiptC, known, supdates, ctx,
                   loop, op, addCtx, wdCtx, srgtC, eventC, errorC, history, period>>

\* the loop: an update of an open receipt only replaces srg.
WithdrawWait ==
    /\ wd = "wait"
    /\ \/ /\ ssub["withdraw"].queue > 0
          /\ ssub' = [ssub EXCEPT !["withdraw"].queue = @ - 1]
          /\ UNCHANGED <<wd, psub, errorC>>
       \/ /\ period = "finish" /\ psub = "wait"
          /\ psub' = "told" /\ wd' = "trigger"
          /\ UNCHANGED <<ssub, errorC>>
       \/ /\ ssub["withdraw"].err # "empty"
          /\ errorC' = IF ssub["withdraw"].err = "full" THEN errorC + 1 ELSE errorC
          /\ wd' = "done"
          /\ UNCHANGED <<ssub, psub>>
       \/ /\ WdDone
          /\ wd' = "done"
          /\ UNCHANGED <<ssub, psub, errorC>>
    /\ UNCHANGED <<sctx, sloop, managerC, receiptC, known, supdates, ctx,
                   loop, op, addCtx, wdCtx, srgtC, eventC, history, period>>

\* eventC <- TRIGGER_STAKER_WITHDRAW, then the goroutine ends
WithdrawTrigger ==
    /\ wd = "trigger"
    /\ \/ eventC = <<>> /\ eventC' = <<"withdraw">>
       \/ WdDone /\ UNCHANGED eventC
    /\ wd' = "done"
    /\ UNCHANGED <<stakerVars, ctx, loop, op, addCtx, wdCtx, srgtC, errorC,
                   history, period, psub>>

-----------------------------------------------------------------------------
(* loopInternal                                                            *)

\* on_event
on_event ==
    /\ loop = "run" /\ eventC # <<>>
    /\ eventC' = <<>>
    /\ history' = Append(history, Head(eventC))
    /\ UNCHANGED <<stakerVars, ctx, loop, op, wd, addCtx, wdCtx, srgtC,
                   errorC, period, psub>>

\* on_staker_receipt
on_staker_receipt ==
    /\ loop = "run" /\ srgtC # <<>>
    /\ srgtC' = <<>>
    /\ history' = Append(history, "adding")
    /\ addCtx' = "canceled"
    /\ wdCtx' = "live" /\ wd' = "sub"
    /\ UNCHANGED <<stakerVars, ctx, loop, op, eventC, errorC, period, psub>>

\* <-errorC or <-doneC; the deferred cancel ends every context.
SkFinish ==
    /\ loop = "run"
    /\ errorC > 0 \/ ctx = "closed"
    /\ loop' = "dead" /\ ctx' = "closed"
    /\ UNCHANGED <<stakerVars, op, wd, addCtx, wdCtx, srgtC, eventC, errorC,
                   history, period, psub>>

\* Steps of the staker's own loop.
StakerReceives(c) == StakerReceive(c) /\ UNCHANGED schedVars
StakerTold == StakerOnReceipt /\ UNCHANGED schedVars

SkNext ==
    \/ StakerNext /\ UNCHANGED schedVars
    \/ SkClose \/ PeriodFinish
    \/ OpenSubscribe \/ OpenList \/ OpenReport \/ OpenTrigger \/ OpenWait
    \/ WithdrawSubscribe \/ WithdrawWait \/ WithdrawTrigger
    \/ on_event \/ on_staker_receipt \/ SkFinish

\* What must not stop: the two loops and loopOpenReceipt.  No step can be
\* repeated for ever, so fairness of SkRun is fairness of each of its steps.
SkRun ==
    \/ \E c \in Clients : StakerReceives(c)
    \/ StakerTold
    \/ OpenSubscribe \/ OpenList \/ OpenReport \/ OpenTrigger \/ OpenWait
    \/ on_event \/ on_staker_receipt \/ SkFinish

SkSpec == SkInit /\ [][SkNext]_skVars /\ WF_skVars(SkRun)

-----------------------------------------------------------------------------
SkTypeOK ==
    /\ StakerTypeOK
    /\ ctx \in {"open", "closed"} /\ loop \in {"run", "dead"}
    /\ op \in {"sub", "list", "found", "trigger", "wait", "added", "done"}
    /\ wd \in {"none", "sub", "wait", "trigger", "done"}
    /\ Len(srgtC) <= 1 /\ Len(eventC) <= 1 /\ errorC \in 0 .. 5

Index(e) == {i \in DOMAIN history : history[i] = e}

\* srgtC and eventC have no order: the request to add the staker may be
\* broadcast after the event that it was added, but then its context is
\* already canceled, and it is broadcast at most once.
AddRequestCanceled ==
    /\ Cardinality(Index("add")) <= 1
    /\ \A i \in Index("add"), j \in Index("adding") : j < i => addCtx = "canceled"

\* A withdrawal is asked for once, and only after the staker was reported as
\* added.
WithdrawAfterAdd ==
    /\ Cardinality(Index("withdraw")) <= 1
    /\ \A i \in Index("withdraw") : \E j \in Index("adding") : j < i

\* A staker receipt that appears while the scheduler starts is never missed:
\* the subscription is open before the list is read.
AddedNoticed ==
    (Mine \in known) ~> (Index("adding") # {} \/ ctx = "closed" \/ sctx = "closed")
=============================================================================
