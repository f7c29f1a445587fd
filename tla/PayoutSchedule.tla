--------------------------- MODULE PayoutSchedule ---------------------------
(***************************************************************************)
(* The payout scheduler, src/scheduler/payout: five goroutines that follow *)
(* one payout account of the chain from before its period to the moment    *)
(* its ClosePayout instruction may be sent.                                *)
(*                                                                         *)
(*   clock  loopClock           slot stream        -> eventC, clockPostC   *)
(*   pe     loopPayoutEvent     payout data stream -> eventC, copy of post *)
(*   bid    loopBidSubIsFinal   bid status stream  -> eventC               *)
(*   stake  loopStakeStatus     payout data stream -> eventC               *)
(*   in     loopInternal        eventC -> on_event -> broadcast            *)
(*                                                                         *)
(* eventC is unbuffered: a goroutine that has events to send stays blocked *)
(* until loopInternal takes them one by one.  pend[g] is what goroutine g  *)
(* still has to do before it looks at its channels again.  Once the        *)
(* scheduler's context is done the goroutines end (Done); what a goroutine *)
(* may still do between the two is not visible to anyone and is left out.  *)
(*                                                                         *)
(* The chain is external: its slots, and the instructions of the lifecycle *)
(* listed in src/state/payout/payout.go:29-43.  IsStateChange flags, the   *)
(* payloads and the order inside history are abstracted: count says how    *)
(* often each event has been broadcast.  loopPayoutEvent also waits on     *)
(* clockPeriodStartC, but nothing sends on that channel, so that case      *)
(* (close.go:76-84) never runs and has no action here.                     *)
(***************************************************************************)
EXTENDS Naturals, Sequences

CONSTANTS
    Start,       \* Period.Start
    Length,      \* Period.Length
    PostDelay,   \* PAYOUT_POST_FINISH_DELAY
    MaxSlot,     \* bound on the slots of the chain
    MaxVal,      \* bound on Payout.ValidatorCount
    MaxStk,      \* bound on Payout.StakerCount
    StreamCap,   \* DEFAULT_STREAM_BUFFER_SIZE of package dssub
    MaxGap,      \* bound on the account updates that fall between the
                 \* snapshot pwd.Data and a goroutine's OnData()
    MaxFault,    \* bound on the failures of the slot and bid streams
    Snapshots    \* the account states the scheduler may be started from

Finish == Start + Length - 1
CloseOut == Finish + PostDelay

\* What the scheduler reads of cba.Payout: is the Bids account still there
\* (Bids not util.Zero()), and the two counters.
Data == [open : BOOLEAN, val : 0 .. MaxVal, stk : 0 .. MaxStk]

ASSUME PayoutScheduleAssumption ==
    /\ Start \in Nat \ {0}
    /\ Length \in Nat \ {0}
    /\ PostDelay \in Nat
    /\ MaxSlot \in Nat
    /\ MaxVal \in Nat
    /\ MaxStk \in Nat
    /\ StreamCap \in Nat \ {0}
    /\ MaxGap \in Nat
    /\ MaxFault \in Nat
    /\ Snapshots \subseteq Data

ClockEvents == {"PRE_START", "START", "FINISH", "DELAY_CLOSE"}
DataEvents == {"BID_CLOSED", "VAL_ADDING", "VAL_WITHDRAWN"}
StakeEvents == {"STK_ADDING", "STK_WITHDRAWN"}
Events == ClockEvents \cup DataEvents \cup StakeEvents \cup {"BID_FINAL"}

Triggers == {"CRANK", "CLOSE_BIDS", "CLOSE_PAYOUT", "SET_PAYOUT", "WITHDRAW"}

\* Statements a goroutine runs after a send that are visible to another one:
\* clockPeriodPostC <- ... and cancelExtra().
Steps == {"POST_CLOCK", "CANCEL_EXTRA"}

Routines == {"clock", "pe", "bid", "stake"}
Readers == {"pe", "stake"}

\* The data streams after the Unsubscribe of goroutine g.
Unsubscribed(q, g) == [r \in Readers |-> IF r = g THEN <<>> ELSE q[r]]

VARIABLES
    slot,    \* latest slot of the chain
    data,    \* payout account on the chain
    final,   \* BidList.BiddingFinished on the chain
    gap,     \* updates that happened in a snapshot/subscription gap
    fault,   \* failures of the slot and bid streams so far
    snap,    \* pwd.Data
    pc,      \* "off", "start" (not subscribed yet), "run" or "done"
    pend,    \* what each goroutine has still to send or do
    dq,      \* dataSub.StreamC of pe and stake
    dErr,    \* dataSub.ErrorC of pe and stake holds an error
    bidQ,    \* bidSub.StreamC holds a status with IsFinal
    postC,   \* clockPeriodPostC holds a value
    copyC,   \* clockPeriodPostCopyC holds a value
    extra,   \* pei.ctxExtra is not cancelled
    clk,     \* the sent* variables of loopClock
    pei,     \* payoutEventInfo and newData
    in,      \* the fields of internal
    run      \* "open", "closed" (loop left by itself) or "cancelled"

chain == <<slot, data, final, gap, fault>>
streams == <<dq, dErr, bidQ>>
chans == <<postC, copyC, extra>>
vars == <<slot, data, final, gap, fault, snap, pc, pend, dq, dErr, bidQ,
          postC, copyC, extra, clk, pei, in, run>>

\* Contexts of the broadcast triggers: "none" before the broadcast, then
\* "live" until cancelled, then "done".
CtxState == {"none", "live", "done"}

\* The cancel functions kept in internal.  cancelCrank and cancelCloseBid
\* are non-nil exactly while their trigger's context is live; the other two
\* name the context their function would cancel.
ContextOf == {"nil", "SET_PAYOUT", "WITHDRAW"}

InternalType ==
    [hasStarted : BOOLEAN, hasFinished : BOOLEAN,
     isClockReadyToClose : BOOLEAN, bidIsFinal : BOOLEAN,
     bidHasClosed : BOOLEAN, validatorAddingHasStarted : BOOLEAN,
     validatorHasWithdrawn : BOOLEAN, stakerAddingHasStarted : BOOLEAN,
     stakerAddingIsDone : BOOLEAN, keepPayoutOpen : BOOLEAN,
     ctx : [Triggers -> CtxState], cancelValidatorSetPayout : ContextOf,
     cancelValidatorWithdraw : ContextOf,
     count : [Events \cup Triggers -> Nat]]

Init ==
    /\ slot = 0
    /\ snap \in Snapshots
    /\ data = snap
    /\ final \in BOOLEAN
    /\ ~data.open => final
    /\ gap = 0
    /\ fault = 0
    /\ pc = [g \in Routines |->
               IF g \in {"clock", "pe"} THEN "start" ELSE "off"]
    /\ pend = [g \in Routines |-> <<>>]
    /\ dq = [r \in Readers |-> <<>>]
    /\ dErr = [r \in Readers |-> FALSE]
    /\ bidQ = FALSE
    /\ postC = FALSE
    /\ copyC = FALSE
    /\ extra = TRUE
    /\ clk = [start |-> FALSE, pre |-> FALSE, finish |-> FALSE,
              close |-> FALSE]
    /\ pei = [bidsAreClosed |-> FALSE, validatorHasAdded |-> FALSE,
              validatorHasWithdrawn |-> FALSE, postDelayClockPast |-> FALSE,
              newData |-> snap]
    /\ in = [hasStarted |-> FALSE, hasFinished |-> FALSE,
             isClockReadyToClose |-> FALSE, bidIsFinal |-> FALSE,
             bidHasClosed |-> FALSE, validatorAddingHasStarted |-> FALSE,
             validatorHasWithdrawn |-> FALSE,
             stakerAddingHasStarted |-> FALSE, stakerAddingIsDone |-> FALSE,
             keepPayoutOpen |-> TRUE,
             ctx |-> [t \in Triggers |-> "none"],
             cancelValidatorSetPayout |-> "nil",
             cancelValidatorWithdraw |-> "nil",
             count |-> [e \in Events \cup Triggers |-> 0]]
    /\ run = "open"

-----------------------------------------------------------------------------
(* The chain and the state packages that relay it (external).  What they   *)
(* do after the scheduler has ended is not followed.                       *)

Tick ==
    /\ run = "open" /\ slot < MaxSlot
    /\ slot' = slot + 1
    /\ UNCHANGED <<data, final, gap, fault, snap, pc, pend, dq, dErr, bidQ,
                   postC, copyC, extra, clk, pei, in, run>>

\* Mutant: the broadcast does not look at the capacity of the streams.
DeliverUnbounded(d) ==
    /\ run = "open"
    /\ dq' = [r \in Readers |->
                IF pc[r] = "run" THEN Append(dq[r], d) ELSE dq[r]]
    /\ UNCHANGED <<dErr, gap>>

\* payoutHome.Broadcast(d): every subscribed goroutine gets d, or is thrown
\* out with an error when its stream is full.
Deliver(d) ==
    /\ run = "open"
    /\ dq' = [r \in Readers |->
                IF pc[r] = "run" /\ ~dErr[r] /\ Len(dq[r]) < StreamCap
                THEN Append(dq[r], d) ELSE dq[r]]
    /\ dErr' = [r \in Readers |->
                  dErr[r] \/ (pc[r] = "run" /\ Len(dq[r]) >= StreamCap)]
    /\ LET missed == IF pc["pe"] = "start" \/ pc["stake"] = "start"
                     THEN 1 ELSE 0
       IN  gap + missed <= MaxGap /\ gap' = gap + missed

ChainFrame == UNCHANGED <<slot, fault, snap, pc, pend, postC, copyC, extra,
                          clk, pei, in, run>>

\* ValidatorSetPayout: accepted by the program until the period starts.
ChainSetPayout ==
    /\ slot < Start /\ data.val < MaxVal /\ data.open
    /\ data' = [data EXCEPT !.val = @ + 1]
    /\ Deliver(data')
    /\ UNCHANGED <<final, bidQ>> /\ ChainFrame

ChainValidatorWithdraw ==
    /\ slot >= Start /\ data.val > 0
    /\ data' = [data EXCEPT !.val = @ - 1]
    /\ Deliver(data')
    /\ UNCHANGED <<final, bidQ>> /\ ChainFrame

ChainStakerAdd ==
    /\ slot >= Start /\ slot < Finish /\ data.stk < MaxStk /\ data.val > 0
    /\ data' = [data EXCEPT !.stk = @ + 1]
    /\ Deliver(data')
    /\ UNCHANGED <<final, bidQ>> /\ ChainFrame

ChainStakerWithdraw ==
    /\ slot >= Finish /\ data.stk > 0
    /\ data' = [data EXCEPT !.stk = @ - 1]
    /\ Deliver(data')
    /\ UNCHANGED <<final, bidQ>> /\ ChainFrame

\* Crank: the bid list becomes final and its status is broadcast.
ChainCrank ==
    /\ run = "open" /\ slot >= Start /\ ~final
    /\ final' = TRUE
    /\ bidQ' = (bidQ \/ pc["bid"] = "run")
    /\ UNCHANGED <<data, gap, dq, dErr>> /\ ChainFrame

\* CloseBids: state/payout's on_data broadcasts the blank bid status, which
\* has IsFinal set, and then the account without its Bids.
ChainCloseBids ==
    /\ slot >= Finish /\ final /\ data.open
    /\ data' = [data EXCEPT !.open = FALSE]
    /\ Deliver(data')
    /\ bidQ' = (bidQ \/ pc["bid"] = "run")
    /\ UNCHANGED final /\ ChainFrame

-----------------------------------------------------------------------------
(* loopClock                                                               *)

\* One pass of loopClock with slot s, which remembers PRE_START if keep.
ClockPass(s, keep) ==
    /\ pc["clock"] \in {"start", "run"} /\ pend["clock"] = <<>>
    /\ run = "open"
    /\ LET start == ~clk.start /\ Start <= s
           pre == ~clk.pre /\ s < Start
           finish == ~clk.finish /\ Finish <= s
           close == ~clk.close /\ CloseOut <= s
           If(b, q) == IF b THEN q ELSE <<>>
       IN  /\ clk' = [start |-> clk.start \/ start,
                      pre |-> clk.pre \/ (keep /\ pre),
                      finish |-> clk.finish \/ finish,
                      close |-> clk.close \/ close]
           /\ pend' = [pend EXCEPT !["clock"] =
                         If(start, <<"START">>) \o If(pre, <<"PRE_START">>)
                         \o If(finish, <<"FINISH">>)
                         \o If(close, <<"DELAY_CLOSE", "POST_CLOCK">>)]
    /\ pc' = [pc EXCEPT !["clock"] = "run"]
    /\ UNCHANGED <<chain, snap, streams, chans, pei, in, run>>

\* Mutant: sentPreStart is never set.
ClockTickForgets(s) == ClockPass(s, FALSE)

\* slotSub.StreamC delivers slot s.  SlotHome skips slots and can go back
\* to an older one after its poll of the finalized slot, so s is any slot.
ClockTick(s) == ClockPass(s, TRUE)

\* clockPeriodPostC <- isCloseStateTransition; the loop is over.
ClockPost ==
    /\ run = "open"
    /\ pend["clock"] # <<>> /\ Head(pend["clock"]) = "POST_CLOCK"
    /\ postC' = TRUE
    /\ pend' = [pend EXCEPT !["clock"] = <<>>]
    /\ pc' = [pc EXCEPT !["clock"] = "done"]
    /\ UNCHANGED <<chain, snap, streams, copyC, extra, clk, pei, in, run>>

\* slotSub.ErrorC: the clock ends; its error goes to errorC, which
\* loopInternal of this package never reads.
ClockError ==
    /\ run = "open" /\ fault < MaxFault
    /\ pc["clock"] \in {"start", "run"} /\ pend["clock"] = <<>>
    /\ fault' = fault + 1
    /\ pc' = [pc EXCEPT !["clock"] = "done"]
    /\ UNCHANGED <<slot, data, final, gap, snap, pend, streams, chans, clk,
                   pei, in, run>>

-----------------------------------------------------------------------------
(* loopPayoutEvent                                                         *)

\* The select of loopPayoutEvent: reached with nothing left to send, and
\* only while the loop condition holds.
PEWaits ==
    /\ pc["pe"] = "run" /\ pend["pe"] = <<>> /\ run = "open"
    /\ ~(pei.bidsAreClosed /\ pei.validatorHasWithdrawn)

\* OnData() and the code before the loop, which works on the snapshot.
PEStart ==
    /\ pc["pe"] = "start" /\ run = "open"
    /\ pei' = [pei EXCEPT !.bidsAreClosed = ~snap.open,
                          !.validatorHasAdded = snap.val > 0]
    /\ pend' = [pend EXCEPT !["pe"] =
                  IF snap.open THEN <<>> ELSE <<"BID_CLOSED", "CANCEL_EXTRA">>]
    /\ pc' = [g \in Routines |->
                IF g = "pe" THEN "run"
                ELSE IF g \in {"bid", "stake"} /\ snap.open THEN "start"
                ELSE pc[g]]
    /\ UNCHANGED <<chain, snap, streams, chans, clk, in, run>>

\* newData = <-dataSub.StreamC
PEData ==
    /\ PEWaits /\ dq["pe"] # <<>>
    /\ LET d == Head(dq["pe"])
           close == ~pei.bidsAreClosed /\ ~d.open
           add == ~pei.validatorHasAdded /\ d.val > 0
           added == pei.validatorHasAdded \/ add
           withdraw == added /\ ~pei.validatorHasWithdrawn /\ d.val = 0
           If(b, q) == IF b THEN q ELSE <<>>
       IN  /\ pei' = [pei EXCEPT
                        !.newData = d,
                        !.bidsAreClosed = @ \/ close,
                        !.validatorHasAdded = added,
                        !.validatorHasWithdrawn = @ \/ withdraw]
           /\ pend' = [pend EXCEPT !["pe"] =
                         If(close, <<"BID_CLOSED", "CANCEL_EXTRA">>)
                         \o If(add, <<"VAL_ADDING">>)
                         \o If(withdraw, <<"VAL_WITHDRAWN">>)]
    /\ dq' = [dq EXCEPT !["pe"] = Tail(@)]
    /\ UNCHANGED <<chain, snap, pc, dErr, bidQ, chans, clk, in, run>>

\* Mutant: nobody is reported when no validator has added itself.
NobodyAddedNever == FALSE

\* The condition of close.go:87: no validator has added itself.
NobodyAdded ==
    ~pei.postDelayClockPast /\ ~pei.validatorHasAdded /\ pei.newData.val = 0

\* <-clockPeriodPostC
PEPost ==
    /\ PEWaits /\ postC /\ ~copyC
    /\ postC' = FALSE
    /\ copyC' = TRUE
    /\ LET withdraw == NobodyAdded
       IN  /\ pei' = [pei EXCEPT !.postDelayClockPast = TRUE,
                                 !.validatorHasWithdrawn = @ \/ withdraw]
           /\ pend' = [pend EXCEPT !["pe"] =
                         IF withdraw THEN <<"VAL_WITHDRAWN">> ELSE <<>>]
    /\ UNCHANGED <<chain, snap, pc, streams, extra, clk, in, run>>

\* pei.cancelExtra(), after BID_CLOSED has been taken.
PECancelExtra ==
    /\ run = "open"
    /\ pend["pe"] # <<>> /\ Head(pend["pe"]) = "CANCEL_EXTRA"
    /\ extra' = FALSE
    /\ pend' = [pend EXCEPT !["pe"] = Tail(@)]
    /\ UNCHANGED <<chain, snap, pc, streams, postC, copyC, clk, pei, in, run>>

\* The loop ends: both facts are known, or the data stream has failed.  The
\* deferred cancelExtra() and Unsubscribe run in either case.
PEExit ==
    /\ pc["pe"] = "run" /\ pend["pe"] = <<>> /\ run = "open"
    /\ \/ pei.bidsAreClosed /\ pei.validatorHasWithdrawn
       \/ dErr["pe"]
    /\ pc' = [pc EXCEPT !["pe"] = "done"]
    /\ extra' = FALSE
    /\ dq' = Unsubscribed(dq, "pe")
    /\ UNCHANGED <<chain, snap, pend, dErr, bidQ, postC, copyC, clk, pei, in,
                   run>>

-----------------------------------------------------------------------------
(* loopBidSubIsFinal                                                       *)

\* OnBidStatus() and BidStatus().  The latter returns as soon as it receives
\* the nil error that is sent before the answer, so it may return the zero
\* BidStatus instead of the real one.
BidStart ==
    /\ run = "open"
    /\ pc["bid"] = "start"
    /\ \E isFinal \in {FALSE, final} :
          pend' = [pend EXCEPT !["bid"] =
                     IF isFinal THEN <<"BID_FINAL">> ELSE <<>>]
    /\ pc' = [pc EXCEPT !["bid"] = "run"]
    /\ UNCHANGED <<chain, snap, streams, chans, clk, pei, in, run>>

\* bs = <-bidSub.StreamC with bs.IsFinal; others change nothing.
BidStatus ==
    /\ run = "open"
    /\ pc["bid"] = "run" /\ pend["bid"] = <<>> /\ bidQ
    /\ bidQ' = FALSE
    /\ pend' = [pend EXCEPT !["bid"] = <<"BID_FINAL">>]
    /\ UNCHANGED <<chain, snap, pc, dq, dErr, chans, clk, pei, in, run>>

\* BidStatus() fails or the bid stream does: the goroutine ends.
BidError ==
    /\ run = "open" /\ fault < MaxFault
    /\ pc["bid"] \in {"start", "run"} /\ pend["bid"] = <<>>
    /\ fault' = fault + 1
    /\ pc' = [pc EXCEPT !["bid"] = "done"]
    /\ bidQ' = FALSE
    /\ UNCHANGED <<slot, data, final, gap, snap, pend, dq, dErr, chans, clk,
                   pei, in, run>>

-----------------------------------------------------------------------------
(* loopStakeStatus.  Its loop runs only while no staker has been seen.     *)

StakeStart ==
    /\ run = "open"
    /\ pc["stake"] = "start"
    /\ pend' = [pend EXCEPT !["stake"] =
                  IF snap.stk > 0 THEN <<"STK_ADDING">> ELSE <<>>]
    /\ pc' = [pc EXCEPT !["stake"] = "run"]
    /\ UNCHANGED <<chain, snap, streams, chans, clk, pei, in, run>>

StakeData ==
    /\ run = "open"
    /\ pc["stake"] = "run" /\ pend["stake"] = <<>> /\ dq["stake"] # <<>>
    /\ pend' = [pend EXCEPT !["stake"] =
                  IF Head(dq["stake"]).stk > 0 THEN <<"STK_ADDING">>
                                               ELSE <<>>]
    /\ dq' = [dq EXCEPT !["stake"] = Tail(@)]
    /\ UNCHANGED <<chain, snap, pc, dErr, bidQ, chans, clk, pei, in, run>>

\* <-clockPostDelayC with no staker seen.
StakePost ==
    /\ run = "open"
    /\ pc["stake"] = "run" /\ pend["stake"] = <<>> /\ copyC
    /\ copyC' = FALSE
    /\ pend' = [pend EXCEPT !["stake"] = <<"STK_WITHDRAWN">>]
    /\ UNCHANGED <<chain, snap, pc, streams, postC, extra, clk, pei, in, run>>

StakeError ==
    /\ run = "open"
    /\ pc["stake"] = "run" /\ pend["stake"] = <<>> /\ dErr["stake"]
    /\ pc' = [pc EXCEPT !["stake"] = "done"]
    /\ dq' = Unsubscribed(dq, "stake")
    /\ UNCHANGED <<chain, snap, pend, dErr, bidQ, chans, clk, pei, in, run>>

\* <-doneC of ctxExtra, in the loop or instead of a send.
ExtraDone(g) ==
    /\ run = "open"
    /\ g \in {"bid", "stake"} /\ pc[g] \in {"start", "run"} /\ ~extra
    /\ pc' = [pc EXCEPT ![g] = "done"]
    /\ pend' = [pend EXCEPT ![g] = <<>>]
    /\ dq' = Unsubscribed(dq, g)
    /\ bidQ' = (bidQ /\ g # "bid")
    /\ UNCHANGED <<chain, snap, dErr, chans, clk, pei, in, run>>

-----------------------------------------------------------------------------
(* loopInternal: on_event and the functions it calls, as transformers of   *)
(* the record of internal's fields.                                        *)

broadcast(i, e) == [i EXCEPT !.count[e] = @ + 1]

run_crank(i) ==
    IF ~i.hasStarted \/ i.bidIsFinal \/ i.bidHasClosed \/ i.ctx["CRANK"] = "live"
    THEN i
    ELSE broadcast([i EXCEPT !.ctx["CRANK"] = "live"], "CRANK")

run_close_bids(i) ==
    IF i.bidHasClosed \/ i.ctx["CLOSE_BIDS"] = "live"
    THEN i
    ELSE broadcast([i EXCEPT !.ctx["CLOSE_BIDS"] = "live"], "CLOSE_BIDS")

\* Mutants: the clock, or the validators, are not waited for.
ClosePayoutEarly(i) ==
    IF ~i.bidHasClosed \/ ~i.validatorHasWithdrawn
    THEN i
    ELSE broadcast([i EXCEPT !.keepPayoutOpen = FALSE], "CLOSE_PAYOUT")
ClosePayoutUnchecked(i) ==
    IF ~i.bidHasClosed \/ ~i.isClockReadyToClose
    THEN i
    ELSE broadcast([i EXCEPT !.keepPayoutOpen = FALSE], "CLOSE_PAYOUT")

run_close_payout(i) ==
    IF ~i.bidHasClosed \/ ~i.isClockReadyToClose \/ ~i.validatorHasWithdrawn
    THEN i
    ELSE broadcast([i EXCEPT !.keepPayoutOpen = FALSE], "CLOSE_PAYOUT")

\* The cancel function of the new context is stored in
\* cancelValidatorWithdraw (run.go:115).
run_validator_set_payout(i) ==
    IF i.hasStarted \/ i.cancelValidatorSetPayout # "nil"
    THEN i
    ELSE broadcast([i EXCEPT !.ctx["SET_PAYOUT"] = "live",
                             !.cancelValidatorWithdraw = "SET_PAYOUT"],
                   "SET_PAYOUT")

run_validator_withdraw(i) ==
    IF i.validatorHasWithdrawn
    THEN i
    ELSE broadcast([i EXCEPT !.ctx["WITHDRAW"] = "live",
                             !.cancelValidatorWithdraw = "WITHDRAW"],
                   "WITHDRAW")

on_pre_start(i) == IF i.hasStarted THEN i ELSE run_validator_set_payout(i)

\* Mutant: hasStarted is not recorded.
StartUnrecorded(i) == IF i.bidIsFinal THEN i ELSE run_crank(i)

on_start(i) ==
    LET started == [i EXCEPT !.hasStarted = TRUE]
        cancelled == IF i.cancelValidatorSetPayout = "nil" THEN started
                     ELSE [started EXCEPT
                             !.ctx[i.cancelValidatorSetPayout] = "done"]
    IN  IF i.bidIsFinal THEN cancelled ELSE run_crank(cancelled)

on_finish(i) ==
    LET j == IF i.hasStarted THEN i ELSE on_start(i)
        finished == [j EXCEPT !.hasFinished = TRUE]
    IN  IF finished.bidHasClosed THEN finished ELSE run_close_bids(finished)

on_clock_close_payout(i) ==
    LET j == IF i.hasFinished THEN i ELSE on_finish(i)
    IN  run_close_payout([j EXCEPT !.isClockReadyToClose = TRUE])

Cancelled(i, t) ==
    IF i.ctx[t] = "live" THEN [i EXCEPT !.ctx[t] = "done"] ELSE i

on_bid_final(i) == Cancelled([i EXCEPT !.bidIsFinal = TRUE], "CRANK")

\* Mutant: the CLOSE_BIDS trigger is left running.
BidClosedNoCancel(i) ==
    run_close_payout([i EXCEPT !.bidIsFinal = TRUE, !.bidHasClosed = TRUE])

on_bid_closed(i) ==
    run_close_payout(Cancelled([i EXCEPT !.bidIsFinal = TRUE,
                                         !.bidHasClosed = TRUE],
                               "CLOSE_BIDS"))

on_validator_is_adding(i) == [i EXCEPT !.validatorAddingHasStarted = TRUE]

on_validator_have_withdrawn(i) ==
    run_close_payout([i EXCEPT !.validatorAddingHasStarted = TRUE,
                               !.validatorHasWithdrawn = TRUE])

on_staker_is_adding(i) == [i EXCEPT !.stakerAddingHasStarted = TRUE]

on_staker_have_withdrawn(i) ==
    run_validator_withdraw([i EXCEPT !.stakerAddingHasStarted = TRUE,
                                     !.stakerAddingIsDone = TRUE])

Handle(i, e) ==
    CASE e = "PRE_START"     -> on_pre_start(i)
      [] e = "START"         -> on_start(i)
      [] e = "FINISH"        -> on_finish(i)
      [] e = "DELAY_CLOSE"   -> on_clock_close_payout(i)
      [] e = "BID_CLOSED"    -> on_bid_closed(i)
      [] e = "BID_FINAL"     -> on_bid_final(i)
      [] e = "VAL_ADDING"    -> on_validator_is_adding(i)
      [] e = "VAL_WITHDRAWN" -> on_validator_have_withdrawn(i)
      [] e = "STK_ADDING"    -> on_staker_is_adding(i)
      [] e = "STK_WITHDRAWN" -> on_staker_have_withdrawn(i)

\* An event is not a trigger, so on_event always broadcasts it after its
\* handler.
on_event(i, e) == broadcast(Handle(i, e), e)

\* The deferred cancel() ends every context derived from in.ctx.
CancelAll(i) ==
    [i EXCEPT !.ctx = [t \in Triggers |->
                         IF i.ctx[t] = "live" THEN "done" ELSE i.ctx[t]]]

\* Routines that end with the send of this event: loopBidSubIsFinal after
\* BID_FINAL, loopStakeStatus after either of its events.
EndsRoutine(g) == g \in {"bid", "stake"}

\* case event := <-eventC, and the end of the loop when keepPayoutOpen falls.
Accept(g) ==
    /\ run = "open"
    /\ pend[g] # <<>> /\ Head(pend[g]) \in Events
    /\ LET i == on_event(in, Head(pend[g])) IN
       /\ in' = IF i.keepPayoutOpen THEN i ELSE CancelAll(i)
       /\ run' = IF i.keepPayoutOpen THEN "open" ELSE "closed"
    /\ pend' = [pend EXCEPT ![g] = Tail(@)]
    /\ pc' = [pc EXCEPT ![g] = IF EndsRoutine(g) THEN "done" ELSE @]
    /\ dq' = IF EndsRoutine(g) THEN Unsubscribed(dq, g) ELSE dq
    /\ bidQ' = (bidQ /\ g # "bid")
    /\ UNCHANGED <<chain, snap, dErr, chans, clk, pei>>

\* The agent cancels the scheduler's context.
Cancel ==
    /\ run = "open"
    /\ run' = "cancelled"
    /\ in' = CancelAll(in)
    /\ UNCHANGED <<chain, snap, pc, pend, streams, chans, clk, pei>>

\* <-doneC in every goroutine once the scheduler's context is done.
Done ==
    /\ run # "open" /\ \E g \in Routines : pc[g] # "done"
    /\ pc' = [g \in Routines |-> "done"]
    /\ pend' = [g \in Routines |-> <<>>]
    /\ UNCHANGED <<chain, snap, streams, chans, clk, pei, in, run>>

-----------------------------------------------------------------------------
Chain ==
    \/ Tick
    \/ ChainSetPayout
    \/ ChainValidatorWithdraw
    \/ ChainStakerAdd
    \/ ChainStakerWithdraw
    \/ ChainCrank
    \/ ChainCloseBids

Clock == (\E s \in 1 .. slot : ClockTick(s)) \/ ClockPost \/ ClockError

PayoutEvent == PEStart \/ PEData \/ PEPost \/ PECancelExtra \/ PEExit

Bid == BidStart \/ BidStatus \/ BidError

Stake == StakeStart \/ StakeData \/ StakePost \/ StakeError

Internal == \E g \in Routines : Accept(g)

Next ==
    \/ Chain \/ Clock \/ PayoutEvent \/ Bid \/ Stake \/ Internal
    \/ Cancel
    \/ Done
    \/ \E g \in Routines : ExtraDone(g)

Spec == Init /\ [][Next]_vars

\* Go schedules every runnable goroutine; a select with several ready cases
\* picks each of them again and again, hence strong fairness where a case
\* can be overtaken.  The slot stream keeps delivering the latest slot.
CodeFairness ==
    /\ WF_vars(slot > 0 /\ ClockTick(slot)) /\ WF_vars(ClockPost)
    /\ WF_vars(PEStart) /\ WF_vars(PEData) /\ SF_vars(PEPost)
    /\ WF_vars(PECancelExtra) /\ WF_vars(PEExit)
    /\ WF_vars(BidStart) /\ WF_vars(BidStatus)
    /\ WF_vars(StakeStart) /\ WF_vars(StakeData) /\ SF_vars(StakePost)
    /\ \A g \in Routines :
          SF_vars(Accept(g)) /\ WF_vars(ExtraDone(g))
    /\ WF_vars(Done)

\* Slots pass, and the other parties do their part of the lifecycle.
ChainFairness ==
    /\ WF_vars(Tick) /\ WF_vars(ChainCrank) /\ WF_vars(ChainCloseBids)
    /\ WF_vars(ChainValidatorWithdraw) /\ WF_vars(ChainStakerWithdraw)

FairSpec == Spec /\ CodeFairness /\ ChainFairness

-----------------------------------------------------------------------------
\* The variables hold values of the shapes the Go types allow, and no stream
\* holds more than its capacity.
TypeOK ==
    /\ slot \in 0 .. MaxSlot
    /\ data \in Data
    /\ final \in BOOLEAN
    /\ gap \in 0 .. MaxGap
    /\ fault \in 0 .. MaxFault
    /\ snap \in Data
    /\ pc \in [Routines -> {"off", "start", "run", "done"}]
    /\ pend \in [Routines -> Seq(Events \cup Steps)]
    /\ dq \in [Readers -> Seq(Data)]
    /\ \A r \in Readers : Len(dq[r]) <= StreamCap
    /\ dErr \in [Readers -> BOOLEAN]
    /\ bidQ \in BOOLEAN
    /\ postC \in BOOLEAN
    /\ copyC \in BOOLEAN
    /\ extra \in BOOLEAN
    /\ clk \in [start : BOOLEAN, pre : BOOLEAN, finish : BOOLEAN,
                close : BOOLEAN]
    /\ pei \in [bidsAreClosed : BOOLEAN, validatorHasAdded : BOOLEAN,
                validatorHasWithdrawn : BOOLEAN,
                postDelayClockPast : BOOLEAN, newData : Data]
    /\ in \in InternalType
    /\ run \in {"open", "closed", "cancelled"}

\* A trigger tells an agent to send an instruction now: none is broadcast
\* before the chain can accept the instruction.  Cranking needs the period
\* to have started, closing the bids needs it to be over, and closing the
\* payout needs PAYOUT_POST_FINISH_DELAY to have passed and the bids to be
\* closed.
TriggersTimely ==
    /\ in.count["CRANK"] > 0 => slot >= Start
    /\ in.count["CLOSE_BIDS"] > 0 => slot >= Finish
    /\ in.count["CLOSE_PAYOUT"] > 0 => slot >= CloseOut /\ ~data.open

\* "this function must only be called once!" (run.go:34, 76): whatever the
\* interleaving of the four goroutines, an agent is told at most once to
\* send each instruction.
TriggersOnce == \A t \in Triggers : in.count[t] <= 1

\* The scheduler closes itself only with a complete history: every clock
\* event, the end of the bids and the withdrawal of the validators have been
\* broadcast, each once.
ClosedHistory ==
    run = "closed" =>
        \A e \in {"START", "FINISH", "DELAY_CLOSE", "BID_CLOSED",
                   "VAL_WITHDRAWN", "CLOSE_PAYOUT"} : in.count[e] = 1

\* Agents retry a trigger until its context is done (run.go:14, "Done()
\* triggered when window to execute disappears").  The context of CLOSE_BIDS
\* is done once the bids are known to be closed, and every context is done
\* once the scheduler has ended.  The context of CRANK is done once the bids
\* are known to be final, with one exception: on_bid_closed sets bidIsFinal
\* without calling cancelCrank, so that a scheduler that hears of the closing
\* and not of BID_FINAL leaves the agents cranking a payout whose window is
\* gone.
RetriesStop ==
    /\ in.bidHasClosed => in.ctx["CLOSE_BIDS"] # "live"
    /\ in.bidIsFinal /\ in.ctx["CRANK"] = "live" =>
          in.bidHasClosed /\ in.count["BID_FINAL"] = 0
    /\ run # "open" => \A t \in Triggers : in.ctx[t] # "live"

\* Validators are never invited (SET_PAYOUT) once subscribers have been told
\* that the period has started, even when the slot stream goes backwards.
NoLateInvitation ==
    [][in'.count["SET_PAYOUT"] > in.count["SET_PAYOUT"]
         => in.count["START"] = 0 /\ in'.count["START"] = 0]_vars

\* Once the bids are closed, the validators have withdrawn and the delay has
\* passed, the ClosePayout instruction is triggered (lifecycle step 11 of
\* src/state/payout/payout.go:40), unless the agent cancels the scheduler.
ClosesEventually == <>(run # "open")
=============================================================================
