------------------------------ MODULE Pricing ------------------------------
(***************************************************************************)
(* The price recorder of src/state/pricing and the SQLite store of         *)
(* src/ds/ts/lite that it writes to.  loopInternal starts a goroutine      *)
(* loopPipeline per pipeline, which starts a goroutine loopPayout per      *)
(* payout; they hand what they hear to loopInternal over channels without  *)
(* buffer, and every statement that the store refuses ends the recorder:   *)
(* the first slot does, since TimeAppend always fails, so that in.slot is  *)
(* zero all the time.                                                      *)
(*                                                                         *)
(* The calls to the state objects of the pipeline and its payouts          *)
(* (OnData(), Data(), OnBidStatus(), BidStatus() ...) are answered; they   *)
(* fail, as they may once the object has ended; or they hang, the request  *)
(* left in a channel of the ended object that nobody reads any more.  An   *)
(* object may have ended whenever it is called.                            *)
(***************************************************************************)
EXTENDS TimeSeries, Sequences, SequencesExt

CONSTANTS
    PrPayouts,   \* payouts of the pipeline that the model follows
    PrErrCap     \* capacity of errorC (10)

ASSUME PricingAssumption == IsFiniteSet(PrPayouts) /\ PrErrCap \in Nat

PrNone == "none"
PrPipe == "pipeline"

VARIABLES
    prctx,       \* context of the recorder
    prloop,      \* loopInternal: "run", "self" (blocked on its own errorC),
                 \* "hang" (in a call to an object that has ended), "dead"
    prerrs,      \* number of errors in errorC
    prdb,        \* the store
    prmap,       \* the pipeline is in pipelineM
    prline,      \* loopPipeline: "none", "sub", "run", "ask" (in BidStatus());
                 \* blocked on "period", "stake", "data", "close" (dataC at the
                 \* end), "fail" and "report" (errorC, with and without doneC);
                 \* "dead"
    prcancel,    \* its context
    prlist,      \* what is left of AllPayouts
    prtodo,      \* its subscription to payouts
    prseen,      \* its payoutM
    prhold,      \* the payout that it asks and hands over
    prpay,       \* each loopPayout: "none", "read" (in OnBidStatus() and
                 \* BidStatus()), "send", "run", "report", "dead"
    prexist,     \* payouts of the pipeline
    prsent       \* (history) how often each payout was handed to PayoutAppend

priceVars == <<prctx, prloop, prerrs, prdb, prmap, prline, prcancel, prlist, prtodo,
               prseen, prhold, prpay, prexist, prsent>>

PrInit ==
    /\ prctx = "open" /\ prloop = "run" /\ prerrs = 0
    /\ prdb = EmptyStore
    /\ prmap = FALSE /\ prline = "none" /\ prcancel = "open"
    /\ prlist = <<>> /\ prtodo = <<>> /\ prseen = {} /\ prhold = PrNone
    /\ prpay = [x \in PrPayouts |-> "none"]
    /\ prexist \in SUBSET PrPayouts
    /\ prsent = [x \in PrPayouts |-> 0]

PrDone ==
    /\ prctx = "open" /\ prctx' = "done"
    /\ UNCHANGED <<prloop, prerrs, prdb, prmap, prline, prcancel, prlist, prtodo,
                   prseen, prhold, prpay, prexist, prsent>>

PrCanceled == prctx = "done" \/ prcancel = "done"

\* A new payout reaches the subscription of loopPipeline.
PrChainPayout(x) ==
    /\ x \notin prexist /\ prexist' = prexist \cup {x}
    /\ prtodo' = IF prline \in {"none", "dead"} THEN prtodo ELSE Append(prtodo, x)
    /\ UNCHANGED <<prctx, prloop, prerrs, prdb, prmap, prline, prcancel,
                   prlist, prseen, prhold, prpay, prsent>>

-----------------------------------------------------------------------------
(* loopInternal.                                                           *)

\* finish: the pipelines of pipelineM are canceled.
finish == prloop' = "dead" /\ prcancel' = IF prmap THEN "done" ELSE prcancel

\* A statement of the store; if it is refused the loop ends.
Statement(outcomes) ==
    \E o \in outcomes :
        /\ prdb' = o.db
        /\ IF o.ok THEN UNCHANGED <<prloop, prcancel>> ELSE finish

\* in.errorC <- err from loopInternal itself.
PrSelfReport ==
    IF prerrs < PrErrCap THEN prerrs' = prerrs + 1 /\ UNCHANGED prloop
    ELSE prloop' = "self" /\ UNCHANGED prerrs

\* A call that does not come back.
PrHangs == prloop' = "hang" /\ UNCHANGED prerrs

\* PipelineAdd, then on_pipeline, whose Data() may fail, or wait for ever at a
\* pipeline that has ended.
on_pipeline ==
    /\ prloop = "run"
    /\ \E o \in PipelineAdd(prdb, PrPipe) :
        /\ prdb' = o.db
        /\ IF o.ok
           THEN /\ \/ prmap' = TRUE /\ prline' = "sub" /\ UNCHANGED <<prloop, prerrs>>
                   \/ PrSelfReport /\ UNCHANGED <<prmap, prline>>
                   \/ PrHangs /\ UNCHANGED <<prmap, prline>>
                /\ UNCHANGED prcancel
           ELSE finish /\ UNCHANGED <<prerrs, prmap, prline>>
    /\ UNCHANGED <<prctx, prlist, prtodo, prseen, prhold, prpay, prexist, prsent>>

\* on_period: it returns at once for a blank period, a payout it has or a
\* pipeline that left pipelineM; otherwise it calls BidStatus().
on_period ==
    \/ UNCHANGED <<prloop, prerrs>>
    \/ PrSelfReport
    \/ PrHangs

\* periodC: PayoutAppend, then on_period.
OnPeriod ==
    /\ prloop = "run" /\ prline = "period"
    /\ prsent' = [prsent EXCEPT ![prhold] = @ + 1]
    /\ \E o \in PayoutAppend(prdb, prhold) :
        /\ prdb' = o.db
        /\ IF o.ok THEN on_period /\ UNCHANGED prcancel
           ELSE finish /\ UNCHANGED prerrs
    /\ prline' = "run" /\ prhold' = PrNone
    /\ UNCHANGED <<prctx, prmap, prlist, prtodo, prseen, prpay, prexist>>

\* stakeC
PrOnStake ==
    /\ prloop = "run" /\ prline = "stake" /\ prline' = "run"
    /\ Statement(StakeAppend(prdb, 0, PrPipe))
    /\ UNCHANGED <<prctx, prerrs, prmap, prlist, prtodo, prseen, prhold, prpay,
                   prexist, prsent>>

\* pipelineDataC: new data is kept in pipelineM, a closed pipeline leaves it.
OnPipelineData ==
    /\ prloop = "run" /\ prline \in {"data", "close"}
    /\ IF prline = "data" THEN prline' = "run" /\ UNCHANGED <<prmap, prcancel>>
       ELSE prline' = "dead" /\ prmap' = FALSE /\ prcancel' = "done"
    /\ UNCHANGED <<prctx, prloop, prerrs, prdb, prlist, prtodo, prseen, prhold,
                   prpay, prexist, prsent>>

\* networkSub.StreamC
PrOnNetwork ==
    /\ prloop = "run"
    /\ Statement(NetworkAppend(prdb, 0))
    /\ UNCHANGED <<prctx, prerrs, prmap, prline, prlist, prtodo, prseen, prhold,
                   prpay, prexist, prsent>>

\* bidC
OnBid(x) ==
    /\ prloop = "run" /\ prpay[x] = "send"
    /\ prpay' = [prpay EXCEPT ![x] = "run"]
    /\ Statement(BidAppend(prdb, x))
    /\ UNCHANGED <<prctx, prerrs, prmap, prline, prlist, prtodo, prseen, prhold,
                   prexist, prsent>>

\* slotSub.StreamC: slotMax is zero, so time rows are wanted.
PrOnSlot ==
    /\ prloop = "run"
    /\ Statement(TimeAppend(prdb, 10000))
    /\ UNCHANGED <<prctx, prerrs, prmap, prline, prlist, prtodo, prseen, prhold,
                   prpay, prexist, prsent>>

\* doneC, errorC or a lost subscription.
PrEnds(why) ==
    /\ prloop = "run"
    /\ CASE why = "done" -> prctx = "done" /\ UNCHANGED prerrs
         [] why = "error" -> prerrs > 0 /\ prerrs' = prerrs - 1
         [] why = "lost" -> UNCHANGED prerrs
    /\ finish
    /\ UNCHANGED <<prctx, prdb, prmap, prline, prlist, prtodo, prseen, prhold, prpay,
                   prexist, prsent>>

-----------------------------------------------------------------------------
(* loopPipeline.                                                           *)

\* Subscriptions first, then AllPayouts: a payout in between comes twice.  At a
\* pipeline that has ended AllPayouts fails, and OnData(), OnPayout() and
\* OnRelativeStake() wait for ever unless ReqC is full: then the subscription
\* holds an error, as one that is lost.
LineList ==
    /\ prline = "sub"
    /\ prline' \in {"run", "fail"}
    /\ prlist' \in IF prline' = "run" THEN SetToSeqs(prexist) ELSE {<<>>}
    /\ UNCHANGED <<prctx, prloop, prerrs, prdb, prmap, prcancel, prtodo,
                   prseen, prhold, prpay, prexist, prsent>>

\* Mutant: a payout is taken as often as it comes.
LineTakesAll(x) == TRUE

\* _, present := payoutM[id]
LineTakes(x) == x \notin prseen

\* The next payout: loopPayout is started and BidStatus() is called.
LinePayout ==
    /\ prline = "run" /\ prlist \o prtodo # <<>>
    /\ IF prlist # <<>> THEN prlist' = Tail(prlist) /\ UNCHANGED prtodo
       ELSE prtodo' = Tail(prtodo) /\ UNCHANGED prlist
    /\ LET x == Head(prlist \o prtodo)
       IN  IF LineTakes(x)
           THEN /\ prseen' = prseen \cup {x}
                /\ prpay' = [prpay EXCEPT ![x] = "read"]
                /\ prline' = "ask" /\ prhold' = x
           ELSE UNCHANGED <<prline, prseen, prhold, prpay>>
    /\ UNCHANGED <<prctx, prloop, prerrs, prdb, prmap, prcancel, prexist, prsent>>

\* BidStatus() returns, unless the payout has ended.
LineAnswered ==
    /\ prline = "ask"
    /\ prline' \in {"period", "report"}
    /\ UNCHANGED <<prctx, prloop, prerrs, prdb, prmap, prcancel, prlist, prtodo,
                   prseen, prhold, prpay, prexist, prsent>>

\* A message of one of the other two subscriptions, or the end of one.
LineHears ==
    /\ prline = "run" /\ prlist = <<>> /\ prline' \in {"stake", "data", "close"}
    /\ UNCHANGED <<prctx, prloop, prerrs, prdb, prmap, prcancel, prlist, prtodo,
                   prseen, prhold, prpay, prexist, prsent>>

\* doneC, a subscription lost with an error, or an error goes to errorC.
LineEnds(why) ==
    /\ CASE why = "done" ->
                /\ prline \in {"run", "period", "stake", "data", "close", "fail"} /\ PrCanceled
                /\ prline = "run" => prlist = <<>>
                /\ UNCHANGED prerrs
         [] why = "lost" ->
                /\ prline = "run" /\ prlist = <<>>
                /\ prerrs' = IF prerrs < PrErrCap THEN prerrs + 1 ELSE prerrs
         [] why = "report" ->
                /\ prline \in {"report", "fail"} /\ prerrs < PrErrCap
                /\ prerrs' = prerrs + 1
    /\ prline' = "dead" /\ prhold' = PrNone
    /\ UNCHANGED <<prctx, prloop, prdb, prmap, prcancel, prlist, prtodo, prseen, prpay,
                   prexist, prsent>>

-----------------------------------------------------------------------------
(* loopPayout.                                                             *)

PayStep(x, to) ==
    /\ prpay' = [prpay EXCEPT ![x] = to]
    /\ UNCHANGED <<prctx, prloop, prdb, prmap, prline, prcancel, prlist, prtodo,
                   prseen, prhold, prexist, prsent>>

\* OnBidStatus() and BidStatus() return, unless the payout has ended.  (A
\* subscription that was refused because ReqC is full holds an error: PayEnds
\* with "lost".)
PayReads(x) ==
    /\ prpay[x] = "read" /\ (\E to \in {"send", "report"} : PayStep(x, to))
    /\ UNCHANGED prerrs

\* A message of the subscription.
PayHears(x) == prpay[x] = "run" /\ PayStep(x, "send") /\ UNCHANGED prerrs

\* The error of BidStatus() is sent to errorC without watching the context,
\* the one of the subscription for ten seconds.
PayEnds(x, why) ==
    /\ CASE why = "done" -> prpay[x] \in {"send", "run"} /\ PrCanceled /\ UNCHANGED prerrs
         [] why = "lost" -> prpay[x] = "run" /\ prerrs' \in {prerrs} \cup ((0 .. PrErrCap) \cap {prerrs + 1})
         [] why = "report" -> prpay[x] = "report" /\ prerrs < PrErrCap /\ prerrs' = prerrs + 1
    /\ PayStep(x, "dead")

-----------------------------------------------------------------------------
PrLine == LinePayout \/ \E w \in {"done", "report"} : LineEnds(w)
PrPay(x) == PayHears(x) \/ \E w \in {"done", "report"} : PayEnds(x, w)

PrNext ==
    \/ PrDone \/ on_pipeline \/ OnPeriod \/ PrOnStake \/ OnPipelineData
    \/ PrOnNetwork \/ PrOnSlot
    \/ \E w \in {"done", "error", "lost"} : PrEnds(w)
    \/ PrLine \/ LineList \/ LineAnswered \/ LineHears \/ LineEnds("lost")
    \/ \E x \in PrPayouts : PrChainPayout(x) \/ OnBid(x) \/ PayReads(x) \/ PrPay(x)
                           \/ PayEnds(x, "lost")

\* What must not stop: the goroutines that loopInternal started, but for their
\* calls to a pipeline or a payout, which may not return.
PrRun == PrLine \/ \E x \in PrPayouts : PrPay(x)

PrSpec == PrInit /\ [][PrNext]_priceVars /\ WF_priceVars(PrRun)

-----------------------------------------------------------------------------
PrTypeOK ==
    /\ prloop \in {"run", "self", "hang", "dead"} /\ prerrs \in 0 .. PrErrCap
    /\ prline \in {"none", "sub", "run", "ask", "period", "stake", "data",
                  "close", "fail", "report", "dead"}
    /\ prdb.payout \subseteq prseen /\ prseen \subseteq prexist
    /\ prhold \in PrPayouts \cup {PrNone}

\* A payout that is both listed and reported by the subscription is handed
\* to PayoutAppend once: its key never ends the recorder.
PayoutRowOnce == \A x \in PrPayouts : prsent[x] <= 1

\* Somebody may wait for ever: for room in errorC, which nobody reads any
\* more, or in a call to an object that has ended.
PrStuck(s) == s \in {"sub", "ask", "read"} \/ (s = "report" /\ prerrs = PrErrCap)

\* When loopInternal ends, or the recorder's context does while loopInternal
\* hangs, everything that it started ends, but for goroutines that report an
\* error of their own into a full errorC and those that are caught in a call
\* to a payout or a pipeline that has ended.
PrDue == prloop = "dead" \/ prctx = "done"
PrOver ==
    /\ prline \in {"none", "dead"} \/ PrStuck(prline)
    /\ \A x \in PrPayouts : prpay[x] \in {"none", "dead"} \/ PrStuck(prpay[x])
RecorderEnds == PrDue ~> PrOver
=============================================================================
