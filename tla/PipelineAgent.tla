--------------------------- MODULE PipelineAgent ---------------------------
(***************************************************************************)
(* The pipeline agent of src/agent/pipeline: one payout scheduler per      *)
(* payout and one pipeline scheduler send events to loopInternal, which    *)
(* turns triggers into transactions (SendDetached of the script wrapper).  *)
(* A transaction that fails reports to errorC, and so does loopInternal to *)
(* itself; an error ends the agent.                                        *)
(***************************************************************************)
EXTENDS Naturals, Sequences, FiniteSets

CONSTANTS
    PaPayouts,   \* payouts of the pipeline
    PaErrCap,    \* capacity of errorC (5)
    PaMaxAppend, \* bound on the append triggers
    PaMaxEnds    \* bound on the homes that end

\* errorC has a buffer.
ASSUME PipelineAgentAssumption ==
    PaErrCap \in Nat \ {0} /\ PaMaxAppend \in Nat /\ PaMaxEnds \in Nat

PayoutTriggers == {"crank", "close_bids", "close_payout"}
NoEvent == "none"

\* The slot home, the pipeline object and the pipeline scheduler.
PaHomes == {"slot", "pipeline", "sched"}

VARIABLES
    actx,        \* the agent's context
    aloop,       \* loopInternal: "sub", "list", "run", "self" (blocked on
                 \* its own errorC), "look", "dead", "hung" (in a request to a
                 \* home that has ended)
    homes,       \* the homes loopInternal subscribes to, while they live
    exists,      \* payouts on the chain
    feed,        \* payoutSub.StreamC
    payoutM,     \* in.payoutM
    scheds,      \* the schedulers of each payout: triggers left, event held
    settings,    \* which of periodSettings and rateSettings have arrived
    appends,     \* append triggers of the pipeline scheduler so far
    lookC,       \* lookaheadC, capacity 1
    errs,        \* number of errors in errorC
    tasks,       \* number of transactions running
    started      \* (history) transactions started for each payout and trigger

paVars == <<actx, aloop, homes, exists, feed, payoutM, scheds, settings,
            appends, lookC, errs, tasks, started>>

PaInit ==
    /\ actx = "open" /\ aloop = "sub" /\ homes = PaHomes
    /\ exists \in SUBSET PaPayouts
    /\ feed = <<>> /\ payoutM = {} /\ scheds = [p \in PaPayouts |-> <<>>]
    /\ settings = {} /\ appends = 0 /\ lookC = 0
    /\ errs = 0 /\ tasks = 0
    /\ started = [j \in PaPayouts \X PayoutTriggers |-> 0]

PaDone ==
    /\ actx = "open" /\ actx' = "done"
    /\ UNCHANGED <<aloop, homes, exists, feed, payoutM, scheds, settings, appends,
                   lookC, errs, tasks, started>>

\* One of them ends and sends nil to its subscribers.
PaHomeEnds(h) ==
    /\ Cardinality(PaHomes \ homes) < PaMaxEnds /\ h \in homes /\ homes' = homes \ {h}
    /\ UNCHANGED <<actx, aloop, exists, feed, payoutM, scheds, settings,
                   appends, lookC, errs, tasks, started>>

\* AppendPeriod has landed: the pipeline reports a new payout.
PaChainPayout(p) ==
    /\ p \notin exists /\ exists' = exists \cup {p}
    /\ feed' = IF aloop \in {"sub", "dead"} \/ "pipeline" \notin homes THEN feed
               ELSE Append(feed, p)
    /\ UNCHANGED <<actx, aloop, homes, payoutM, scheds, settings, appends, lookC, errs,
                   tasks, started>>

-----------------------------------------------------------------------------
(* on_payout: the schedulers of the payouts.                               *)

NewSched == [left |-> PayoutTriggers, hold |-> NoEvent]

Started(P) == scheds' = [p \in PaPayouts |->
                IF p \in P THEN Append(scheds[p], NewSched) ELSE scheds[p]]

\* A payout that is known is ignored.
OnPayouts(P) == payoutM' = payoutM \cup P /\ Started(P \ payoutM)

PaOnPayout ==
    /\ aloop = "run" /\ feed # <<>>
    /\ OnPayouts({Head(feed)}) /\ feed' = Tail(feed)
    /\ UNCHANGED <<actx, aloop, homes, exists, settings, appends, lookC, errs, tasks, started>>

\* OnEvent, OnSlot, OnPayout of the pipeline, then PayoutWithData: a payout that
\* appears in between is delivered twice.  A request to a home that has
\* ended is never answered (ds/sub/sub.go:60).
PaSubscribe ==
    /\ aloop = "sub"
    /\ aloop' = IF homes = PaHomes THEN "list" ELSE "hung"
    /\ UNCHANGED <<actx, homes, exists, feed, payoutM, scheds, settings, appends,
                   lookC, errs, tasks, started>>

PaList ==
    /\ aloop = "list" /\ aloop' = "run"
    /\ \/ OnPayouts(exists) /\ UNCHANGED errs
       \/ errs' = errs + 1 /\ UNCHANGED <<payoutM, scheds>>
    /\ UNCHANGED <<actx, homes, exists, feed, settings, appends, lookC, tasks, started>>

\* The payout scheduler emits each of its triggers once; loopPayoutScheduler
\* takes the event and waits for loopInternal.
SchedEmits(p, i) ==
    /\ scheds[p][i].hold = NoEvent /\ actx = "open"
    /\ \E t \in scheds[p][i].left :
        scheds' = [scheds EXCEPT ![p][i].hold = t, ![p][i].left = @ \ {t}]
    /\ UNCHANGED <<actx, aloop, homes, exists, feed, payoutM, settings, appends, lookC,
                   errs, tasks, started>>

\* A scheduler that ends with an error reports it if there is room.
SchedFails(p, i) ==
    /\ scheds[p][i].hold = NoEvent /\ scheds[p][i].left # {}
    /\ scheds' = [scheds EXCEPT ![p][i].left = {}]
    /\ errs' = IF errs < PaErrCap THEN errs + 1 ELSE errs
    /\ UNCHANGED <<actx, aloop, homes, exists, feed, payoutM, settings, appends, lookC,
                   tasks, started>>

-----------------------------------------------------------------------------
(* loopInternal.                                                           *)

\* in.errorC <- err from loopInternal itself, the only reader of errorC.
SelfReport ==
    IF errs < PaErrCap THEN errs' = errs + 1 /\ UNCHANGED aloop
    ELSE aloop' = "self" /\ UNCHANGED errs

\* on_payout_event: run_payout_crank, run_payout_close_bids or
\* run_payout_close_payout.
on_payout_event(p, i) ==
    /\ aloop = "run" /\ scheds[p][i].hold # NoEvent
    /\ LET job == <<p, scheds[p][i].hold>>
       IN  /\ tasks' = tasks + 1
           /\ started' = [started EXCEPT ![job] = @ + 1]
    /\ scheds' = [scheds EXCEPT ![p][i].hold = NoEvent]
    /\ UNCHANGED <<actx, aloop, homes, exists, feed, payoutM, settings, appends, lookC, errs>>

AppendReady == {"period", "rate"} \subseteq settings

\* on_pipeline_event and run_period_append; without settings, an error.
on_pipeline_event ==
    /\ aloop = "run" /\ appends < PaMaxAppend /\ appends' = appends + 1
    /\ IF AppendReady THEN tasks' = tasks + 1 /\ UNCHANGED <<aloop, errs>>
       ELSE SelfReport /\ UNCHANGED tasks
    /\ UNCHANGED <<actx, homes, exists, feed, payoutM, scheds, settings, lookC, started>>

\* Period settings go on to the pipeline scheduler.
OnPeriodSettings ==
    /\ aloop = "run" /\ settings' = settings \cup {"period"}
    /\ IF lookC = 0 THEN lookC' = 1 /\ UNCHANGED aloop
       ELSE aloop' = "look" /\ UNCHANGED lookC
    /\ UNCHANGED <<actx, homes, exists, feed, payoutM, scheds, appends, errs, tasks, started>>

LookPasses ==
    /\ aloop = "look"
    /\ \/ lookC = 0 /\ lookC' = 1 /\ aloop' = "run" /\ UNCHANGED actx
       \/ actx = "done" /\ aloop' = "dead" /\ UNCHANGED <<lookC, actx>>
    /\ UNCHANGED <<homes, exists, feed, payoutM, scheds, settings, appends, errs, tasks, started>>

SchedulerTakesLook ==
    /\ lookC = 1 /\ "sched" \in homes /\ lookC' = 0
    /\ UNCHANGED <<actx, aloop, homes, exists, feed, payoutM, scheds, settings,
                   appends, errs, tasks, started>>

OnRateSettings ==
    /\ aloop = "run" /\ settings' = settings \cup {"rate"}
    /\ UNCHANGED <<actx, aloop, homes, exists, feed, payoutM, scheds, appends, lookC,
                   errs, tasks, started>>

\* deletePayoutC: loopDeletePayout sends when the payout's context is done,
\* and that context only ends with the agent's.
OnDeletePayout(p) ==
    /\ aloop = "run" /\ actx = "done" /\ p \in payoutM
    /\ payoutM' = payoutM \ {p}
    /\ UNCHANGED <<actx, aloop, homes, exists, feed, scheds, settings, appends, lookC,
                   errs, tasks, started>>

\* slotSub.ErrorC: loopInternal subscribes again, whatever the error is.  An
\* evicted subscription is renewed, which changes nothing here; a slot home
\* that has ended has sent nil, and loopInternal waits for it for ever.
PaSlotLost ==
    /\ aloop = "run" /\ "slot" \notin homes /\ aloop' = "hung"
    /\ UNCHANGED <<actx, homes, exists, feed, payoutM, scheds, settings, appends,
                   lookC, errs, tasks, started>>

\* An error, a lost subscription or the context: finish, defer cancel().
PaEnds(why) ==
    /\ aloop = "run"
    /\ \/ why = "error" /\ errs > 0 /\ errs' = errs - 1
       \/ why = "done" /\ actx = "done" /\ UNCHANGED errs
       \/ why = "sub" /\ UNCHANGED errs
    /\ aloop' = "dead" /\ actx' = "done"
    /\ UNCHANGED <<homes, exists, feed, payoutM, scheds, settings, appends, lookC, tasks, started>>

-----------------------------------------------------------------------------
(* The transactions: Send and ErrorNonNil of the script wrapper.           *)

TaskEnds ==
    /\ tasks > 0 /\ tasks' = tasks - 1
    /\ errs' \in {errs} \cup (IF errs < PaErrCap THEN {errs + 1} ELSE {})
    /\ UNCHANGED <<actx, aloop, homes, exists, feed, payoutM, scheds, settings,
                   appends, lookC, started>>

-----------------------------------------------------------------------------
PaNext ==
    \/ PaDone \/ PaSubscribe \/ PaList \/ PaOnPayout \/ LookPasses
    \/ \E h \in homes : PaHomeEnds(h)
    \/ PaSlotLost
    \/ \E p \in PaPayouts :
        \/ PaChainPayout(p) \/ OnDeletePayout(p)
        \/ \E i \in DOMAIN scheds[p] :
            SchedEmits(p, i) \/ SchedFails(p, i) \/ on_payout_event(p, i)
    \/ on_pipeline_event \/ OnPeriodSettings \/ OnRateSettings \/ SchedulerTakesLook
    \/ \E w \in {"error", "done", "sub"} : PaEnds(w)
    \/ TaskEnds

\* select takes every ready case sooner or later.
PaSpec ==
    /\ PaInit /\ [][PaNext]_paVars
    /\ WF_paVars(PaSubscribe) /\ WF_paVars(PaList) /\ WF_paVars(LookPasses)
    /\ SF_paVars(PaOnPayout)
    /\ SF_paVars(PaEnds("error")) /\ SF_paVars(PaEnds("done"))
    /\ WF_paVars(SchedulerTakesLook)

-----------------------------------------------------------------------------
PaTypeOK ==
    /\ actx \in {"open", "done"}
    /\ aloop \in {"sub", "list", "run", "self", "look", "dead", "hung"}
    /\ homes \subseteq PaHomes
    /\ payoutM \subseteq exists /\ exists \subseteq PaPayouts
    /\ settings \subseteq {"period", "rate"}
    /\ appends \in 0 .. PaMaxAppend /\ lookC \in 0 .. 1
    /\ errs \in 0 .. PaErrCap

\* A payout that appears while the agent starts is seen twice, in the list
\* and on the subscription, and still each of its triggers starts only one
\* transaction.
OneTransaction ==
    \A p \in PaPayouts, t \in PayoutTriggers : started[<<p, t>>] <= 1

\* The three ways in which loopInternal waits for something that does not
\* come: room in errorC, which only it reads (event.go:19); an answer of a
\* home that has ended (internal.go:70-76, 114); room in the look ahead
\* channel of a pipeline scheduler that has ended (internal.go:102-106).
PaStuck ==
    \/ aloop = "self" /\ errs = PaErrCap
    \/ aloop = "hung" /\ homes # PaHomes
    \/ aloop = "look" /\ lookC = 1 /\ "sched" \notin homes /\ actx = "open"

\* Every payout gets a scheduler, whenever it appears, as long as the agent
\* and the pipeline live and loopInternal is not stuck.
PaServed ==
    exists \subseteq payoutM \/ aloop = "dead" \/ PaStuck \/ "pipeline" \notin homes
PayoutsScheduled == (exists # {}) ~> PaServed

\* An error of a transaction or a scheduler ends the agent, and with it all
\* that runs under its context, unless loopInternal is stuck.
PaDue == errs > 0 \/ actx = "done"
PaOver == aloop = "dead" \/ PaStuck
ErrorEndsAgent == PaDue ~> PaOver
=============================================================================
