---------------------------- MODULE CrankPayout ----------------------------
(***************************************************************************)
(* CrankPayout of src/agent/cranker/plain.go, which the pipeline agent     *)
(* starts once per payout: wait until the period is over, then send the    *)
(* crank through the wrapper while a second goroutine cancels it when      *)
(* somebody else cranks.  The payout, its bid list and the slot belong to  *)
(* the chain; what CrankPayout knows of them arrives on subscriptions to   *)
(* the slot home and to the payout object, either of which may end.  (The  *)
(* comment at plain.go:20 says "until the period starts": the code waits   *)
(* for its last slot.)                                                     *)
(***************************************************************************)
EXTENDS Naturals, Sequences

CONSTANTS
    CpFinish,    \* last slot of the period
    CpMaxSlot,   \* bound on the slot
    CpTries      \* tries of wrapper.Send (10)

\* The chain has a first and a second slot at least.
ASSUME CrankPayoutAssumption ==
    CpFinish \in Nat /\ CpMaxSlot \in Nat \ {0} /\ CpTries \in Nat

VARIABLES
    time,        \* slot of the chain
    isFinal,     \* the bid list has been cranked
    noBids,      \* the bid list account is closed (data.Bids is zero)
    gone,        \* of "slot" and "payout", the objects that have ended
    pctx,        \* context of the task
    cpc,         \* CrankPayout: "sub", "subp", "read", "wait", "send", "end",
                 \* "hung" (in a call on an object that has ended)
    known,       \* its variables slot, bidStatus.IsFinal and data.Bids
    news,        \* messages of its three subscriptions
    cctx,        \* ctxC, the context of the Send
    stop,        \* loopStopCrankOnBidChange: "none", "new", "run", "unsub",
                 \* "end", "hung"
    stopNews,    \* its subscription holds a final status or the nil of Close
    missed,      \* (history) the list was final before stop subscribed
    attempts     \* transactions submitted

cpChain == <<time, isFinal, noBids, gone, pctx>>
cpTask == <<cpc, known, cctx, attempts>>
cpVars == <<cpChain, cpTask, news, stop, stopNews, missed>>

CpInit ==
    /\ time \in 0 .. 1 /\ isFinal = FALSE /\ noBids = FALSE /\ gone = {}
    /\ pctx = "open" /\ cpc = "sub"
    /\ known = [slot |-> 0, final |-> FALSE, zero |-> FALSE]
    /\ news = {} /\ cctx = "none"
    /\ stop = "none" /\ stopNews = FALSE /\ missed = FALSE
    /\ attempts = 0

\* The object that sends each kind of message, and who has subscribed to it.
Source(kind) == IF kind = "slot" THEN "slot" ELSE "payout"
SubscribedTo(o) == cpc \notin (IF o = "slot" THEN {"sub", "end"} ELSE {"sub", "subp", "end"})

\* A broadcast of a live object to the subscribers that exist.
Tell(kind) ==
    LET told == Source(kind) \notin gone
    IN  /\ news' = IF told /\ SubscribedTo(Source(kind)) THEN news \cup {kind} ELSE news
        /\ stopNews' = (stopNews \/ (told /\ kind = "final" /\ stop = "run"))

\* Slots beyond the bound are not told apart.
ChainSlot ==
    /\ time' = IF time < CpMaxSlot THEN time + 1 ELSE time
    /\ Tell("slot")
    /\ UNCHANGED <<isFinal, noBids, gone, pctx, cpTask, stop, missed>>

\* Somebody else cranks.
ChainCranks ==
    /\ ~isFinal /\ ~noBids /\ CpFinish < time /\ isFinal' = TRUE
    /\ Tell("final")
    /\ UNCHANGED <<time, noBids, gone, pctx, cpTask, stop, missed>>

ChainClosesBids ==
    /\ isFinal /\ ~noBids /\ noBids' = TRUE
    /\ Tell("zero")
    /\ UNCHANGED <<time, isFinal, gone, pctx, cpTask, stop, missed>>

\* The slot home or the payout object ends: Close() of its subscription
\* homes sends nil to their subscribers.
ObjectEnds(o) ==
    /\ o \notin gone /\ gone' = gone \cup {o}
    /\ news' = IF SubscribedTo(o) THEN news \cup {"nil"} ELSE news
    /\ stopNews' = (stopNews \/ (o = "payout" /\ stop = "run"))
    /\ UNCHANGED <<time, isFinal, noBids, pctx, cpTask, stop, missed>>

PDone ==
    /\ pctx = "open" /\ pctx' = "done"
    /\ UNCHANGED <<time, isFinal, noBids, gone, cpTask, news, stop, stopNews, missed>>

CpGoes(to) == cpc' = to /\ UNCHANGED <<cpChain, stopNews, missed, attempts>>

\* A subscription request to a live object is answered; on one that has
\* ended it waits for ever for the answer (ds/sub/sub.go:60).
CpSubscribe ==
    /\ \/ /\ cpc = "sub" /\ CpGoes(IF "slot" \in gone THEN "hung" ELSE "subp")
       \/ /\ cpc = "subp" /\ CpGoes(IF "payout" \in gone THEN "hung" ELSE "read")
    /\ UNCHANGED <<known, news, cctx, stop>>

\* Data() and BidStatus(), which may answer a zero status without an error
\* (state/payout/bid.go:152-155); on a payout that has ended they fail or
\* wait for ever.
CpRead ==
    /\ cpc = "read"
    /\ \/ /\ "payout" \notin gone /\ CpGoes("wait")
          /\ \E f \in {isFinal, FALSE} :
                known' = [slot |-> 0, final |-> f, zero |-> noBids]
       \/ CpGoes("end") /\ UNCHANGED known
       \/ "payout" \in gone /\ CpGoes("hung") /\ UNCHANGED known
    /\ UNCHANGED <<news, cctx, stop>>

\* The condition of the for loop.
CpWaiting == ~known.final /\ known.slot <= CpFinish /\ ~known.zero

CpMessage ==
    /\ cpc = "wait" /\ CpWaiting
    /\ \E m \in news \ {"nil"} :
        /\ known' = CASE m = "slot" -> [known EXCEPT !.slot = time]
                      [] m = "final" -> [known EXCEPT !.final = TRUE]
                      [] m = "zero" -> [known EXCEPT !.zero = TRUE]
        /\ news' = news \ {m}
    /\ UNCHANGED <<cpChain, cpc, cctx, stop, stopNews, missed, attempts>>

\* Where the task goes when it returns: the deferred Unsubscribe()s, and
\* after a failed Send one more BidStatus(), may hang on an ended object.
Over == IF gone = {} THEN {"end"} ELSE {"end", "hung"}

\* A subscription is evicted, or the queue of requests was full: sendError.
CpFails ==
    /\ cpc = "wait" /\ CpWaiting
    /\ \E to \in Over : CpGoes(to)
    /\ UNCHANGED <<known, news, cctx, stop>>

\* Out of the loop: already cranked, or Send under a context of its own.
\* doneC leaves the loop too, and then the context is already done; so does
\* the nil of an object that ended, which is not taken for an error.
CpLeaves ==
    /\ cpc = "wait" /\ (~CpWaiting \/ pctx = "done" \/ "nil" \in news)
    /\ IF known.final \/ known.zero
       THEN (\E to \in Over : CpGoes(to)) /\ UNCHANGED <<cctx, stop>>
       ELSE CpGoes("send") /\ cctx' = pctx /\ stop' = "new"
    /\ UNCHANGED <<known, news>>

SendOpen == cctx = "open" /\ pctx = "open"

\* A try of wrapper.Send: runCrank under ctxC submits a transaction, unless
\* a builder fails.  The chain refuses the crank before the end of the
\* period and when the list is final already.
CpTry ==
    /\ cpc = "send" /\ SendOpen /\ attempts < CpTries
    /\ attempts' = attempts + 1
    /\ isFinal' \in {isFinal, isFinal \/ CpFinish < time}
    /\ IF ~isFinal /\ isFinal' THEN Tell("final") ELSE UNCHANGED <<news, stopNews>>
    /\ UNCHANGED <<time, noBids, gone, pctx, cpc, known, cctx, stop, missed>>

\* Send returns (success, tries used up or context done), then cancel().
CpSent ==
    /\ cpc = "send" /\ \E to \in Over : CpGoes(to)
    /\ cctx' = "done"
    /\ UNCHANGED <<known, news, stop>>

StopGoes(to) == stop' = to /\ UNCHANGED <<cpChain, cpc, known, news, stopNews, attempts>>

\* OnBidStatus() of the helper hangs on a payout that has ended.
StopSubscribe ==
    /\ stop = "new" /\ StopGoes(IF "payout" \in gone THEN "hung" ELSE "run")
    /\ missed' = isFinal
    /\ UNCHANGED cctx

\* The bid status is final, the payout has ended, or the context is done.
StopSees ==
    /\ stop = "run" /\ (stopNews \/ ~SendOpen) /\ StopGoes("unsub")
    /\ UNCHANGED <<missed, cctx>>

\* The subscription of the helper is evicted.
StopFails ==
    /\ stop = "run" /\ StopGoes("unsub")
    /\ UNCHANGED <<missed, cctx>>

\* Mutant: the goroutine logs the change and does not cancel.
StopReturnsOnly ==
    /\ stop = "unsub"
    /\ \/ StopGoes("end") /\ UNCHANGED cctx
       \/ "payout" \in gone /\ StopGoes("hung") /\ UNCHANGED cctx
    /\ UNCHANGED missed

\* The deferred calls: Unsubscribe(), which may hang on a payout that has
\* ended, and only then cancel().
StopReturns ==
    /\ stop = "unsub"
    /\ \/ StopGoes("end") /\ cctx' = "done"
       \/ "payout" \in gone /\ StopGoes("hung") /\ UNCHANGED cctx
    /\ UNCHANGED missed

CpTask == CpSubscribe \/ CpRead \/ CpMessage \/ CpLeaves \/ (~SendOpen /\ CpSent)
CpStop == StopSubscribe \/ StopSees \/ StopReturns

CpNext ==
    \/ ChainSlot \/ ChainCranks \/ ChainClosesBids \/ PDone
    \/ \E o \in {"slot", "payout"} : ObjectEnds(o)
    \/ CpSubscribe \/ CpRead \/ CpMessage \/ CpLeaves \/ CpTry \/ CpSent
    \/ CpFails \/ CpStop \/ StopFails

\* What must not stop: slots pass, and the task and its stop goroutine run.
\* No step can be repeated for ever, so fairness of CpRun is fairness of each
\* of its steps.  Send is bound to return only when its context is done: a
\* try waits for its signature without a timeout (script/extra.go:77-90).
CpRun == ChainSlot \/ CpTask \/ CpStop

CpSpec == CpInit /\ [][CpNext]_cpVars /\ WF_cpVars(CpRun)

-----------------------------------------------------------------------------
CpTypeOK ==
    /\ time \in 0 .. CpMaxSlot /\ isFinal \in BOOLEAN /\ noBids \in BOOLEAN
    /\ gone \subseteq {"slot", "payout"}
    /\ cpc \in {"sub", "subp", "read", "wait", "send", "end", "hung"}
    /\ known.slot \in 0 .. CpMaxSlot
    /\ news \subseteq {"slot", "final", "zero", "nil"}
    /\ attempts \in 0 .. CpTries

\* No crank is submitted before the period is over, unless the slot home or
\* the payout object has ended: the nil that their Close() sends ends the
\* wait of plain.go:63-77 and is not an error at plain.go:79, so that
\* CrankPayout goes on to Send at any time.  It is the only way: the wait
\* also ends when the context is done, but then nothing is submitted.
NoEarlyCrank == attempts > 0 => CpFinish < time \/ gone # {}

\* "stop the crank if someone else manages to crank the bid list"
\* (plain.go:110): while Send may still try although the list is final, its
\* helper is about to cancel it: the final status, or the nil of an ended
\* payout, waits in the helper's subscription, or the helper has read it and
\* is in its deferred Unsubscribe().  The exceptions are named: the helper
\* has not subscribed yet or hangs in a call on an ended payout, or the list
\* was final when it subscribed, for then no status will come any more and
\* Send goes on.
CrankStopped ==
    cpc = "send" /\ SendOpen /\ isFinal =>
        \/ stop = "run" /\ stopNews
        \/ stop = "unsub"
        \/ stop = "new"
        \/ stop = "hung" /\ "payout" \in gone
        \/ missed

TaskOver == cpc = "end" \/ (cpc = "hung" /\ gone # {})
StopOver == stop \in {"none", "end"} \/ (stop = "hung" /\ "payout" \in gone)

\* The wait of CrankPayout ends, and so does the Send once the context of the
\* task is done or the helper is on its way out, unless that hangs before its
\* cancel(): in the end Send may still try, or the task and its helper have
\* ended or hang in a call on an object that has ended.
CpDue == cpc = "wait" \/ pctx = "done" \/ stop = "unsub"
CpOver ==
    \/ cpc = "send" /\ SendOpen /\ stop # "unsub"
    \/ TaskOver /\ StopOver
CrankPayoutEnds == CpDue ~> CpOver
=============================================================================
