--------------------------- MODULE PipelineRelay ---------------------------
(***************************************************************************)
(* The relay of a pipeline, src/proxy/relay/pipeline: loopInternal keeps   *)
(* the payouts that are not over in a list and starts one goroutine per    *)
(* bidder, which it tells about every change of its bid.  The goroutines   *)
(* of the bidders subscribe to the capacity that loopInternal publishes.   *)
(*                                                                         *)
(* The way of a transaction to a validator is left out: pleaseConnectC is  *)
(* never written, so no validator has a client, and the first transaction  *)
(* that reaches loopValidatorInternal dereferences nil.                    *)
(***************************************************************************)
EXTENDS Naturals, Sequences, FiniteSets, SequencesExt

CONSTANTS
    RyPayouts,   \* payouts, each named by the first slot of its period
    RyLen,       \* length of a period
    RyMaxSlot,   \* bound on the slot
    RyUsers,     \* bidders
    RyBooks,     \* bid lists: sequences of bidders
    RyMaxBook,   \* bound on the changes of bid lists
    RyMaxTps,    \* bound on the changes of the capacity
    RyCap,       \* capacity of the streams of subscriptions (10)
    RyReqCap     \* capacity of ReqC of pipelineTpsHome (10)

ASSUME PipelineRelayAssumption ==
    /\ RyPayouts \subseteq Nat /\ IsFiniteSet(RyPayouts)
    /\ RyLen \in Nat /\ RyMaxSlot \in Nat
    /\ RyCap \in Nat /\ RyReqCap \in Nat
    /\ RyBooks \subseteq Seq(RyUsers)

VARIABLES
    rctx,        \* context of the relay
    rloop,       \* loopInternal: "start", "run", "bid", "self" (blocked on its
                 \* own errorC), "hang" (in a call that never returns), "dead"
    rerr,        \* errors in errorC, capacity 1
    rslot,       \* in.slot
    rexist,      \* payouts of the pipeline
    rall,        \* loopPayoutAll: its place and the payouts left to send
    rfeed,       \* payoutSub.StreamC
    rlist,       \* in.periodInfo.list
    rcur,        \* the bid status that loopInternal works on
    rbidder,     \* in.bidderMap and the goroutines in it
    rreq,        \* ReqC of pipelineTpsHome
    rbooks,      \* changes of bid lists so far
    rtps,        \* changes of the capacity so far
    rlate        \* (history) a payout came after a later one

relayVars == <<rctx, rloop, rerr, rslot, rexist, rall, rfeed, rlist,
               rcur, rbidder, rreq, rbooks, rtps, rlate>>

NoBidder == [st |-> "none", bid |-> 0, tps |-> 0, evicted |-> FALSE]
RyNoStatus == [i |-> 0, todo |-> <<>>]

RyInit ==
    /\ rctx = "open" /\ rloop = "start" /\ rerr = 0
    /\ rslot = 0
    /\ rexist \in SUBSET RyPayouts
    /\ rall = [st |-> "new", todo |-> <<>>]
    /\ rfeed = <<>> /\ rlist = <<>> /\ rcur = RyNoStatus
    /\ rbidder = [u \in RyUsers |-> NoBidder]
    /\ rreq = <<>> /\ rbooks = 0 /\ rtps = 0 /\ rlate = FALSE

-----------------------------------------------------------------------------
(* The rest of the world.                                                  *)

RyDone ==
    /\ rctx = "open" /\ rctx' = "done"
    /\ UNCHANGED <<rloop, rerr, rslot, rexist, rall, rfeed, rlist, rcur,
                   rbidder, rreq, rbooks, rtps, rlate>>

ChainPayout(p) ==
    /\ p \notin rexist /\ rexist' = rexist \cup {p}
    /\ rfeed' = IF rloop \in {"start", "dead"} THEN rfeed ELSE Append(rfeed, p)
    /\ UNCHANGED <<rctx, rloop, rerr, rslot, rall, rlist, rcur, rbidder,
                   rreq, rbooks, rtps, rlate>>

\* The payout broadcasts its bids; a full stream costs the subscription.  The
\* status that loopBidStatusUpdate holds is the head of q.
Broadcast(e, b) ==
    IF e.st \notin {"run", "hold"} \/ e.evicted THEN e
    ELSE IF Len(e.q) < RyCap + (IF e.st = "hold" THEN 1 ELSE 0)
    THEN [e EXCEPT !.q = Append(@, b)]
    ELSE [e EXCEPT !.evicted = TRUE]

ChainBook(p, b) ==
    /\ p \in rexist /\ rbooks < RyMaxBook /\ rbooks' = rbooks + 1
    /\ rlist' = [i \in DOMAIN rlist |->
                   IF rlist[i].start = p THEN Broadcast(rlist[i], b) ELSE rlist[i]]
    /\ UNCHANGED <<rctx, rloop, rerr, rslot, rexist, rall, rfeed, rcur,
                   rbidder, rreq, rtps, rlate>>

-----------------------------------------------------------------------------
(* The list of payouts.                                                    *)

\* find: the node with this start, or the first one with a larger start;
\* a tail with a smaller start settles it.
find(start) ==
    LET n == Len(rlist)
    IN  IF n = 0 \/ rlist[n].start < start THEN [exact |-> 0, target |-> 0]
        ELSE LET i == SelectInSeq(rlist, LAMBDA e : start <= e.start)
             IN  IF rlist[i].start = start THEN [exact |-> i, target |-> 0]
                 ELSE [exact |-> 0, target |-> i]

\* pbs_create: the goroutines of a payout, and of one whose bids are not
\* final the subscription to them.
pbs_create(p, final) ==
    [start |-> p, m |-> {}, st |-> IF final THEN "end" ELSE "new",
     q |-> <<>>, evicted |-> FALSE, del |-> "new"]

\* list.Insert puts the new node after its target.
Placed(e, target) ==
    IF target = 0 THEN Append(rlist, e) ELSE InsertAt(rlist, target + 1, e)

\* in.errorC <- err in loopInternal, its only reader.
SelfReport ==
    IF rerr = 0 THEN rerr' = 1 /\ UNCHANGED rloop
    ELSE rloop' = "self" /\ UNCHANGED rerr

\* A payout that is over or known changes nothing here.  For another one
\* pbs_create calls BidStatus(), which fails at a payout that has ended, or
\* waits for ever.
on_payout(p) ==
    LET f == find(p)
    IN  IF p + RyLen <= rslot \/ f.exact # 0
        THEN UNCHANGED <<rlist, rerr, rloop, rlate>>
        ELSE \/ SelfReport /\ UNCHANGED <<rlist, rlate>>
             \/ rloop' = "hang" /\ UNCHANGED <<rerr, rlist, rlate>>
             \/ /\ \E final \in BOOLEAN : rlist' = Placed(pbs_create(p, final), f.target)
                /\ rlate' = (rlate \/ f.target # 0)
                /\ UNCHANGED <<rerr, rloop>>

\* OnSlot(), OnPayout(), OnValidator() return: loopPayoutAll already runs.  At
\* a home whose loop has ended they do not.
RySubscribe ==
    /\ rloop = "start" /\ rloop' = "run"
    /\ UNCHANGED <<rctx, rerr, rslot, rexist, rall, rfeed, rlist, rcur,
                   rbidder, rreq, rbooks, rtps, rlate>>

OnFeed ==
    /\ rloop = "run" /\ rfeed # <<>> /\ on_payout(Head(rfeed)) /\ rfeed' = Tail(rfeed)
    /\ UNCHANGED <<rctx, rslot, rexist, rall, rcur, rbidder, rreq, rbooks, rtps>>

\* The payouts of the pipeline in the order of their periods.
AllPayouts ==
    {s \in SetToSeqs(rexist) : \A i, j \in DOMAIN s : i < j => s[i] < s[j]}

\* loopPayoutAll: AllPayouts, then one payout at a time over pwdC; an error
\* is reported without an alternative.
AllRead ==
    /\ rall.st = "new"
    /\ rall' \in [st : {"send"}, todo : AllPayouts] \cup [st : {"err"}, todo : {<<>>}]
    /\ UNCHANGED <<rctx, rloop, rerr, rslot, rexist, rfeed, rlist, rcur,
                   rbidder, rreq, rbooks, rtps, rlate>>

AllSend ==
    /\ rall.st = "send" /\ rall.todo # <<>> /\ rloop = "run"
    /\ on_payout(Head(rall.todo)) /\ rall' = [rall EXCEPT !.todo = Tail(@)]
    /\ UNCHANGED <<rctx, rslot, rexist, rfeed, rcur, rbidder, rreq, rbooks, rtps>>

AllEnds ==
    /\ \/ rall.st = "err" /\ rerr = 0 /\ rerr' = 1
       \/ rall.st = "send" /\ (rall.todo = <<>> \/ rctx = "done") /\ UNCHANGED rerr
    /\ rall' = [st |-> "end", todo |-> <<>>]
    /\ UNCHANGED <<rctx, rloop, rslot, rexist, rfeed, rlist, rcur,
                   rbidder, rreq, rbooks, rtps, rlate>>

DeleteStep(i, st) ==
    /\ rlist' = [rlist EXCEPT ![i].del = st]
    /\ UNCHANGED <<rctx, rloop, rslot, rexist, rall, rfeed, rcur, rbidder,
                   rreq, rbooks, rtps, rlate>>

\* loopDeletePayout: OnSlot() returns, unless the slot home has ended.
DeleteSubscribes(i) == rlist[i].del = "new" /\ DeleteStep(i, "run") /\ UNCHANGED rerr

\* When the period is over it tells loopInternal, which looks for the payout
\* in periodInfo.m; nothing is ever put there, so the payout stays in the list.
DeletePayout(i) ==
    /\ rlist[i].del = "run" /\ (rlist[i].start + RyLen <= rslot \/ rctx = "done")
    /\ DeleteStep(i, "end") /\ UNCHANGED rerr

\* Its subscription ends: with an error, for errorC, or with nil as the slot
\* home closes, which it takes for the end of the period.
DeleteLoses(i) ==
    /\ rlist[i].del = "run" /\ DeleteStep(i, "end")
    /\ UNCHANGED rerr \/ (rerr = 0 /\ rerr' = 1)

OnSlot ==
    /\ rloop = "run" /\ rslot < RyMaxSlot /\ rslot' = rslot + 1
    /\ UNCHANGED <<rctx, rloop, rerr, rexist, rall, rfeed, rlist, rcur, rbidder,
                   rreq, rbooks, rtps, rlate>>

-----------------------------------------------------------------------------
(* loopBidStatusUpdate.                                                    *)

EntryStep(i, e) ==
    /\ rlist' = [rlist EXCEPT ![i] = e]
    /\ UNCHANGED <<rctx, rslot, rexist, rall, rfeed, rbidder, rreq, rbooks, rtps, rlate>>

\* OnBidStatus() returns with a subscription, or with an error because ReqC is
\* full; at a payout that has ended it does not return.
StatusSubscribes(i) ==
    /\ rlist[i].st = "new"
    /\ \E st \in {"run", "err"} : EntryStep(i, [rlist[i] EXCEPT !.st = st])
    /\ UNCHANGED <<rloop, rerr, rcur>>

StatusMoves(i) ==
    LET e == rlist[i]
    IN  /\ \/ e.st = "run" /\ e.q # <<>> /\ EntryStep(i, [e EXCEPT !.st = "hold"])
           \/ e.st = "run" /\ e.evicted /\ EntryStep(i, [e EXCEPT !.st = "err"])
           \/ /\ e.st \in {"run", "hold"} /\ rctx = "done"
              /\ EntryStep(i, [e EXCEPT !.st = "end", !.q = <<>>])
        /\ UNCHANGED <<rloop, rerr, rcur>>

\* The payout's home closes: ErrorC holds nil, which ends the goroutine.
StatusCloses(i) ==
    /\ rlist[i].st = "run" /\ ~rlist[i].evicted
    /\ EntryStep(i, [rlist[i] EXCEPT !.st = "end", !.q = <<>>])
    /\ UNCHANGED <<rloop, rerr, rcur>>

\* errorC <- err, without an alternative.
StatusReports(i) ==
    /\ rlist[i].st = "err" /\ rerr = 0 /\ rerr' = 1
    /\ EntryStep(i, [rlist[i] EXCEPT !.st = "end", !.q = <<>>])
    /\ UNCHANGED <<rloop, rcur>>

\* on_bid_status begins: the node is looked up by its start.
on_bid_status(i) ==
    LET e == rlist[i]
        j == find(e.start).exact
    IN  /\ rloop = "run" /\ e.st = "hold"
        /\ EntryStep(i, [e EXCEPT !.st = "run", !.q = Tail(@)])
        /\ IF j = 0 THEN UNCHANGED <<rloop, rcur>>
           ELSE rloop' = "bid" /\ rcur' = [i |-> j, todo |-> Head(e.q)]
        /\ UNCHANGED rerr

\* One bid of the list: a bidder of its own for a user that is new to the
\* relay, otherwise the news for the one that exists.
BidNext ==
    /\ rloop = "bid" /\ rcur.todo # <<>>
    /\ LET u == Head(rcur.todo)
       IN  /\ IF rbidder[u].st = "none"
              THEN rbidder' = [rbidder EXCEPT ![u].st = "sub"]
              ELSE \/ rbidder[u].bid = 0 /\ rbidder' = [rbidder EXCEPT ![u].bid = 1]
                   \/ rctx = "done" /\ UNCHANGED rbidder
           /\ rlist' = [rlist EXCEPT ![rcur.i].m = @ \cup {u}]
    /\ rcur' = [rcur EXCEPT !.todo = Tail(@)]
    /\ UNCHANGED <<rctx, rloop, rerr, rslot, rexist, rall, rfeed, rreq,
                   rbooks, rtps, rlate>>

BidReturns ==
    /\ rloop = "bid" /\ rcur.todo = <<>>
    /\ rloop' = "run" /\ rcur' = RyNoStatus
    /\ UNCHANGED <<rctx, rerr, rslot, rexist, rall, rfeed, rlist,
                   rbidder, rreq, rbooks, rtps, rlate>>

-----------------------------------------------------------------------------
(* loopBidderInternal; the transactions of its bidder are left out.        *)

BidderStep(u, b) ==
    /\ rbidder' = [rbidder EXCEPT ![u] = b]
    /\ UNCHANGED <<rctx, rloop, rerr, rslot, rexist, rall, rfeed, rlist,
                   rcur, rbooks, rtps, rlate>>

\* SubscriptionRequest: send the request and wait for the answer; if ReqC is
\* full, a subscription whose ErrorC holds an error.
BidderAsks(u) ==
    /\ rbidder[u].st = "sub"
    /\ IF Len(rreq) < RyReqCap
       THEN rreq' = Append(rreq, u) /\ BidderStep(u, [rbidder[u] EXCEPT !.st = "wait"])
       ELSE UNCHANGED rreq /\ BidderStep(u, [rbidder[u] EXCEPT !.st = "run", !.evicted = TRUE])

pipelineTpsHomeReceive ==
    /\ rloop = "run" /\ rreq # <<>> /\ rreq' = Tail(rreq)
    /\ BidderStep(Head(rreq), [rbidder[Head(rreq)] EXCEPT !.st = "run"])

BidderReads(u) ==
    /\ rbidder[u].st = "run" /\ UNCHANGED rreq
    /\ \/ rbidder[u].bid = 1 /\ BidderStep(u, [rbidder[u] EXCEPT !.bid = 0])
       \/ rbidder[u].tps > 0 /\ BidderStep(u, [rbidder[u] EXCEPT !.tps = @ - 1])

\* doneC, or the subscription is lost; the entry of bidderMap stays.
BidderEnds(u) ==
    /\ rbidder[u].st = "run" /\ (rctx = "done" \/ rbidder[u].evicted)
    /\ BidderStep(u, [rbidder[u] EXCEPT !.st = "dead", !.tps = 0]) /\ UNCHANGED rreq

\* A validator reports a change of its share of the network's capacity.
OnTps ==
    /\ rloop = "run" /\ rtps < RyMaxTps /\ rtps' = rtps + 1
    /\ rbidder' = [u \in RyUsers |->
        LET b == rbidder[u]
        IN  IF b.st # "run" \/ b.evicted THEN b
            ELSE IF b.tps < RyCap THEN [b EXCEPT !.tps = @ + 1]
            ELSE [b EXCEPT !.evicted = TRUE]]
    /\ UNCHANGED <<rctx, rloop, rerr, rslot, rexist, rall, rfeed, rlist,
                   rcur, rreq, rbooks, rlate>>

-----------------------------------------------------------------------------
\* errorC, doneC or a lost subscription; defer cancel().
RyEnds ==
    /\ rloop = "run" /\ rloop' = "dead" /\ rctx' = "done"
    /\ \/ rerr = 1 /\ rerr' = 0
       \/ UNCHANGED rerr
    /\ UNCHANGED <<rslot, rexist, rall, rfeed, rlist, rcur, rbidder,
                   rreq, rbooks, rtps, rlate>>

Entries == \E i \in DOMAIN rlist :
    DeletePayout(i) \/ StatusMoves(i) \/ StatusReports(i) \/ on_bid_status(i)
\* Answers of a payout or of the slot home, which may have ended.
Outside == \E i \in DOMAIN rlist :
    DeleteSubscribes(i) \/ DeleteLoses(i) \/ StatusSubscribes(i) \/ StatusCloses(i)
Bidders == \E u \in RyUsers : BidderAsks(u) \/ BidderReads(u) \/ BidderEnds(u)

\* What does not wait for the outside world.  None of it can be repeated for
\* ever, so fairness of RyRun is fairness of each of its steps.
RyRun ==
    \/ OnFeed \/ AllRead \/ AllSend \/ AllEnds
    \/ Entries \/ BidNext \/ BidReturns \/ Bidders \/ pipelineTpsHomeReceive

RyNext ==
    \/ RyDone \/ OnSlot \/ OnTps \/ RyEnds
    \/ \E p \in RyPayouts : ChainPayout(p) \/ \E b \in RyBooks : ChainBook(p, b)
    \/ RySubscribe \/ Outside
    \/ RyRun

RySpec == RyInit /\ [][RyNext]_relayVars /\ WF_relayVars(RyRun)

-----------------------------------------------------------------------------
RyTypeOK ==
    /\ rctx \in {"open", "done"}
    /\ rloop \in {"start", "run", "bid", "self", "hang", "dead"}
    /\ rerr \in 0 .. 1 /\ rslot \in 0 .. RyMaxSlot
    /\ \A i \in DOMAIN rlist :
        /\ rlist[i].start \in rexist /\ rlist[i].m \subseteq RyUsers
        /\ rlist[i].st \in {"new", "run", "hold", "err", "end"}
        /\ rlist[i].del \in {"new", "run", "end"}
        /\ Len(rlist[i].q) <= RyCap + 1
    /\ Len(rreq) <= RyReqCap
    /\ \A u \in RyUsers :
        /\ rbidder[u].st \in {"none", "sub", "wait", "run", "dead"}
        /\ rbidder[u].bid \in 0 .. 1 /\ rbidder[u].tps \in 0 .. RyCap

\* As long as no payout comes after a later one, the list is sorted and has
\* every payout once, although most payouts are reported twice, by the list
\* and by the subscription.  (Insert puts a late payout after the node that
\* it should precede; from then on find misses payouts and duplicates them.)
SortedUnlessLate ==
    ~rlate => \A i, j \in DOMAIN rlist : i < j => rlist[i].start < rlist[j].start

\* loopInternal waits for room in bidC of a bidder that does not read it:
\* one that waits for loopInternal to answer its subscription, or has ended.
BidderWedged ==
    /\ rloop = "bid" /\ rcur.todo # <<>>
    /\ LET b == rbidder[Head(rcur.todo)] IN b.bid = 1 /\ b.st # "run"

\* loopInternal gets through every bid status, unless it is wedged.
StatusDone == rloop # "bid" \/ BidderWedged
StatusHandled == (rloop = "bid") ~> StatusDone

\* A goroutine may wait for ever: for room in errorC, which nobody reads any
\* more, or in OnBidStatus() of a payout that has ended.
RyStuck(st) == st = "new" \/ (st = "err" /\ rerr = 1)

\* Once the relay's context is done, as it is when loopInternal ends, what
\* loopInternal started ends, but for goroutines that report an error into a
\* full errorC, wait for a subscription from loopInternal, or are caught in a
\* call to a payout or a slot home that has ended.
RyOver ==
    /\ rall.st = "end" \/ (rall.st = "err" /\ rerr = 1)
    /\ \A i \in DOMAIN rlist :
        /\ rlist[i].del \in {"end", "new"}
        /\ rlist[i].st = "end" \/ RyStuck(rlist[i].st)
    /\ \A u \in RyUsers : rbidder[u].st \in {"none", "wait", "dead"}
RelayEnds == (rctx = "done") ~> RyOver
=============================================================================
