----------------------------- MODULE MCServices -----------------------------
(* The services and the publish/subscribe home in one run: `which' is the  *)
(* one that moves, the others stay in an initial state.                    *)
EXTENDS Services

CONSTANTS
    Parts,                                             \* components checked
    Clients, BufSize, ReqCap, DelCap, MaxBroadcast, Filters   \* SubHome

VARIABLES
    which,
    home, nextId, subs, reqQ, delQ, sent, client, sid, filter, since, next, stream, errC, got

\* Books of two entries: a bidder that raises its bid, one that joins and one
\* that leaves.
B(u, d) == [user |-> u, deposit |-> d]
Blank == B("blank", 0)
MCBidLists ==
    [book : {<<B("a", 1), Blank>>, <<B("a", 2), B("b", 1)>>, <<Blank, B("b", 1)>>},
     final : BOOLEAN]
\* Two receipts of one validator: the second one must not replace the first;
\* and one of another: Receipt() has two answers to send.
MCValidatorOf == [r2 |-> "v2", r3 |-> "v2", r4 |-> "v4"]
MCBooks == {<<"a">>, <<"a", "b">>}

\* The callers of every component have the same names.
Callers == Clients \cap ShCallers \cap YrCallers

Sub == INSTANCE SubHome WITH Replays <- TRUE, ClosesOnExit <- FALSE

subVars ==
    <<home, nextId, subs, reqQ, delQ, sent, client, sid, filter, since, next, stream, errC, got>>
mcVars ==
    <<which, payoutVars, subVars, slotVars, netVars, priceVars, relayVars, yrVars>>

MCInit ==
    /\ which \in Parts
    /\ PyInit /\ Sub!Init /\ ShInit /\ NtInit /\ PrInit /\ RyInit /\ YrInit
    /\ which # "price" => prexist = {}
    /\ which \in {"bids", "crowd"} => rexist \subseteq {0}
    /\ which \notin {"relay", "bids", "crowd"} => rexist = {}

\* The payout moves with the receipts of one validator ("payout"), and with
\* those of two but without bids ("answers").
Untouched(r) == r \in ropen /\ rt # r

\* The pipeline's relay moves with two payouts whose bids are final ("relay"),
\* with one payout and one bidder whose bid changes ("bids"), and with two
\* bidders that come at once ("crowd").
Single == \A i \in DOMAIN rlist : \A k \in DOMAIN rlist[i].q : rlist[i].q[k] = <<"a">>
MCNext ==
    /\ UNCHANGED which
    /\ \/ /\ which \in {"payout", "answers"} /\ PyNext
          /\ IF which = "payout" THEN Untouched("r4")' ELSE Untouched("r3")' /\ bi' = bi
          /\ UNCHANGED <<subVars, slotVars, netVars, priceVars, relayVars, yrVars>>
       \/ /\ which = "sub" /\ Sub!Next
          /\ UNCHANGED <<payoutVars, slotVars, netVars, priceVars, relayVars, yrVars>>
       \/ /\ which = "slot" /\ ShNext
          /\ UNCHANGED <<payoutVars, subVars, netVars, priceVars, relayVars, yrVars>>
       \/ /\ which = "network" /\ NtNext
          /\ UNCHANGED <<payoutVars, subVars, slotVars, priceVars, relayVars, yrVars>>
       \/ /\ which = "price" /\ PrNext
          /\ UNCHANGED <<payoutVars, subVars, slotVars, netVars, relayVars, yrVars>>
       \/ /\ which \in {"relay", "bids", "crowd"} /\ RyNext
          /\ CASE which = "relay" -> rbooks' = 0 /\ rtps' = 0
                                     /\ \A i \in DOMAIN rlist' : rlist'[i].st = "end"
               [] which = "bids" -> rslot' = 0 /\ rexist' \subseteq {0} /\ Single'
               [] which = "crowd" -> rslot' = 0 /\ rexist' \subseteq {0}
                                     /\ rbooks' <= 1 /\ rtps' <= 1
          /\ UNCHANGED <<payoutVars, subVars, slotVars, netVars, priceVars, yrVars>>
       \/ /\ which = "forward" /\ YrNext
          /\ UNCHANGED <<payoutVars, subVars, slotVars, netVars, priceVars, relayVars>>

\* The fairness of each component, for the behaviours in which it moves.
MCSpec ==
    /\ MCInit /\ [][MCNext]_mcVars
    /\ WF_payoutVars(which \in {"payout", "answers"} /\ PyRun)
    /\ WF_subVars(which = "sub" /\ Sub!Run)
    /\ WF_slotVars(which = "slot" /\ ShRun)
    /\ WF_netVars(which = "network" /\ NtRun)
    /\ WF_priceVars(which = "price" /\ PrRun)
    /\ WF_relayVars(which \in {"relay", "bids", "crowd"} /\ RyRun)
    /\ WF_yrVars(which = "forward" /\ YrRun)

-----------------------------------------------------------------------------
\* Those that call a service get back to work: from Data(), Receipt(),
\* BidStatus() and CloseSignal() of a payout whether it lives or is closed,
\* from a subscription and Unsubscribe at a home that runs, from Time() of a
\* slot home that ends, from Submit() of a relay whose validator may send
\* nothing.  The waits that the code does reach are the exceptions, and each
\* component names its own: LeftWaiting at a payout that has ended, a request
\* at a home that has exited, a put before a relay that has ended.  Since
\* `which' does not change, this is CallersReturn, RequestAnswered,
\* UnsubscribeReturns, TimeReturns and SubmitReturns, each of its own component.
CallDue(c) ==
    \/ which \in {"payout", "answers"} /\ ReturnDue
    \/ which = "sub" /\ client[c] = "waiting"
    \/ which = "slot" /\ shcall[c] = "ask"
    \/ which = "forward" /\ ycall[c] = "put"
CallOver(c) ==
    \/ which \in {"payout", "answers"} /\ Returned
    \/ which = "sub" /\ Sub!Answered(c)
    \/ which = "slot" /\ shcall[c] = "end"
    \/ which = "forward" /\ Submitted(c)
CallersAnswered ==
    /\ \A c \in Callers : CallDue(c) ~> CallOver(c)
    /\ Sub!UnsubscribeReturns

\* News gets through: what the slot home broadcasts catches up with the final
\* slots even if the websocket is silent for ever (SlotsArrive), and the
\* pipeline's relay gets to the end of every bid status unless it waits for a
\* bidder that waits for it or has ended (StatusHandled).
NewsArrives ==
    (which = "slot" \/ rloop = "bid")
        ~> ((which = "slot" /\ SlotsCaughtUp) \/ (which # "slot" /\ StatusDone))

\* When one loop of a service ends, what it started ends: in the network
\* statistics but for a loopInternal that waits for room in rawC, in pricing
\* and the relay but for goroutines that report into a full errorC, wait for
\* an answer of the loop that ended, or have called an object that has ended
\* before them and does not answer.  This is NetworkEnds, RecorderEnds and
\* RelayEnds.
EndDue ==
    \/ which = "network" /\ nrun # NtLoops
    \/ which = "price" /\ PrDue
    \/ which \in {"relay", "bids", "crowd"} /\ rctx = "done"
EndOver ==
    \/ which = "network" /\ NtOver
    \/ which = "price" /\ PrOver
    \/ which \in {"relay", "bids", "crowd"} /\ RyOver
ServicesEnd == EndDue ~> EndOver
=============================================================================
