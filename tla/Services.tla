------------------------------ MODULE Services ------------------------------
(***************************************************************************)
(* The payout's state object and the services that others subscribe to or  *)
(* that act on what is published, side by side: the slot home, the network *)
(* statistics, pricing and the two relays.  They share no state: each      *)
(* component keeps the variables and the specification of its own module,  *)
(* and the properties below say of several at a time what they promise     *)
(* together.                                                               *)
(***************************************************************************)
EXTENDS PayoutState, SlotHome, NetworkState, Pricing, PipelineRelay,
        ValidatorRelay

\* The variables of the components hold values of the shapes the Go
\* types allow, and no channel holds more than its capacity.
ServicesTypeOK ==
    PyTypeOK /\ ShTypeOK /\ NtTypeOK /\ PrTypeOK /\ RyTypeOK /\ YrTypeOK

\* What is published is right: the subscribers of OnBidStatus() were told last
\* what bid_status() says now, and a caller of BidStatus() is told that or,
\* when its select meets the nil on errorC first, the zero status, never an
\* older one; what loopTps publishes is the average over consecutive blocks
\* that have contents: a slow subscriber makes the statistics end, never
\* silently wrong.  The variables keep their types meanwhile.
PublishedRight == ServicesTypeOK /\ SubscribersCurrent /\ AverageExact

\* Those that hear of a payout both by the listing and by the subscription
\* file it once: pricing hands it to PayoutAppend once, so that its key never
\* ends the recorder, and the relay's list is sorted and names none twice as
\* long as no payout comes after a later one.
PayoutsFiledOnce == PayoutRowOnce /\ SortedUnlessLate

\* What a payout has said stays said: the status of the bids goes from open
\* to final to closed and never back, although bid lists and the account's
\* updates overtake each other between internalC and dataC, and a validator's
\* receipt, once known, is not replaced by another one.
PayoutSteady == StatusAdvances /\ ReceiptsStable
=============================================================================
