---------------------------- MODULE PayoutState ----------------------------
(***************************************************************************)
(* The state object of a payout (src/state/payout): one goroutine that     *)
(* keeps the account's data, the bids and the receipts by validator.  The  *)
(* router feeds it through two channels, dataC (the account) and internalC *)
(* (closures: bid lists, receipts and the questions of other goroutines),  *)
(* between which select keeps no order.                                    *)
(*                                                                         *)
(* The bids are pointers: on_bid_list stores &bid of its range variable,   *)
(* which Go 1.18 shares between the iterations, so all bids that are new   *)
(* in one call show the last entry of its book.                            *)
(***************************************************************************)
EXTENDS Naturals, Sequences, FiniteSets, SequencesExt

CONSTANTS
    Users,      \* bidders
    BidLists,   \* bid list updates: [book, final]; a book is a Seq of bids
    Receipts,   \* receipts of the payout
    ValidatorOf,\* Receipts -> validators
    QueueCap,   \* capacity of internalC and dataC
    MaxUpdate   \* bound on the updates of the router

ASSUME PayoutStateAssumption ==
    /\ QueueCap \in Nat
    /\ IsFiniteSet(Receipts)
    /\ \A bl \in BidLists : bl.final \in BOOLEAN

NoBid == [user |-> "blank", deposit |-> 0]
Validators == {ValidatorOf[r] : r \in Receipts}
None == "none"

\* The zero BidStatus.
NoStatus == [bid |-> <<>>, final |-> FALSE, open |-> FALSE]

VARIABLES
    ctx,       \* "open" until Close()
    loop,      \* loopInternal: "run", "send" (blocked in Receipt()), "dead"
    dataC,     \* account updates: TRUE if the account names no bid list
    internalC, \* closures
    bi,        \* bidInfo
    book,      \* (history) the book of the last list that was not ignored
    receipts,  \* in.receipts: validator -> receipt
    last,      \* last BidStatus broadcast
    ropen,     \* receipts whose object is open
    deleters,  \* receipts with a receipt_delete goroutine
    updates,   \* number of updates the router has made
    rt,        \* the router: "idle" or the receipt it waits for
    caller,    \* a goroutine that asks: how far it is, and what it asks
    told,      \* (history) what BidStatus() answered since the last broadcast
    left,      \* receipts Receipt() has still to send
    ansC       \* length of ansC in Receipt(), capacity 1

payoutVars ==
    <<ctx, loop, dataC, internalC, bi, book, receipts, last, ropen, deleters,
      updates, rt, caller, told, left, ansC>>

Calls == {"Data", "Receipt", "CloseSignal", "BidStatus"}
\* "put": before internalC; "wait": for the first answer; "read": of ansC.
At(where, op) == [at |-> where, op |-> op]
Idle == At("idle", None)
CallStates ==
    {Idle, At("read", "Receipt")} \cup [at : {"put", "wait"}, op : Calls]

\* CreatePayout, init_bid
PyInit ==
    /\ ctx = "open"
    /\ loop = "run"
    /\ dataC = <<>>
    /\ internalC = <<>>
    /\ bi = [final |-> FALSE, closed |-> FALSE, list |-> <<>>,
             search |-> [u \in Users |-> NoBid]]
    /\ book = <<>>
    /\ receipts = [v \in Validators |-> None]
    /\ last = NoStatus
    /\ ropen = Receipts
    /\ deleters = {}
    /\ updates = 0
    /\ rt = "idle"
    /\ caller = Idle
    /\ told = NoStatus
    /\ left = 0
    /\ ansC = 0

-----------------------------------------------------------------------------
(* Senders.  A select with ctx.Done() may drop the message once the        *)
(* context is done; while it is open the sender waits for room.            *)

Room == Len(internalC) < QueueCap
Enqueue(f) == /\ Room
              /\ internalC' = Append(internalC, f)

\* Payout.Update
Update(noBids) ==
    /\ rt = "idle" /\ updates < MaxUpdate
    /\ updates' = updates + 1
    /\ Len(dataC) < QueueCap
    /\ dataC' = Append(dataC, noBids)
    /\ UNCHANGED <<ctx, loop, internalC, bi, book, receipts, last, ropen,
                   deleters, rt, caller, told, left, ansC>>

\* Payout.UpdateBidList
UpdateBidList(bl) ==
    /\ rt = "idle" /\ updates < MaxUpdate
    /\ updates' = updates + 1
    /\ Enqueue([op |-> "bids", arg |-> bl])
    /\ UNCHANGED <<ctx, loop, dataC, bi, book, receipts, last, ropen,
                   deleters, rt, caller, told, left, ansC>>

\* Payout.UpdateReceipt: r.Data() fails for a closed receipt.
UpdateReceipt(r) ==
    /\ rt = "idle" /\ updates < MaxUpdate
    /\ r \in ropen
    /\ updates' = updates + 1
    /\ Enqueue([op |-> "receipt", arg |-> r])
    /\ rt' = r
    /\ UNCHANGED <<ctx, loop, dataC, bi, book, receipts, last, ropen,
                   deleters, caller, told, left, ansC>>

\* <-doneC while it waits for presentC
UpdateReceiptCanceled ==
    /\ rt # "idle" /\ ctx = "closed"
    /\ rt' = "idle"
    /\ UNCHANGED <<ctx, loop, dataC, internalC, bi, book, receipts, last,
                   ropen, deleters, updates, caller, told, left, ansC>>

ReceiptCloses(r) ==
    /\ r \in ropen
    /\ ropen' = ropen \ {r}
    /\ UNCHANGED <<ctx, loop, dataC, internalC, bi, book, receipts, last,
                   deleters, updates, rt, caller, told, left, ansC>>

\* receipt_delete
receipt_delete(r) ==
    /\ r \in deleters \ ropen
    /\ deleters' = deleters \ {r}
    /\ Enqueue([op |-> "delete", arg |-> r])
    /\ UNCHANGED <<ctx, loop, dataC, bi, book, receipts, last, ropen,
                   updates, rt, caller, told, left, ansC>>

Close ==
    /\ ctx = "open"
    /\ ctx' = "closed"
    /\ UNCHANGED <<loop, dataC, internalC, bi, book, receipts, last, ropen,
                   deleters, updates, rt, caller, told, left, ansC>>

-----------------------------------------------------------------------------
(* Questions.                                                              *)

\* Data, Receipt and CloseSignal fail at once when the context is done;
\* BidStatus does not look.
Ask(op) ==
    /\ caller = Idle
    /\ ctx = "open" \/ op = "BidStatus"
    /\ caller' = At("put", op)
    /\ UNCHANGED <<ctx, loop, dataC, internalC, bi, book, receipts, last,
                   ropen, deleters, updates, rt, told, left, ansC>>

\* The closure is sent, whether or not somebody still reads internalC.
Put ==
    /\ caller.at = "put"
    /\ Enqueue([op |-> caller.op, arg |-> None])
    /\ caller' = At("wait", caller.op)
    /\ UNCHANGED <<ctx, loop, dataC, bi, book, receipts, last, ropen,
                   deleters, updates, rt, told, left, ansC>>

\* <-doneC: Data does not look for it while it sends, and BidStatus not while
\* it waits for the answer.
Cancelable ==
    {At("put", "Receipt"), At("put", "CloseSignal"), At("put", "BidStatus"),
     At("wait", "Data"), At("wait", "Receipt")}

Canceled ==
    /\ caller \in Cancelable /\ ctx = "closed"
    /\ caller' = Idle
    /\ UNCHANGED <<ctx, loop, dataC, internalC, bi, book, receipts, last,
                   ropen, deleters, updates, rt, told, left, ansC>>

\* ans[i] = <-ansC
ReadOne ==
    /\ caller.at = "read"
    /\ IF ansC > 0
       THEN /\ ansC' = ansC - 1
            /\ UNCHANGED caller
       ELSE /\ left = 0
            /\ caller' = Idle
            /\ UNCHANGED ansC
    /\ UNCHANGED <<ctx, loop, dataC, internalC, bi, book, receipts, last,
                   ropen, deleters, updates, rt, told, left>>

-----------------------------------------------------------------------------
(* The loop.                                                               *)

\* bid_status and getBlankBidStatus.
BidStatusOf(b) ==
    IF b.closed
    THEN [bid |-> <<>>, final |-> TRUE, open |-> FALSE]
    ELSE [bid |-> [i \in DOMAIN b.list |-> b.list[i].val],
          final |-> b.final, open |-> TRUE]

\* bidStatusHome.Broadcast
BroadcastBids(status) ==
    /\ last' = status
    /\ told' = NoStatus

\* Mutant: closing the bid list broadcasts nothing.
close_bid_list_quiet ==
    /\ bi' = [bi EXCEPT !.closed = TRUE]
    /\ UNCHANGED <<last, told>>

close_bid_list ==
    /\ bi' = [bi EXCEPT !.closed = TRUE]
    /\ BroadcastBids(BidStatusOf(bi'))

on_data ==
    /\ loop = "run" /\ dataC # <<>>
    /\ dataC' = Tail(dataC)
    /\ IF Head(dataC) THEN close_bid_list ELSE UNCHANGED <<bi, last, told>>
    /\ UNCHANGED <<ctx, loop, internalC, book, receipts, ropen, deleters,
                   updates, rt, caller, left, ansC>>

Present(b) == b # NoBid

\* The new list: a bidder with a node keeps the bid of the node, the others
\* share the range variable.
NewList(bl) ==
    LET bids == SelectSeq(bl.book, Present) IN
    [i \in DOMAIN bids |->
        LET u == bids[i].user IN
        [key |-> u,
         val |-> IF Present(bi.search[u]) THEN bi.search[u] ELSE Last(bl.book)]]

\* Mutant: a list that arrives after the final one is taken.
on_bid_list_late(bl) ==
    /\ book' = bl.book
    /\ bi' = [bi EXCEPT !.final = bl.final, !.list = NewList(bl)]
    /\ BroadcastBids(BidStatusOf(bi'))

\* on_bid_list.  The nodes left in the old list are removed from the search
\* by the bidder their value names; when a node of a yet older list was
\* removed from the old list its links are wrong and any of them may be
\* visited.
on_bid_list(bl) ==
    IF bi.final
    THEN UNCHANGED <<bi, book, last, told>>
    ELSE LET users == {bl.book[i].user : i \in {j \in DOMAIN bl.book : Present(bl.book[j])}}
             found == {u \in users : Present(bi.search[u])}
             old == {bi.list[i] : i \in DOMAIN bi.list}
             rest == {e \in old : e.key \notin found}
             new == NewList(bl)
             val == [u \in users |-> (CHOOSE i \in DOMAIN new : new[i].key = u)] IN
         \E visited \in SUBSET rest :
            /\ found \subseteq {e.key : e \in old} => visited = rest
            /\ LET gone == {e.val.user : e \in {x \in visited : Present(x.val)}} IN
               bi' = [bi EXCEPT !.final = bl.final, !.list = new,
                        !.search = [u \in Users |->
                            CASE u \in gone -> NoBid
                              [] u \in users \ gone -> new[val[u]].val
                              [] OTHER -> bi.search[u]]]
            /\ book' = bl.book
            /\ BroadcastBids(BidStatusOf(bi'))

\* on_receipt, and UpdateReceipt when it gets the answer: only a receipt
\* whose validator is known already is watched for its closing.
on_receipt(r) ==
    IF receipts[ValidatorOf[r]] = None
    THEN /\ receipts' = [receipts EXCEPT ![ValidatorOf[r]] = r]
         /\ UNCHANGED deleters
    ELSE /\ deleters' = IF rt = r THEN deleters \cup {r} ELSE deleters
         /\ UNCHANGED receipts

\* The closure of BidStatus(): it answers nil on errorC before it answers the
\* status on ansC, and the caller, which selects between the two, returns with
\* the zero status when it meets the nil.
AnswerBidStatus ==
    IF caller = At("wait", "BidStatus")
    THEN /\ caller' = Idle
         /\ told' \in {NoStatus, BidStatusOf(bi)}
    ELSE UNCHANGED <<caller, told>>

\* req(in)
RunClosure ==
    /\ loop = "run" /\ internalC # <<>>
    /\ internalC' = Tail(internalC)
    /\ LET f == Head(internalC) IN
       \/ /\ f.op = "bids"
          /\ on_bid_list(f.arg)
          /\ UNCHANGED <<receipts, deleters, rt, caller, loop, left>>
       \/ /\ f.op = "receipt"
          /\ on_receipt(f.arg)
          /\ rt' = IF rt = f.arg THEN "idle" ELSE rt
          /\ UNCHANGED <<bi, book, last, caller, told, loop, left>>
       \/ \* delete(in.receipts, id): the map is keyed by validator
          /\ f.op = "delete"
          /\ UNCHANGED <<bi, book, last, receipts, deleters, rt, caller, told, loop, left>>
       \/ /\ f.op = "Data"
          /\ caller' = IF caller = At("wait", "Data") THEN Idle ELSE caller
          /\ UNCHANGED <<bi, book, last, receipts, deleters, rt, told, loop, left>>
       \/ /\ f.op = "Receipt"
          /\ caller' = IF caller = At("wait", "Receipt")
                       THEN At("read", "Receipt") ELSE caller
          /\ left' = Cardinality({v \in Validators : receipts[v] # None})
          /\ loop' = IF left' = 0 THEN "run" ELSE "send"
          /\ UNCHANGED <<bi, book, last, receipts, deleters, rt, told>>
       \/ \* appended to closeSignalCList: answered by finish
          /\ f.op = "CloseSignal"
          /\ UNCHANGED <<bi, book, last, receipts, deleters, rt, caller, told, loop, left>>
       \/ /\ f.op = "BidStatus"
          /\ AnswerBidStatus
          /\ UNCHANGED <<bi, book, last, receipts, deleters, rt, loop, left>>
    /\ UNCHANGED <<ctx, dataC, ropen, updates, ansC>>

\* ansC <- r in the closure of Receipt()
SendOne ==
    /\ loop = "send" /\ ansC < 1
    /\ ansC' = ansC + 1
    /\ left' = left - 1
    /\ loop' = IF left' = 0 THEN "run" ELSE "send"
    /\ UNCHANGED <<ctx, dataC, internalC, bi, book, receipts, last, ropen,
                   deleters, updates, rt, caller, told>>

Queued(op) == \E i \in DOMAIN internalC : internalC[i].op = op

\* <-doneC, finish and the deferred Close of the three homes
Finish ==
    /\ loop = "run" /\ ctx = "closed"
    /\ loop' = "dead"
    /\ caller' = IF caller = At("wait", "CloseSignal") /\ ~Queued("CloseSignal")
                 THEN Idle ELSE caller
    /\ UNCHANGED <<ctx, dataC, internalC, bi, book, receipts, last, ropen,
                   deleters, updates, rt, told, left, ansC>>

PyNext ==
    \/ \E b \in BOOLEAN : Update(b)
    \/ \E bl \in BidLists : UpdateBidList(bl)
    \/ \E r \in Receipts : UpdateReceipt(r) \/ ReceiptCloses(r) \/ receipt_delete(r)
    \/ UpdateReceiptCanceled
    \/ Close
    \/ \E op \in Calls : Ask(op)
    \/ Put \/ Canceled \/ ReadOne
    \/ on_data \/ RunClosure \/ SendOne \/ Finish

\* What must not stop: the loop, and callers that have room or an answer or
\* find the context done.  A caller that has its answer may ask again for ever; that
\* aside no step can be repeated for ever.
PyRun ==
    \/ on_data \/ RunClosure \/ SendOne \/ Finish
    \/ Put \/ Canceled \/ ReadOne \/ UpdateReceiptCanceled

PySpec == PyInit /\ [][PyNext]_payoutVars /\ WF_payoutVars(PyRun)

-----------------------------------------------------------------------------
PyTypeOK ==
    /\ ctx \in {"open", "closed"}
    /\ loop \in {"run", "send", "dead"}
    /\ Len(dataC) <= QueueCap /\ Len(internalC) <= QueueCap
    /\ bi.final \in BOOLEAN /\ bi.closed \in BOOLEAN
    /\ receipts \in [Validators -> Receipts \cup {None}]
    /\ deleters \subseteq Receipts
    /\ rt \in Receipts \cup {"idle"}
    /\ caller \in CallStates
    /\ left \in 0 .. Cardinality(Validators)
    /\ ansC \in 0 .. 1

\* The subscribers of OnBidStatus() were told last what bid_status() says of
\* the bids now: no handler changes the bids and keeps quiet.  A caller of
\* BidStatus() gets either that or, when its select meets the nil on errorC
\* first, the zero status without an error; it never gets an older status.
SubscribersCurrent ==
    /\ last # NoStatus => last = BidStatusOf(bi)
    /\ told \in {NoStatus, BidStatusOf(bi)}

Stage(s) == CASE s = NoStatus -> 0
              [] s.open /\ ~s.final -> 1
              [] s.open /\ s.final -> 2
              [] OTHER -> 3

\* The status of the bids goes from open to final to closed and never back,
\* although bid lists and the account's updates overtake each other between
\* internalC and dataC.
StatusAdvances == [][Stage(last') >= Stage(last)]_payoutVars

\* A validator's receipt, once known, is not replaced by another one: the
\* answer of Receipt() agrees with what OnReceipt() broadcast.
ReceiptsStable == [][\A v \in Validators : receipts[v] # None => receipts'[v] = receipts[v]]_payoutVars

\* Nobody reads internalC any more: loopInternal has ended, or it waits for
\* ever in the closure of a Receipt() whose caller has gone.
NobodyReads ==
    loop = "dead" \/ (loop = "send" /\ ansC = 1 /\ caller.at # "read")

\* The calls the code leaves waiting for ever at a payout that has ended:
\* Data() before a full internalC (it sends without a select),
\* BidStatus() whose closure is left there (its last select has no doneC),
\* and the receiver of a CloseSignal() that finish does not know of.
LeftWaiting ==
    /\ NobodyReads
    /\ \/ caller = At("put", "Data") /\ ~Room
       \/ caller = At("wait", "BidStatus") /\ Queued("BidStatus")
       \/ /\ caller = At("wait", "CloseSignal")
          /\ Queued("CloseSignal") \/ loop = "send"

\* A caller of Data(), Receipt() or BidStatus() returns whenever the payout is
\* closed under it, but for the calls of LeftWaiting; the receiver of a
\* CloseSignal() hears of the end but for the same.
ReturnDue == caller.at # "idle" /\ (caller.op = "CloseSignal" => ctx = "closed")
Returned == caller.at = "idle" \/ LeftWaiting
CallersReturn == ReturnDue ~> Returned

\* Comment at src/state/payout/bid.go:44, "update the linked list so that it
\* only contains up-to-date": the bids reported are those of the last list.
BidsUpToDate ==
    last # NoStatus /\ last.open => last.bid = SelectSeq(book, Present)
=============================================================================
