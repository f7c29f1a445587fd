-------------------------- MODULE ReceiptSchedule --------------------------
(***************************************************************************)
(* The receipt scheduler (src/scheduler/receipt): loopUpdate watches the   *)
(* transaction count that the pipeline writes into a receipt and asks the  *)
(* validator to approve each new count, loopPeriodClock follows the payout *)
(* scheduler, and loopInternal records the events of both.                 *)
(***************************************************************************)
EXTENDS Naturals, Sequences, FiniteSets

CONSTANTS
    MaxCount,    \* bound on the transaction count
    DataCap      \* capacity of the receipt's subscription

ASSUME ReceiptScheduleAssumption == MaxCount \in Nat /\ DataCap \in Nat

VARIABLES
    rsCtx,     \* "open", "closed"
    rsLoop,    \* loopInternal: "run", "dead"
    rsChain,   \* (external) the receipt account: [sent, signed]
    stream,    \* dataSub.StreamC
    evicted,   \* dataSub.ErrorC holds an error
    up,        \* loopUpdate: "sub", "data", "run", "send", "done"
    last,      \* lastTxSent
    seen,      \* the data handled last
    approve,   \* the context of the last TRIGGER_RECEIPT_APPROVE, with its count
    pending,   \* the event loopUpdate has to send
    clock,     \* loopPeriodClock: "wait", "send", "done"
    rsEventC,  \* capacity 1
    rsErrorC,  \* capacity 5: number of errors
    rsHistory  \* events broadcast

rsVars == <<rsCtx, rsLoop, rsChain, stream, evicted, up, last, seen, approve, pending,
          clock, rsEventC, rsErrorC, rsHistory>>

Counts == [sent : 0 .. MaxCount, signed : 0 .. MaxCount]
NoApprove == [st |-> "none", sent |-> 0]
Canceled(a) == IF a.st = "live" THEN [a EXCEPT !.st = "canceled"] ELSE a

RsInit ==
    /\ rsCtx = "open" /\ rsLoop = "run"
    /\ rsChain \in {c \in Counts : c.signed <= c.sent /\ c.sent < MaxCount}
    /\ stream = <<>> /\ evicted = FALSE
    /\ up = "sub"
    /\ last = 0 /\ seen = rsChain
    /\ approve = NoApprove
    /\ pending = "none"
    /\ clock = "wait"
    /\ rsEventC = <<>> /\ rsErrorC = 0
    /\ rsHistory = <<>>

RsClose ==
    /\ rsCtx = "open"
    /\ rsCtx' = "closed"
    /\ UNCHANGED <<rsLoop, rsChain, stream, evicted, up, last, seen, approve,
                   pending, clock, rsEventC, rsErrorC, rsHistory>>

\* (external) the account changes and the receipt's home broadcasts it.
Change(c) ==
    /\ rsChain' = c
    /\ IF up = "sub" \/ evicted THEN UNCHANGED <<stream, evicted>>
       ELSE IF Len(stream) < DataCap
            THEN stream' = Append(stream, c) /\ UNCHANGED evicted
            ELSE evicted' = TRUE /\ UNCHANGED stream
    /\ UNCHANGED <<rsCtx, rsLoop, up, last, seen, approve, pending, clock, rsEventC,
                   rsErrorC, rsHistory>>

PipelineCounts == rsChain.sent < MaxCount /\ Change([rsChain EXCEPT !.sent = @ + 1])
ValidatorSigns == rsChain.signed # rsChain.sent /\ Change([rsChain EXCEPT !.signed = rsChain.sent])

-----------------------------------------------------------------------------
(* loopUpdate                                                              *)

\* OnData()
UpdateSubscribe ==
    /\ up = "sub"
    /\ up' = "data"
    /\ UNCHANGED <<rsCtx, rsLoop, rsChain, stream, evicted, last, seen, approve,
                   pending, clock, rsEventC, rsErrorC, rsHistory>>

\* Receipt.Data(), which fails once the receipt is closed; the first event
UpdateData ==
    /\ up = "data"
    /\ \/ /\ last' = rsChain.sent /\ seen' = rsChain
          /\ pending' = CASE rsChain.sent = 0 -> "none"
                          [] rsChain.sent # 0 /\ rsChain.sent # rsChain.signed -> "count"
                          [] OTHER -> "approved"
          /\ up' = IF pending' = "none" THEN "run" ELSE "send"
          /\ UNCHANGED rsErrorC
       \/ /\ rsErrorC' = rsErrorC + 1
          /\ up' = "done"
          /\ UNCHANGED <<last, seen, pending>>
    /\ UNCHANGED <<rsCtx, rsLoop, rsChain, stream, evicted, approve, clock, rsEventC, rsHistory>>

\* Mutant: a new count leaves the context of the older one alone.
HandleKeeps(d) ==
    /\ pending' = CASE last < d.sent /\ d.sent # d.signed -> "approve"
                    [] last <= d.sent /\ d.sent = d.signed -> "approved"
                    [] OTHER -> "none"
    /\ approve' = IF pending' = "approve" THEN [st |-> "live", sent |-> d.sent]
                  ELSE approve

\* data = <-dataSub.StreamC: what is sent and which contexts end
Handle(d) ==
    /\ pending' = CASE last < d.sent /\ d.sent # d.signed -> "approve"
                    [] last <= d.sent /\ d.sent = d.signed -> "approved"
                    [] OTHER -> "none"
    /\ approve' = CASE pending' = "approve" -> [st |-> "live", sent |-> d.sent]
                    [] pending' = "approved" -> Canceled(approve)
                    [] OTHER -> approve

UpdateStream ==
    /\ up = "run" /\ stream # <<>>
    /\ stream' = Tail(stream)
    /\ Handle(Head(stream))
    /\ last' = Head(stream).sent /\ seen' = Head(stream)
    /\ up' = IF pending' = "none" THEN "run" ELSE "send"
    /\ UNCHANGED <<rsCtx, rsLoop, rsChain, evicted, clock, rsEventC, rsErrorC, rsHistory>>

\* eventC <- event or <-doneC
UpdateSend ==
    /\ up = "send"
    /\ \/ rsEventC = <<>> /\ rsEventC' = <<pending>> /\ UNCHANGED approve
       \/ /\ rsCtx = "closed"
          /\ approve' = IF pending = "approve" THEN Canceled(approve) ELSE approve
          /\ UNCHANGED rsEventC
    /\ pending' = "none" /\ up' = "run"
    /\ UNCHANGED <<rsCtx, rsLoop, rsChain, stream, evicted, last, seen, clock,
                   rsErrorC, rsHistory>>

UpdateEnds ==
    /\ up = "run"
    /\ evicted \/ rsCtx = "closed"
    /\ up' = "done"
    /\ rsErrorC' = IF evicted THEN rsErrorC + 1 ELSE rsErrorC
    /\ UNCHANGED <<rsCtx, rsLoop, rsChain, stream, evicted, last, seen, approve,
                   pending, clock, rsEventC, rsHistory>>

-----------------------------------------------------------------------------
(* loopPeriodClock forwards EVENT_PERIOD_FINISH or EVENT_DELAY_CLOSE_PAYOUT *)
(* once; its subscription may be evicted.                                  *)

ClockStep ==
    /\ \/ clock = "wait" /\ clock' = "send" /\ UNCHANGED <<rsEventC, rsErrorC>>
       \/ clock = "wait" /\ clock' = "done" /\ rsErrorC' = rsErrorC + 1 /\ UNCHANGED rsEventC
       \/ /\ clock = "send" /\ rsEventC = <<>>
          /\ rsEventC' = <<"finish">> /\ clock' = "done" /\ UNCHANGED rsErrorC
       \/ clock # "done" /\ rsCtx = "closed" /\ clock' = "done" /\ UNCHANGED <<rsEventC, rsErrorC>>
    /\ UNCHANGED <<rsCtx, rsLoop, rsChain, stream, evicted, up, last, seen, approve,
                   pending, rsHistory>>

-----------------------------------------------------------------------------
(* loopInternal broadcasts the three events of the receipt.                *)

OnEvent ==
    /\ rsLoop = "run" /\ rsEventC # <<>>
    /\ rsEventC' = <<>>
    /\ rsHistory' = IF Head(rsEventC) = "finish" THEN rsHistory ELSE Append(rsHistory, Head(rsEventC))
    /\ UNCHANGED <<rsCtx, rsLoop, rsChain, stream, evicted, up, last, seen, approve,
                   pending, clock, rsErrorC>>

RsFinish ==
    /\ rsLoop = "run"
    /\ rsErrorC > 0 \/ rsCtx = "closed"
    /\ rsLoop' = "dead" /\ rsCtx' = "closed"
    /\ UNCHANGED <<rsChain, stream, evicted, up, last, seen, approve, pending,
                   clock, rsEventC, rsErrorC, rsHistory>>

RsNext ==
    \/ RsClose \/ PipelineCounts \/ ValidatorSigns
    \/ UpdateSubscribe \/ UpdateData \/ UpdateStream \/ UpdateSend \/ UpdateEnds
    \/ ClockStep \/ OnEvent \/ RsFinish

RsSpec == RsInit /\ [][RsNext]_rsVars

-----------------------------------------------------------------------------
RsTypeOK ==
    /\ rsCtx \in {"open", "closed"} /\ rsLoop \in {"run", "dead"}
    /\ rsChain \in Counts /\ seen \in Counts /\ last \in 0 .. MaxCount
    /\ up \in {"sub", "data", "run", "send", "done"}
    /\ approve \in [st : {"none", "live", "canceled"}, sent : 0 .. MaxCount]
    /\ pending \in {"none", "count", "approve", "approved"}
    /\ clock \in {"wait", "send", "done"}
    /\ Len(rsEventC) <= 1 /\ rsErrorC \in 0 .. 5

\* The validator is never asked to approve, under a context that is still
\* live, a count that the scheduler knows to be approved or overtaken.
LiveApproveCurrent ==
    approve.st = "live" => approve.sent = seen.sent /\ seen.signed # seen.sent
=============================================================================
