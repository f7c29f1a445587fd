--------------------------- MODULE PipelineState ---------------------------
(***************************************************************************)
(* The state object of a pipeline (src/state/pipeline): one goroutine that *)
(* keeps the period ring, the refunds and the list of payouts sorted by    *)
(* the start of their period, with an index from payouts to list nodes;    *)
(* for each payout two goroutines, one for its updates and one for its     *)
(* closing; and one goroutine per validator that was announced.            *)
(*                                                                         *)
(* CreatePipeline does not store updateValidatorStakeC in the value it     *)
(* returns, so a send on it blocks until the pipeline is closed: the stake *)
(* case of loopInternal never runs and is left out.  The same holds for    *)
(* on_payout_update, which looks a payout up by the id of its pipeline.    *)
(***************************************************************************)
EXTENDS LinkedList, FiniteSets

CONSTANTS
    Payouts,     \* payouts of the pipeline
    Start,       \* Payouts -> start of the period
    Votes,       \* validators
    Refunds,     \* the refund account: a sequence of [user, balance]
    PQueueCap    \* capacity of internalC

\* The periods of a pipeline start at different slots: the router keeps its
\* payouts by that slot.
ASSUME PipelineStateAssumption ==
    /\ \A p \in Payouts : Start[p] \in Nat
    /\ \A p, q \in Payouts : Start[p] = Start[q] => p = q
    /\ PQueueCap \in Nat

NoPayout == "none"

VARIABLES
    pctx,      \* "open", "closed"
    ploop,     \* loopInternal: "run", "answer" (blocked in AllClaim), "dead"
    internalC, \* closures
    plist,     \* payoutLinkedList
    payoutById, \* payout -> node, or Nil
    pRing,     \* the payout that ring.Start points to, or NoPayout
    active,    \* activePayout: a node or Nil
    told,      \* (history) payouts broadcast by payoutHome
    swapped,   \* (history) a payout was inserted before another: "no",
               \* "yes", and "left" once a payout has left after that
    popen,     \* payouts whose object is open
    upd,       \* loopPipelinePayout of each payout
    del,       \* loopDeletePayout of each payout
    finishC,   \* finishPayoutC, capacity 1
    pErrorC,   \* errorC, capacity 1: number of errors
    votes,     \* validatorStakeSub
    vg,        \* loopUpdateValidatorByVote of each validator
    caller     \* a goroutine that asks

pipelineVars == <<pctx, ploop, internalC, plist, payoutById, pRing, active, told,
                  swapped, popen, upd, del, finishC, pErrorC, votes, vg, caller>>

Questions == {"Data", "AllPayouts", "AllClaim"}

Find(p) == IF p = NoPayout THEN Nil ELSE payoutById[p]

\* on_refund at creation: &claim is the address of the range variable, so
\* every node shows the last entry of the account.
Claimants == SelectSeq(Refunds, LAMBDA c : c.balance > 0)
AllClaim == [i \in DOMAIN Claimants |-> Refunds[Len(Refunds)]]

\* CreatePipeline, init, init_refund, on_period with the ring of the account
PpInit ==
    /\ pctx = "open" /\ ploop = "run"
    /\ internalC = <<>>
    /\ plist = EmptyList
    /\ payoutById = [p \in Payouts |-> Nil]
    /\ pRing \in Payouts \cup {NoPayout}
    /\ active = Nil
    /\ told = {} /\ swapped = "no"
    /\ popen = Payouts
    /\ upd = [p \in Payouts |-> "none"]
    /\ del = [p \in Payouts |-> "none"]
    /\ finishC = <<>> /\ pErrorC = 0
    /\ votes = {}
    /\ vg = [v \in Votes |-> "none"]
    /\ caller = "idle"

Enqueue(op, arg) ==
    /\ Len(internalC) < PQueueCap
    /\ internalC' = Append(internalC, [op |-> op, arg |-> arg])

-----------------------------------------------------------------------------
(* The router.                                                             *)

Queued(op, arg) == [op |-> op, arg |-> arg] \in {internalC[i] : i \in DOMAIN internalC}

\* UpdatePayout: p.Data() fails for a closed payout.
UpdatePayout(p) ==
    /\ pctx = "open" /\ p \in popen
    /\ payoutById[p] = Nil /\ del[p] = "none" /\ ~Queued("payout", p)
    /\ Enqueue("payout", p)
    /\ UNCHANGED <<pctx, ploop, plist, payoutById, pRing, active, told, swapped,
                   popen, upd, del, finishC, pErrorC, votes, vg, caller>>

\* UpdatePeriod: the send is not interrupted by the context.  The ring
\* starts at ever later periods.
UpdatePeriod(p) ==
    /\ pctx = "open"
    /\ pRing # NoPayout => Start[pRing] < Start[p]
    /\ Enqueue("period", p)
    /\ UNCHANGED <<pctx, ploop, plist, payoutById, pRing, active, told, swapped,
                   popen, upd, del, finishC, pErrorC, votes, vg, caller>>

\* UpdateValidatorByVote starts a goroutine and broadcasts through a closure.
UpdateValidatorByVote(v) ==
    /\ pctx = "open" /\ vg[v] \in {"none", "done"}
    /\ Enqueue("announce", v)
    /\ vg' = [vg EXCEPT ![v] = "ask"]
    /\ UNCHANGED <<pctx, ploop, plist, payoutById, pRing, active, told, swapped,
                   popen, upd, del, finishC, pErrorC, votes, caller>>

PpClose ==
    /\ pctx = "open"
    /\ pctx' = "closed"
    /\ UNCHANGED <<ploop, internalC, plist, payoutById, pRing, active, told, swapped,
                   popen, upd, del, finishC, pErrorC, votes, vg, caller>>

\* The payout's account is closed; its loop answers the CloseSignal it has
\* read, and drops one that is still queued.
PayoutCloses(p) ==
    /\ p \in popen
    /\ popen' = popen \ {p}
    /\ \/ del' = [del EXCEPT ![p] = IF @ = "wait" THEN "closed" ELSE @]
       \/ del[p] = "wait" /\ del' = [del EXCEPT ![p] = "lost"]
    /\ UNCHANGED <<pctx, ploop, internalC, plist, payoutById, pRing, active, told,
                   swapped, upd, finishC, pErrorC, votes, vg, caller>>

-----------------------------------------------------------------------------
(* loopPipelinePayout and loopDeletePayout.                                *)

\* The payout's home evicts the subscription, or closes with a nil error.
UpdEnds(p) ==
    /\ upd[p] = "run"
    /\ \/ p \in popen /\ upd' = [upd EXCEPT ![p] = "err"]
       \/ (p \notin popen \/ pctx = "closed") /\ upd' = [upd EXCEPT ![p] = "done"]
    /\ UNCHANGED <<pctx, ploop, internalC, plist, payoutById, pRing, active, told,
                   swapped, popen, del, finishC, pErrorC, votes, vg, caller>>

\* closeC := payout.CloseSignal(): an error at once if the context is done
CloseSignal(p) ==
    /\ del[p] = "ask"
    /\ del' = [del EXCEPT ![p] = IF p \in popen THEN "wait" ELSE "err"]
    /\ UNCHANGED <<pctx, ploop, internalC, plist, payoutById, pRing, active, told,
                   swapped, popen, upd, finishC, pErrorC, votes, vg, caller>>

\* errorC <- err, which nothing interrupts
SendError(p) ==
    /\ pErrorC = 0
    /\ pErrorC' = 1
    /\ \/ upd[p] = "err" /\ upd' = [upd EXCEPT ![p] = "done"] /\ UNCHANGED del
       \/ del[p] = "err" /\ del' = [del EXCEPT ![p] = "closed"] /\ UNCHANGED upd
    /\ UNCHANGED <<pctx, ploop, internalC, plist, payoutById, pRing, active, told,
                   swapped, popen, finishC, votes, vg, caller>>

\* finishC <- payoutFinish{...} or <-doneC
SendFinish(p) ==
    /\ \/ /\ del[p] = "closed" /\ finishC = <<>>
          /\ finishC' = <<p>>
       \/ /\ del[p] \in {"wait", "lost", "closed"} /\ pctx = "closed"
          /\ UNCHANGED finishC
    /\ del' = [del EXCEPT ![p] = "done"]
    /\ UNCHANGED <<pctx, ploop, internalC, plist, payoutById, pRing, active, told,
                   swapped, popen, upd, pErrorC, votes, vg, caller>>

\* loopUpdateValidatorByVote: registers, then at the first slot or stake it
\* has to report waits for the end of the pipeline's context.
VoteStep(v) ==
    /\ \/ /\ vg[v] = "ask"
          /\ Enqueue("vote", v)
          /\ vg' = [vg EXCEPT ![v] = "asked"]
       \/ /\ vg[v] = "run" /\ pctx = "closed"
          /\ vg' = [vg EXCEPT ![v] = "done"]
          /\ UNCHANGED internalC
    /\ UNCHANGED <<pctx, ploop, plist, payoutById, pRing, active, told, swapped,
                   popen, upd, del, finishC, pErrorC, votes, caller>>

\* Its subscription to slots or stake ends: with nil as the slot home or the
\* validator closes, or with an error, for errorC without an alternative.
VoteLost(v) ==
    /\ \/ /\ vg[v] = "run" /\ UNCHANGED pErrorC
          /\ \E st \in {"done", "err"} : vg' = [vg EXCEPT ![v] = st]
       \/ /\ vg[v] = "err" /\ pErrorC = 0 /\ pErrorC' = 1
          /\ vg' = [vg EXCEPT ![v] = "done"]
    /\ UNCHANGED <<pctx, ploop, internalC, plist, payoutById, pRing, active, told,
                   swapped, popen, upd, del, finishC, votes, caller>>

-----------------------------------------------------------------------------
(* Questions.  Data() waits for its answer whatever happens to the         *)
(* pipeline; AllPayouts and AllClaim return when its context ends.         *)

Ask(op) ==
    /\ caller = "idle"
    /\ Enqueue(op, NoPayout)
    /\ caller' = op
    /\ UNCHANGED <<pctx, ploop, plist, payoutById, pRing, active, told, swapped,
                   popen, upd, del, finishC, pErrorC, votes, vg>>

AskCanceled ==
    /\ caller \in {"AllPayouts", "AllClaim"} /\ pctx = "closed"
    /\ caller' = "idle"
    /\ UNCHANGED <<pctx, ploop, internalC, plist, payoutById, pRing, active, told,
                   swapped, popen, upd, del, finishC, pErrorC, votes, vg>>

-----------------------------------------------------------------------------
(* loopInternal.                                                           *)

\* The node before which p belongs: the first one that starts later.
Later(p) == LET n == Nodes(plist)
                k == {i \in DOMAIN n : Start[p] < Start[plist.val[n[i]]]} IN
            IF k = {} THEN Nil ELSE n[CHOOSE i \in k : \A j \in k : i <= j]

Same(p) == {n \in Allocated(plist) : plist.val[n] = p
                /\ \E i \in DOMAIN Nodes(plist) : Nodes(plist)[i] = n}

\* on_payout_insert: before a later payout, by giving a new node after it
\* that payout and its own node the new one.
on_payout_insert(p) ==
    IF plist.size = 0 \/ Start[plist.val[plist.tail]] < Start[p]
    THEN [list |-> AppendList(plist, p), node |-> NewNode(plist)]
    ELSE IF Same(p) # {}
         THEN [list |-> plist, node |-> CHOOSE n \in Same(p) : TRUE]
         ELSE LET n == Later(p) IN
              IF n = Nil THEN [list |-> plist, node |-> Nil]
              ELSE [list |-> ChangeValue(Insert(plist, plist.val[n], n), n, p),
                    node |-> n]

\* on_payout
PpOnPayout(p) ==
    LET r == on_payout_insert(p) IN
    /\ plist' = r.list
    /\ IF r.node = Nil
       THEN UNCHANGED <<payoutById, told, upd, del, active, swapped>>
       ELSE /\ payoutById' = [payoutById EXCEPT ![p] = r.node]
            /\ told' = told \cup {p}
            /\ upd' = [upd EXCEPT ![p] = "run"]
            /\ del' = [del EXCEPT ![p] = "ask"]
            /\ active' = IF pRing = NoPayout THEN active ELSE payoutById'[pRing]
            /\ swapped' = IF swapped = "no" /\ r.node \in Allocated(plist)
                          THEN "yes" ELSE swapped

\* on_period, on_payout_find_current
PpOnPeriod(p) ==
    /\ pRing' = p
    /\ active' = IF p = NoPayout THEN active ELSE Find(p)

\* req(in)
RunClosure ==
    /\ ploop = "run" /\ internalC # <<>>
    /\ internalC' = Tail(internalC)
    /\ LET f == Head(internalC) IN
       \/ /\ f.op = "payout"
          /\ PpOnPayout(f.arg)
          /\ UNCHANGED <<ploop, pRing, votes, vg, caller>>
       \/ /\ f.op = "period"
          /\ PpOnPeriod(f.arg)
          /\ UNCHANGED <<ploop, plist, payoutById, told, upd, del, swapped, votes,
                         vg, caller>>
       \/ /\ f.op = "announce"
          /\ UNCHANGED <<ploop, plist, payoutById, pRing, active, told, upd, del,
                         swapped, votes, vg, caller>>
       \/ \* on_validator: the goroutine of a known validator returns
          /\ f.op = "vote"
          /\ votes' = votes \cup {f.arg}
          /\ vg' = [vg EXCEPT ![f.arg] = IF f.arg \in votes THEN "done" ELSE "run"]
          /\ UNCHANGED <<ploop, plist, payoutById, pRing, active, told, upd, del,
                         swapped, caller>>
       \/ /\ f.op \in {"Data", "AllPayouts"}
          /\ caller' = IF caller = f.op THEN "idle" ELSE caller
          /\ UNCHANGED <<ploop, plist, payoutById, pRing, active, told, upd, del,
                         swapped, votes, vg>>
       \/ \* ansC <- list, unbuffered: only a caller that still waits reads it
          /\ f.op = "AllClaim"
          /\ caller' = IF caller = f.op THEN "idle" ELSE caller
          /\ ploop' = IF caller = f.op THEN "run" ELSE "answer"
          /\ UNCHANGED <<plist, payoutById, pRing, active, told, upd, del, swapped,
                         votes, vg>>
    /\ UNCHANGED <<pctx, popen, finishC, pErrorC>>

\* <-finishPayoutC
OnFinish ==
    /\ ploop = "run" /\ finishC # <<>>
    /\ finishC' = <<>>
    /\ LET p == Head(finishC) IN
       IF payoutById[p] = Nil THEN UNCHANGED <<plist, payoutById, swapped>>
       ELSE /\ plist' = RemoveNode(plist, payoutById[p])
            /\ payoutById' = [payoutById EXCEPT ![p] = Nil]
            /\ swapped' = IF swapped = "no" THEN "no" ELSE "left"
    /\ UNCHANGED <<pctx, ploop, internalC, pRing, active, told, popen, upd, del,
                   pErrorC, votes, vg, caller>>

\* <-errorC, <-doneC or an error of the network's subscription; the deferred
\* cancel and Close of the homes
PpFinish ==
    /\ ploop = "run"
    /\ pErrorC = 1 \/ pctx = "closed"
    /\ ploop' = "dead" /\ pctx' = "closed" /\ pErrorC' = 0
    /\ UNCHANGED <<internalC, plist, payoutById, pRing, active, told, swapped, popen,
                   upd, del, finishC, votes, vg, caller>>

PpNext ==
    \/ \E p \in Payouts :
        \/ UpdatePayout(p) \/ PayoutCloses(p) \/ UpdatePeriod(p)
        \/ UpdEnds(p) \/ CloseSignal(p) \/ SendError(p) \/ SendFinish(p)
    \/ \E v \in Votes : UpdateValidatorByVote(v) \/ VoteStep(v) \/ VoteLost(v)
    \/ \E op \in Questions : Ask(op)
    \/ AskCanceled \/ PpClose
    \/ RunClosure \/ OnFinish \/ PpFinish

PpSpec == PpInit /\ [][PpNext]_pipelineVars

-----------------------------------------------------------------------------
PpTypeOK ==
    /\ pctx \in {"open", "closed"} /\ ploop \in {"run", "answer", "dead"}
    /\ Len(internalC) <= PQueueCap
    /\ payoutById \in [Payouts -> Allocated(plist) \cup {Nil}]
    /\ active \in Allocated(plist) \cup {Nil}
    /\ upd \in [Payouts -> {"none", "run", "err", "done"}]
    /\ del \in [Payouts -> {"none", "ask", "wait", "lost", "closed", "err", "done"}]
    /\ votes \subseteq Votes
    /\ vg \in [Votes -> {"none", "ask", "asked", "run", "err", "done"}]
    /\ caller \in Questions \cup {"idle"}

\* AllPayouts and PayoutWithData list payouts in the order of their periods
\* and none twice, in whatever order they arrive, until a payout leaves after
\* one was inserted before another.
PayoutsSorted ==
    LET a == Array(plist) IN
    swapped # "left" => \A i, j \in DOMAIN a : i < j => Start[a[i]] < Start[a[j]]

\* As long as payouts arrive in the order of their periods, the list holds
\* exactly the payouts of the index, each at the node of the index.
IndexExact ==
    swapped = "no" =>
        /\ {Nodes(plist)[i] : i \in DOMAIN Nodes(plist)}
              = {payoutById[p] : p \in Payouts} \ {Nil}
        /\ \A p \in Payouts : payoutById[p] # Nil => plist.val[payoutById[p]] = p

\* Comment at src/state/pipeline/update.go:195, "wait until the payout object
\* is deleted on chain, then delete the payout from the pipeline": a payout
\* whose goroutine reported its closing is not listed.
ClosedPayoutLeaves ==
    \A p \in Payouts :
        (ploop = "run" /\ del[p] = "done" /\ finishC = <<>> /\ pctx = "open")
            => p \notin {Array(plist)[i] : i \in DOMAIN Array(plist)}
=============================================================================
