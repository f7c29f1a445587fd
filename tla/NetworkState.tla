---------------------------- MODULE NetworkState ----------------------------
(***************************************************************************)
(* The network statistics of src/state/network.  loopInternal takes        *)
(* finalized blocks from a websocket and hands them over rawC to           *)
(* loopCountBlock, which broadcasts their counts; loopTps subscribes to    *)
(* them, keeps them in a list and publishes averages.  loopVoteUpdate      *)
(* publishes stakes.  The four goroutines share one context, and each of   *)
(* them cancels it when it ends.                                           *)
(***************************************************************************)
EXTENDS Naturals, Sequences

CONSTANTS
    NtMaxBlock,  \* number of blocks with contents
    NtMaxNil,    \* number of results whose Block is nil
    NtRawCap,    \* capacity of rawC (10)
    NtSubCap     \* capacity of the subscription of loopTps (10)

ASSUME NetworkStateAssumption ==
    NtMaxBlock \in Nat /\ NtMaxNil \in Nat /\ NtRawCap \in Nat /\ NtSubCap \in Nat

\* The i-th result that has a Block: slot and number of transactions differ
\* from one to the next.
NtBlock(i) == [slot |-> 2 * i, count |-> i]

\* A result of the websocket: whether it has a Block, and how many have had
\* one so far.  NtNone is no result.
NtResult(n, body) == [n |-> n, body |-> body]
NtNone == NtResult(0, TRUE)

NoStats == [blocks |-> 0, sum |-> 0, dT |-> 0]
NtLoops == {"internal", "count", "tps", "vote"}

VARIABLES
    nctx,        \* ctxIn
    nrun,        \* the loops that run
    nnext,       \* blocks that the websocket has delivered
    nnil,        \* results without a block that it has delivered
    nhold,       \* the result that loopInternal sends to rawC, or NtNone
    nraw,        \* rawC
    nsub,        \* StreamC of the subscription of loopTps
    nlost,       \* its ErrorC: the home has dropped the subscription
    nlist,       \* in.list of loopTps
    nstat,       \* the status published last
    nvotes       \* whether stakes have been published

netVars == <<nctx, nrun, nnext, nnil, nhold, nraw, nsub, nlost, nlist, nstat, nvotes>>

NtInit ==
    /\ nctx = "open" /\ nrun = NtLoops
    /\ nnext = 0 /\ nnil = 0 /\ nhold = NtNone /\ nraw = <<>>
    /\ nsub = <<>> /\ nlost = FALSE
    /\ nlist = <<>> /\ nstat = NoStats /\ nvotes = FALSE

NtDone ==
    /\ nctx = "open" /\ nctx' = "done"
    /\ UNCHANGED <<nrun, nnext, nnil, nhold, nraw, nsub, nlost, nlist, nstat, nvotes>>

\* case d := <-streamBlockC
TakeBlock ==
    /\ "internal" \in nrun /\ nhold = NtNone
    /\ \/ /\ nnext < NtMaxBlock /\ nnext' = nnext + 1 /\ UNCHANGED nnil
          /\ nhold' = NtResult(nnext', TRUE)
       \/ /\ nnil < NtMaxNil /\ nnil' = nnil + 1 /\ UNCHANGED nnext
          /\ nhold' = NtResult(nnext, FALSE)
    /\ UNCHANGED <<nctx, nrun, nraw, nsub, nlost, nlist, nstat, nvotes>>

\* rawC <- b, which does not watch the context.
SendRaw ==
    /\ nhold # NtNone /\ Len(nraw) < NtRawCap
    /\ nraw' = Append(nraw, nhold) /\ nhold' = NtNone
    /\ UNCHANGED <<nctx, nrun, nnext, nnil, nsub, nlost, nlist, nstat, nvotes>>

\* case b := <-rawC: one without a Block is skipped; otherwise Broadcast; a
\* full subscription gets an error instead and is deleted.
CountBlock ==
    /\ "count" \in nrun /\ nraw # <<>>
    /\ nraw' = Tail(nraw)
    /\ IF nlost \/ ~Head(nraw).body THEN UNCHANGED <<nsub, nlost>>
       ELSE IF Len(nsub) < NtSubCap
       THEN nsub' = Append(nsub, Head(nraw).n) /\ UNCHANGED nlost
       ELSE nlost' = TRUE /\ UNCHANGED nsub
    /\ UNCHANGED <<nctx, nrun, nnext, nnil, nhold, nlist, nstat, nvotes>>

\* The transactions of the blocks of a list from the k-th one on.
SumFrom(l) ==
    LET sum[k \in 1 .. Len(l) + 1] ==
            IF k = Len(l) + 1 THEN 0 ELSE NtBlock(l[k]).count + sum[k + 1]
    IN  sum

\* update: the averages as sums and divisors; the first block only gives
\* the start.
update(list) ==
    IF Len(list) < 2 THEN nstat
    ELSE [blocks |-> Len(list) - 1, sum |-> SumFrom(list)[2],
          dT |-> NtBlock(list[Len(list)]).slot - NtBlock(list[1]).slot]

\* case b := <-blockReadSub.StreamC
TpsBlock ==
    /\ "tps" \in nrun /\ nsub # <<>>
    /\ nlist' = Append(nlist, Head(nsub)) /\ nsub' = Tail(nsub)
    /\ nstat' = update(nlist')
    /\ UNCHANGED <<nctx, nrun, nnext, nnil, nhold, nraw, nlost, nvotes>>

\* loopVoteUpdate: GetVoteAccounts, whose errors are ignored.
VoteUpdate ==
    /\ "vote" \in nrun /\ nvotes' \in {nvotes, TRUE}
    /\ UNCHANGED <<nctx, nrun, nnext, nnil, nhold, nraw, nsub, nlost, nlist, nstat>>

\* Mutant: a loop that ends does not cancel the context.
NtEndsAlone(l) ==
    /\ l \in nrun
    /\ \/ nctx = "done"
       \/ l = "internal"
       \/ l = "tps" /\ nlost
    /\ l = "internal" => nhold = NtNone
    /\ nrun' = nrun \ {l}
    /\ UNCHANGED <<nctx, nnext, nnil, nhold, nraw, nsub, nlost, nlist, nstat, nvotes>>

\* doneC, a lost websocket or slot subscription, a dropped subscription:
\* finish, defer cancel().
NtEnds(l) ==
    /\ l \in nrun
    /\ \/ nctx = "done"
       \/ l = "internal"
       \/ l = "tps" /\ nlost
    /\ l = "internal" => nhold = NtNone
    /\ nrun' = nrun \ {l} /\ nctx' = "done"
    /\ UNCHANGED <<nnext, nnil, nhold, nraw, nsub, nlost, nlist, nstat, nvotes>>

-----------------------------------------------------------------------------
NtNext ==
    \/ NtDone \/ TakeBlock \/ SendRaw \/ CountBlock \/ TpsBlock \/ VoteUpdate
    \/ \E l \in NtLoops : NtEnds(l)

\* What must not stop: the loops, once they have something to do.  No step can
\* be repeated for ever, so fairness of NtRun is fairness of each step.
NtRun ==
    \/ SendRaw \/ CountBlock \/ TpsBlock
    \/ (nctx = "done" \/ nlost) /\ \E l \in NtLoops : NtEnds(l)

NtSpec == NtInit /\ [][NtNext]_netVars /\ WF_netVars(NtRun)

-----------------------------------------------------------------------------
NtTypeOK ==
    /\ nctx \in {"open", "done"} /\ nrun \subseteq NtLoops
    /\ nnext \in 0 .. NtMaxBlock /\ nnil \in 0 .. NtMaxNil
    /\ nhold \in [n : 0 .. NtMaxBlock, body : BOOLEAN]
    /\ Len(nraw) <= NtRawCap /\ Len(nsub) <= NtSubCap
    /\ nlost \in BOOLEAN /\ nvotes \in BOOLEAN

\* What is published is the average over consecutive blocks among those the
\* websocket delivers with their contents: a slow loopTps makes the statistics
\* end, it leaves none of them out.
AverageExact ==
    nstat # NoStats =>
        LET n == nstat.blocks
        IN  nstat.sum * 2 = (n + 1) * (n + 2) - 2 /\ nstat.dT = 2 * n

\* loopInternal waits for room in rawC that nobody makes any more.
NtStuck == nhold # NtNone /\ Len(nraw) = NtRawCap /\ "count" \notin nrun

\* The statistics end as a whole: when one loop ends the others do, except
\* a loopInternal that waits for room in rawC at that moment.
NtOver == nrun = {} \/ (nrun = {"internal"} /\ NtStuck)
NetworkEnds == (nrun # NtLoops) ~> NtOver
=============================================================================
