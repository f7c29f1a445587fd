--------------------------- MODULE ValidatorRelay ---------------------------
(***************************************************************************)
(* The relay of a validator, src/proxy/relay/validator: loopInternal takes *)
(* transactions from txC, which has no buffer, only while the rate is      *)
(* below what the validator's stake allows; a goroutine per transaction    *)
(* sends it and answers the caller of Submit.  The time is measured from   *)
(* the start of the relay, since boxStart is never set again.              *)
(***************************************************************************)
EXTENDS Naturals

CONSTANTS
    YrCallers,   \* callers of Submit
    YrMaxTime,   \* bound on the time
    YrMaxTps     \* bound on the transactions per second of the network

ASSUME ValidatorRelayAssumption == YrMaxTime \in Nat /\ YrMaxTps \in Nat

VARIABLES
    yctx,        \* context of the relay
    yloop,       \* loopInternal: "run", "dead"
    ytime,       \* seconds since boxStart
    ynet,        \* in.networkTps, with its 10 % on top
    yshare,      \* in.stakeShare: 0 or 1
    yallowed,    \* in.allowedTps
    ycount,      \* in.txCountInPeriod
    yread,       \* in.readTx
    ycall,       \* each caller: "new", "put", "wait", "sig", "end"
    yrpc         \* its transaction: "none", "sending", "sent", "failed"

yrVars == <<yctx, yloop, ytime, ynet, yshare, yallowed, ycount, yread, ycall, yrpc>>

YrInit ==
    /\ yctx = "open" /\ yloop = "run" /\ ytime = 0
    /\ ynet = 0 /\ yshare = 0 /\ yallowed = 0 /\ ycount = 0 /\ yread = TRUE
    /\ ycall = [c \in YrCallers |-> "new"]
    /\ yrpc = [c \in YrCallers |-> "none"]

YrDone ==
    /\ yctx = "open" /\ yctx' = "done"
    /\ UNCHANGED <<yloop, ytime, ynet, yshare, yallowed, ycount, yread, ycall, yrpc>>

Tick ==
    /\ ytime < YrMaxTime /\ ytime' = ytime + 1
    /\ UNCHANGED <<yctx, yloop, ynet, yshare, yallowed, ycount, yread, ycall, yrpc>>

OnNetwork(n) ==
    /\ yloop = "run" /\ ynet' = n /\ yallowed' = n * yshare
    /\ UNCHANGED <<yctx, yloop, ytime, yshare, ycount, yread, ycall, yrpc>>

\* A total stake of 0 leaves allowedTps as it was.
OnStake ==
    /\ yloop = "run"
    /\ \/ yshare' = 0 /\ UNCHANGED yallowed
       \/ yshare' \in {0, 1} /\ yallowed' = ynet * yshare'
    /\ UNCHANGED <<yctx, yloop, ytime, ynet, ycount, yread, ycall, yrpc>>

\* nextBoxC, every ten seconds.
NextBox ==
    /\ yloop = "run" /\ (ycount > 0 \/ ~yread)
    /\ ycount' = 0 /\ yread' = TRUE
    /\ UNCHANGED <<yctx, yloop, ytime, ynet, yshare, yallowed, ycall, yrpc>>

\* Submit, once the peer is known.
Submit(c) ==
    /\ ycall[c] = "new" /\ ycall' \in {[ycall EXCEPT ![c] = x] : x \in {"put", "end"}}
    /\ UNCHANGED <<yctx, yloop, ytime, ynet, yshare, yallowed, ycount, yread, yrpc>>

\* allowedTps <= txCountInPeriod / (now - boxStart), without the division.
Exceeded(n) == yallowed * ytime <= n

\* txC, then process: a blank transaction is refused on the spot.
Take(c) ==
    /\ yloop = "run" /\ yread /\ ycall[c] = "put"
    /\ ycall' = [ycall EXCEPT ![c] = "wait"]
    /\ yrpc' \in {[yrpc EXCEPT ![c] = x] : x \in {"sending", "failed"}}
    /\ ycount' = ycount + 1
    /\ yread' = ~Exceeded(ycount + 1)
    /\ UNCHANGED <<yctx, yloop, ytime, ynet, yshare, yallowed>>

\* loopRpcSendTx has a context of its own: the one of the call.
loopRpcSendTx(c) ==
    /\ yrpc[c] = "sending"
    /\ yrpc' \in {[yrpc EXCEPT ![c] = x] : x \in {"sent", "failed"}}
    /\ UNCHANGED <<yctx, yloop, ytime, ynet, yshare, yallowed, ycount, yread, ycall>>

\* errorC, then sigC.
Answer(c) ==
    /\ \/ ycall[c] = "wait" /\ yrpc[c] = "failed" /\ ycall' = [ycall EXCEPT ![c] = "end"]
       \/ ycall[c] = "wait" /\ yrpc[c] = "sent" /\ ycall' = [ycall EXCEPT ![c] = "sig"]
       \/ ycall[c] = "sig" /\ ycall' = [ycall EXCEPT ![c] = "end"]
    /\ UNCHANGED <<yctx, yloop, ytime, ynet, yshare, yallowed, ycount, yread, yrpc>>

\* The context of the call is done.
YrCanceled(c) ==
    /\ ycall[c] \in {"put", "wait"} /\ ycall' = [ycall EXCEPT ![c] = "end"]
    /\ UNCHANGED <<yctx, yloop, ytime, ynet, yshare, yallowed, ycount, yread, yrpc>>

\* doneC, or a lost subscription.
YrEnds ==
    /\ yloop = "run" /\ yloop' = "dead" /\ yctx' = "done"
    /\ UNCHANGED <<ytime, ynet, yshare, yallowed, ycount, yread, ycall, yrpc>>

\* What does not wait for the outside world, each finitely often.
YrRun == NextBox \/ \E c \in YrCallers : Take(c) \/ loopRpcSendTx(c) \/ Answer(c)

YrNext ==
    \/ YrDone \/ Tick \/ OnStake \/ YrEnds
    \/ \E n \in 0 .. YrMaxTps : OnNetwork(n)
    \/ \E c \in YrCallers : Submit(c) \/ YrCanceled(c)
    \/ YrRun

YrSpec == YrInit /\ [][YrNext]_yrVars /\ WF_yrVars(YrRun)

-----------------------------------------------------------------------------
YrTypeOK ==
    /\ yctx \in {"open", "done"} /\ yloop \in {"run", "dead"}
    /\ ytime \in 0 .. YrMaxTime /\ ynet \in 0 .. YrMaxTps /\ yshare \in {0, 1}
    /\ yallowed \in 0 .. YrMaxTps /\ yread \in BOOLEAN
    /\ ycall \in [YrCallers -> {"new", "put", "wait", "sig", "end"}]
    /\ yrpc \in [YrCallers -> {"none", "sending", "sent", "failed"}]

\* Submit returns, also for a validator whose stake allows nothing: the
\* only caller that waits for ever stands before a relay that has ended.
Submitted(c) == ycall[c] = "end" \/ (ycall[c] = "put" /\ yloop = "dead")
SubmitReturns == \A c \in YrCallers : (ycall[c] = "put") ~> Submitted(c)
=============================================================================
