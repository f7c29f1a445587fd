------------------------------ MODULE Cranker ------------------------------
(***************************************************************************)
(* The cranker agent of src/agent/cranker: loopInternal keeps, for each    *)
(* pipeline, the slot of a late period (nextCrank) and the slot of the     *)
(* last attempt, and hands requests to the worker loopCrank over           *)
(* crankRequestC; the worker answers over crankResponseC.  Both channels   *)
(* hold one entry, and loopInternal sends without reading answers.         *)
(***************************************************************************)
EXTENDS Naturals, Sequences, FiniteSets

CONSTANTS
    CkPipes,     \* pipelines
    CkRings,     \* period rings: sequences of [start, len]
    CkMaxSlot,   \* bound on the slot
    RETRY_SLOT   \* slots between two attempts (100)

\* Slots are natural numbers; any set of rings.
ASSUME CrankerAssumption ==
    /\ CkMaxSlot \in Nat /\ RETRY_SLOT \in Nat
    /\ CkRings \subseteq Seq([start : Nat, len : Nat])

VARIABLES
    kctx,        \* the agent's context
    kloop,       \* loopInternal: "init", "run", "slot", "dead", "hung" (in a
                 \* call on a pipeline, the router or the slot home)
    kslot,       \* in.slot
    kstatus,     \* in.status: pipeline -> ring, nextCrank, lastAttempedCrank
    kdue,        \* pipelines that on_slot still has to visit
    kfunds,      \* balanceThreshold < balance
    kreq,        \* crankRequestC
    kresp,       \* crankResponseC
    kwork,       \* the request that loopCrank holds
    kworker,     \* loopCrank: "run", "dead"
    klate,       \* (history) the slots of the requests of each pipeline
    kover        \* (history) the pipelines of which a ring was told that had
                 \* a period that was over

crankVars == <<kctx, kloop, kslot, kstatus, kdue, kfunds, kreq, kresp, kwork,
               kworker, klate, kover>>

NoStatus == [known |-> FALSE, ring |-> <<>>, next |-> 0, last |-> 0]

KInit ==
    /\ kctx = "open" /\ kloop = "init" /\ kslot = 0
    /\ kstatus = [p \in CkPipes |-> NoStatus]
    /\ kdue = {}
    /\ kfunds \in BOOLEAN
    /\ kreq = <<>> /\ kresp = <<>> /\ kwork = <<>> /\ kworker = "run"
    /\ klate = [p \in CkPipes |-> {}] /\ kover = {}

KDone ==
    /\ kctx = "open"
    /\ kctx' = "done"
    /\ UNCHANGED <<kloop, kslot, kstatus, kdue, kfunds, kreq, kresp, kwork,
                   kworker, klate, kover>>

\* The start of the first period of the ring that is over, or 0.
getNextPeriod(slot, ring) ==
    LET over == {i \in DOMAIN ring : ring[i].start + ring[i].len <= slot}
    IN  IF over = {} THEN 0
        ELSE ring[CHOOSE i \in over : \A j \in over : i <= j].start

\* on_period: a ring without a late period leaves nextCrank as it was.
OnPeriod(st, ring, slot) ==
    LET next == getNextPeriod(slot, ring)
    IN  [st EXCEPT !.known = TRUE, !.ring = ring,
                   !.next = IF next = 0 THEN @ ELSE next]

\* Some period of the ring is over.
IsOver(ring, slot) == \E i \in DOMAIN ring : ring[i].start + ring[i].len <= slot

\* Create and init: the current slot, then the rings of the pipelines known
\* so far; any RPC on the way may fail.  PeriodRing() of a pipeline that has
\* not read its ring yet fetches it and answers only when that fails
\* (state/pipeline/pipeline.go:283-296); it and the other calls without a
\* context hang on a pipeline, a router or a slot home that has ended.
KCreate ==
    /\ kloop = "init"
    /\ \/ /\ kloop' = "run" /\ kslot' \in 0 .. CkMaxSlot
          /\ \E f \in [CkPipes -> CkRings \cup {<<>>}] :
                kstatus' = [p \in CkPipes |->
                    IF f[p] = <<>> THEN NoStatus ELSE OnPeriod(NoStatus, f[p], kslot')]
                /\ kover' = {p \in CkPipes : IsOver(f[p], kslot')}
          /\ UNCHANGED kctx
       \/ kloop' = "dead" /\ kctx' = "done" /\ UNCHANGED <<kslot, kstatus, kover>>
       \/ kloop' = "hung" /\ UNCHANGED <<kctx, kslot, kstatus, kover>>
    /\ UNCHANGED <<kdue, kfunds, kreq, kresp, kwork, kworker, klate>>

\* get_status asks the router and the pipeline of a new status without a
\* context, and may hang there.
on_period(p) ==
    /\ kloop = "run"
    /\ \/ \E ring \in CkRings :
            /\ kstatus' = [kstatus EXCEPT ![p] = OnPeriod(@, ring, kslot)]
            /\ kover' = IF IsOver(ring, kslot) THEN kover \cup {p} ELSE kover
            /\ UNCHANGED kloop
       \/ ~kstatus[p].known /\ kloop' = "hung" /\ UNCHANGED <<kstatus, kover>>
    /\ UNCHANGED <<kctx, kslot, kdue, kfunds, kreq, kresp, kwork, kworker, klate>>

on_balance ==
    /\ kloop = "run"
    /\ kfunds' = ~kfunds
    /\ UNCHANGED <<kctx, kloop, kslot, kstatus, kdue, kreq, kresp, kwork,
                   kworker, klate, kover>>

\* on_slot: then crank for each status.
on_slot ==
    /\ kloop = "run" /\ kslot < CkMaxSlot
    /\ kslot' = kslot + 1
    /\ kdue' = {p \in CkPipes : kstatus[p].known}
    /\ kloop' = "slot"
    /\ UNCHANGED <<kctx, kstatus, kfunds, kreq, kresp, kwork, kworker, klate, kover>>

Due(st) == st.next # 0 /\ st.next <= kslot /\ st.last + RETRY_SLOT < kslot

\* The first period of the ring after lastPeriodStart, which stays 0.
Chosen(ring) == {i \in DOMAIN ring : 0 < ring[i].start}

\* crank without a request: not due, no funds, or no period.
CrankSkip(p) ==
    /\ kloop = "slot" /\ p \in kdue
    /\ ~Due(kstatus[p]) \/ ~kfunds \/ Chosen(kstatus[p].ring) = {}
    /\ kstatus' = [kstatus EXCEPT ![p].last = IF Due(kstatus[p]) THEN kslot ELSE @]
    /\ kdue' = kdue \ {p}
    /\ UNCHANGED <<kctx, kloop, kslot, kfunds, kreq, kresp, kwork, kworker, klate, kover>>

\* Mutant: the attempt is not recorded.
CrankSendAgain(p) ==
    /\ kloop = "slot" /\ p \in kdue
    /\ Due(kstatus[p]) /\ kfunds /\ Chosen(kstatus[p].ring) # {}
    /\ \/ /\ Len(kreq) < 1
          /\ kreq' = Append(kreq, p)
          /\ klate' = [klate EXCEPT ![p] = @ \cup {kslot}]
       \/ kctx = "done" /\ UNCHANGED <<kreq, klate>>
    /\ kdue' = kdue \ {p}
    /\ UNCHANGED <<kctx, kloop, kslot, kstatus, kfunds, kresp, kwork, kworker, kover>>

\* crank with a request: blocks while crankRequestC is full.
CrankSend(p) ==
    /\ kloop = "slot" /\ p \in kdue
    /\ Due(kstatus[p]) /\ kfunds /\ Chosen(kstatus[p].ring) # {}
    /\ \/ /\ Len(kreq) < 1
          /\ kreq' = Append(kreq, p)
          /\ klate' = [klate EXCEPT ![p] = @ \cup {kslot}]
       \/ kctx = "done" /\ UNCHANGED <<kreq, klate>>
    /\ kstatus' = [kstatus EXCEPT ![p].last = kslot]
    /\ kdue' = kdue \ {p}
    /\ UNCHANGED <<kctx, kloop, kslot, kfunds, kresp, kwork, kworker, kover>>

SlotReturns ==
    /\ kloop = "slot" /\ kdue = {}
    /\ kloop' = "run"
    /\ UNCHANGED <<kctx, kslot, kstatus, kdue, kfunds, kreq, kresp, kwork,
                   kworker, klate, kover>>

\* case resp := <-crankResponseC
OnResponse ==
    /\ kloop = "run" /\ kresp # <<>>
    /\ kresp' = <<>>
    /\ UNCHANGED <<kctx, kloop, kslot, kstatus, kdue, kfunds, kreq, kwork,
                   kworker, klate, kover>>

\* doneC, errorC or a lost subscription; defer cancel().
KEnds ==
    /\ kloop = "run"
    /\ kloop' = "dead" /\ kctx' = "done"
    /\ UNCHANGED <<kslot, kstatus, kdue, kfunds, kreq, kresp, kwork, kworker, klate, kover>>

-----------------------------------------------------------------------------
(* loopCrank; run does nothing yet.                                        *)

WorkerTakes ==
    /\ kworker = "run" /\ kwork = <<>> /\ kreq # <<>>
    /\ kwork' = kreq /\ kreq' = <<>>
    /\ UNCHANGED <<kctx, kloop, kslot, kstatus, kdue, kfunds, kresp, kworker, klate, kover>>

WorkerAnswers ==
    /\ kworker = "run" /\ kwork # <<>> /\ kresp = <<>>
    /\ kresp' = kwork /\ kwork' = <<>>
    /\ UNCHANGED <<kctx, kloop, kslot, kstatus, kdue, kfunds, kreq, kworker, klate, kover>>

\* Mutant: the worker does not watch its context while it answers.
WorkerEndsIdle ==
    /\ kworker = "run" /\ kctx = "done" /\ kwork = <<>>
    /\ kworker' = "dead"
    /\ UNCHANGED <<kctx, kloop, kslot, kstatus, kdue, kfunds, kreq, kresp, kwork, klate, kover>>

WorkerEnds ==
    /\ kworker = "run" /\ kctx = "done"
    /\ kworker' = "dead"
    /\ UNCHANGED <<kctx, kloop, kslot, kstatus, kdue, kfunds, kreq, kresp, kwork, klate, kover>>

KLoop == SlotReturns \/ OnResponse \/ \E p \in CkPipes : CrankSkip(p) \/ CrankSend(p)
KWorker == WorkerTakes \/ WorkerAnswers \/ WorkerEnds

KNext ==
    \/ KDone \/ KCreate \/ on_balance \/ on_slot \/ KEnds
    \/ \E p \in CkPipes : on_period(p)
    \/ KLoop \/ KWorker

\* The goroutines run; nothing forces slots, periods or the end.
KSpec ==
    /\ KInit /\ [][KNext]_crankVars
    /\ WF_crankVars(KCreate) /\ WF_crankVars(KLoop) /\ WF_crankVars(KWorker)
    /\ WF_crankVars(kctx = "done" /\ KEnds)

-----------------------------------------------------------------------------
KTypeOK ==
    /\ kctx \in {"open", "done"} /\ kloop \in {"init", "run", "slot", "dead", "hung"}
    /\ kslot \in 0 .. CkMaxSlot
    /\ \A p \in CkPipes :
        /\ kstatus[p].ring \in CkRings \cup {<<>>}
        /\ kstatus[p].next \in 0 .. CkMaxSlot /\ kstatus[p].last \in 0 .. CkMaxSlot
    /\ kdue \subseteq CkPipes
    /\ Len(kreq) <= 1 /\ Len(kresp) <= 1 /\ Len(kwork) <= 1
    /\ kworker \in {"run", "dead"}

\* The cranker never asks for a pipeline again within RETRY_SLOT slots, and
\* asks only after it was told a ring of the pipeline of which a period was
\* over by then: whatever rings, balances and answers arrive in between.
\* (nextCrank is not reset, so the ring that is current when it asks need not
\* have such a period any more.)
CrankPaced ==
    \A p \in CkPipes : \A a, b \in klate[p] :
        /\ a # b => a + RETRY_SLOT < b \/ b + RETRY_SLOT < a
        /\ p \in kover

\* Everything that the cranker started ends once its context is done, even
\* if the two goroutines wait for each other at that moment: each of the two
\* blocking sends also watches the context.  Only a loopInternal that hangs
\* in a call without a context does not.
KOver == kloop \in {"dead", "hung"} /\ kworker = "dead"
CrankerEnds == (kctx = "done") ~> KOver

\* loopInternal and loopCrank wait for each other: both channels are full,
\* the worker holds a request, and on_slot has one more to send.
KWedged ==
    kloop = "slot" /\ kreq # <<>> /\ kwork # <<>> /\ kresp # <<>>

\* on_slot returns, unless the two goroutines wait for each other: then they
\* do so until the context is done.
KServed == kloop # "slot" \/ KWedged
CrankerServes == (kloop = "slot") ~> KServed
=============================================================================
