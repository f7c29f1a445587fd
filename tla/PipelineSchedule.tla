-------------------------- MODULE PipelineSchedule --------------------------
(***************************************************************************)
(* The pipeline scheduler, src/scheduler/pipeline: it tells the pipeline   *)
(* agent when to append the next period, so that the periods on the chain  *)
(* reach lookAhead slots ahead of the current slot.                        *)
(*                                                                         *)
(*   home     loopInternal    slots, period rings, lookahead -> triggers   *)
(*   period   loopPeriod      one per period         -> eventC             *)
(*   waiter   loopWaitAppend  one per trigger        -> deleteCancelC      *)
(*                                                                         *)
(* Two details of the code decide how these interact.  eventC has one      *)
(* place, its only reader is the home, and the home also sends on it (in   *)
(* on_latest).  And the loop of loopPeriod runs `for finish <= slot' from  *)
(* slot = 0, that is, not at all: a period goroutine does nothing but send *)
(* EVENT_PERIOD_FINISH and end.                                            *)
(*                                                                         *)
(* The ring of the chain is represented by the sequence of all periods     *)
(* ever appended; a snapshot of it by its length, because on_period skips  *)
(* every entry it has seen before.  A failure of the slot stream only      *)
(* makes the home subscribe again and changes no state.                    *)
(***************************************************************************)
EXTENDS Naturals, Sequences, FiniteSets

CONSTANTS
    MaxSlot,     \* bound on slots
    MaxPeriod,   \* bound on the periods appended on the chain
    MaxTrigger,  \* bound on the append triggers issued
    Lengths,     \* lengths of the periods the agents append
    LookAheads,  \* values of lookAhead
    TooClose,    \* SLOT_TOO_CLOSE_THRESHOLD
    EventCap,    \* capacity of eventC (1 in loopInternal)
    StartUp,     \* number of periods on the chain when the scheduler starts
    MaxGap       \* bound on the rings that fall between PeriodRing() and
                 \* OnPeriod()

ASSUME PipelineScheduleAssumption ==
    /\ MaxSlot \in Nat
    /\ MaxPeriod \in Nat
    /\ MaxTrigger \in Nat
    /\ Lengths \subseteq Nat \ {0}
    /\ LookAheads \subseteq Nat
    /\ TooClose \in Nat
    /\ EventCap \in Nat \ {0}
    /\ StartUp \in Nat
    /\ MaxGap \in Nat

VARIABLES
    ring,      \* periods of the chain, oldest first
    gap,       \* rings nobody was subscribed to
    periodQ,   \* periodSub.StreamC: lengths of the rings broadcast
    pc,        \* the home: "init", "subscribe", "loop" or "exit"
    todo,      \* ring entries on_period has still to look at
    outbox,    \* trigger on_latest is sending on eventC, 0 for none
    slot,      \* in.slot
    lookAhead, \* in.lookAhead
    last,      \* in.lastPeriodStart and in.lastPeriodFinish
    cancel,    \* in.cancelAppend: trigger it would cancel, 0 for nil
    trig,      \* append triggers: start, context, and is its waiter there
    starting,  \* loopPeriod goroutines that have still to send
    eventC,    \* contents of eventC
    history    \* in.history: the events broadcast

home == <<pc, todo, outbox, slot, lookAhead, last, cancel>>
vars == <<ring, gap, periodQ, pc, todo, outbox, slot, lookAhead, last, cancel,
          trig, starting, eventC, history>>

Period == [start : Nat, finish : Nat]
Trigger == [start : Nat, ctx : {"live", "done"}, waiter : BOOLEAN]

\* An event is the number of a trigger, or 0 for EVENT_PERIOD_FINISH.
FINISH == 0

\* The first slot at which the chain accepts another period.
NextFree == IF ring = <<>> THEN 1 ELSE ring[Len(ring)].finish + 1

\* Every sequence of n periods that follow each other on the chain.
Rings(n) ==
    {r \in [1 .. n -> [start : 1 .. MaxSlot, finish : 1 .. MaxSlot]] :
        /\ \A i \in 1 .. n : r[i].finish + 1 - r[i].start \in Lengths
        /\ \A i, j \in 1 .. n : i < j => r[i].finish < r[j].start}

Init ==
    /\ ring \in Rings(StartUp)
    /\ gap = 0
    /\ periodQ = <<>>
    /\ pc = "init"
    /\ todo = <<>>
    /\ outbox = 0
    /\ slot = 0
    /\ lookAhead \in LookAheads
    /\ last = [start |-> 0, finish |-> 0]
    /\ cancel = 0
    /\ trig = <<>>
    /\ starting = 0
    /\ eventC = <<>>
    /\ history = <<>>

-----------------------------------------------------------------------------
(* The chain: the agents append a period, state/pipeline broadcasts the    *)
(* ring (external).                                                        *)

ChainAppend ==
    /\ pc # "exit" /\ Len(ring) < MaxPeriod
    /\ \E s \in NextFree .. MaxSlot, n \in Lengths :
          ring' = Append(ring, [start |-> s, finish |-> s + n - 1])
    /\ IF pc = "loop"
       THEN periodQ' = Append(periodQ, Len(ring')) /\ UNCHANGED gap
       ELSE gap < MaxGap /\ gap' = gap + 1 /\ UNCHANGED periodQ
    /\ UNCHANGED <<home, trig, starting, eventC, history>>

-----------------------------------------------------------------------------
(* The home.                                                               *)

Selecting == pc = "loop" /\ todo = <<>> /\ outbox = 0

\* Mutant: the handle is cleared but the context not cancelled.
AppendCancelForgets(handle, ts) == ts

\* in.append_cancel(), on the pair of the handle and the triggers.
append_cancel(handle, ts) ==
    IF handle = 0 THEN ts ELSE [ts EXCEPT ![handle].ctx = "done"]

\* The start slot a trigger carries: 0 asks the program for the slot the
\* transaction is processed in.
TriggerStart(s, finish) ==
    LET start == IF s < finish + 1 THEN finish + 1 ELSE s
    IN  IF start - s < TooClose THEN 0 ELSE start

\* in.on_latest() up to its send on eventC, which SendEvent performs: the
\* trigger, its context with a timeout, and its loopWaitAppend.
on_latest(s, ahead, finish, handle, ts) ==
    IF s # 0 /\ handle = 0 /\ finish < s + ahead
    THEN /\ Len(ts) < MaxTrigger
         /\ trig' = Append(ts, [start |-> TriggerStart(s, finish),
                                ctx |-> "live", waiter |-> TRUE])
         /\ cancel' = Len(ts) + 1
         /\ outbox' = Len(ts) + 1
    ELSE /\ trig' = ts
         /\ cancel' = handle
         /\ outbox' = 0

\* PeriodRing() and the first on_period, which is called before the loop.
LoadRing ==
    /\ pc = "init" /\ todo = <<>>
    /\ todo' = ring
    /\ pc' = "subscribe"
    /\ UNCHANGED <<ring, gap, periodQ, outbox, slot, lookAhead, last, cancel,
                   trig, starting, eventC, history>>

\* OnSlot(), OnPeriod() and the entry into the loop.
Subscribe ==
    /\ pc = "subscribe" /\ todo = <<>> /\ outbox = 0
    /\ pc' = "loop"
    /\ UNCHANGED <<ring, gap, periodQ, todo, outbox, slot, lookAhead, last,
                   cancel, trig, starting, eventC, history>>

\* in.slot = <-slotSub.StreamC; SlotHome can skip slots and fall back.
OnSlot ==
    /\ Selecting
    /\ slot' \in 1 .. MaxSlot
    /\ on_latest(slot', lookAhead, last.finish, cancel, trig)
    /\ UNCHANGED <<ring, gap, periodQ, pc, todo, lookAhead, last, starting,
                   eventC, history>>

\* in.lookAhead = <-lookAheadC
OnLookAhead ==
    /\ Selecting
    /\ lookAhead' \in LookAheads
    /\ on_latest(slot, lookAhead', last.finish, cancel, trig)
    /\ UNCHANGED <<ring, gap, periodQ, pc, todo, slot, last, starting, eventC,
                   history>>

\* Mutant: on_period does not call append_cancel.
OnPeriodKeepsTrigger ==
    /\ Selecting /\ periodQ # <<>>
    /\ todo' = SubSeq(ring, 1, Head(periodQ))
    /\ periodQ' = Tail(periodQ)
    /\ UNCHANGED <<ring, gap, pc, outbox, slot, lookAhead, last, cancel, trig,
                   starting, eventC, history>>

\* periodRing = <-periodSub.StreamC: the start of on_period.
OnPeriod ==
    /\ Selecting /\ periodQ # <<>>
    /\ todo' = SubSeq(ring, 1, Head(periodQ))
    /\ periodQ' = Tail(periodQ)
    /\ trig' = append_cancel(cancel, trig)
    /\ cancel' = 0
    /\ UNCHANGED <<ring, gap, pc, outbox, slot, lookAhead, last, starting,
                   eventC, history>>

\* Mutant: the last period is taken for a new one.
IsNewOrLast(p) == last.start <= p.start

\* The test of on_period for a period it has not seen.
IsNew(p) == last.start < p.start

\* One iteration of on_period.  The new goroutine may send before the home
\* does.
PeriodStep ==
    /\ pc \in {"subscribe", "loop"} /\ todo # <<>> /\ outbox = 0
    /\ todo' = Tail(todo)
    /\ IF IsNew(Head(todo))
       THEN /\ last' = Head(todo)
            /\ starting' = starting + 1
            /\ on_latest(slot, lookAhead, last'.finish, cancel, trig)
       ELSE UNCHANGED <<last, starting, trig, cancel, outbox>>
    /\ UNCHANGED <<ring, gap, periodQ, pc, slot, lookAhead, eventC, history>>

\* The send of on_latest.  The home blocks here while eventC is full.
SendEvent ==
    /\ pc # "exit" /\ outbox # 0 /\ Len(eventC) < EventCap
    /\ eventC' = Append(eventC, outbox)
    /\ outbox' = 0
    /\ UNCHANGED <<ring, gap, periodQ, pc, todo, slot, lookAhead, last,
                   cancel, trig, starting, history>>

\* event = <-eventC, and the broadcast.
OnEvent ==
    /\ Selecting /\ eventC # <<>>
    /\ history' = Append(history, Head(eventC))
    /\ eventC' = Tail(eventC)
    /\ UNCHANGED <<ring, gap, periodQ, home, trig, starting>>

\* <-deleteCancelC: the waiter of trigger k hands over and ends.  Its start
\* is thrown away: whatever trigger is current gets cancelled.
OnDelete(k) ==
    /\ Selecting
    /\ trig[k].ctx = "done" /\ trig[k].waiter
    /\ trig' = [append_cancel(cancel, trig) EXCEPT ![k].waiter = FALSE]
    /\ cancel' = 0
    /\ UNCHANGED <<ring, gap, periodQ, pc, todo, outbox, slot, lookAhead,
                   last, starting, eventC, history>>

\* doneC, errorC or periodSub.ErrorC: the loop ends and the deferred
\* cancel() ends the triggers, the waiters and the period goroutines.  A
\* home that is blocked in on_latest only gets here through ctx.Done().
Exit ==
    /\ pc # "exit"
    /\ pc' = "exit"
    /\ todo' = <<>>
    /\ outbox' = 0
    /\ trig' = [k \in DOMAIN trig |->
                  [trig[k] EXCEPT !.ctx = "done", !.waiter = FALSE]]
    /\ starting' = 0
    /\ UNCHANGED <<ring, gap, periodQ, slot, lookAhead, last, cancel, eventC,
                   history>>

-----------------------------------------------------------------------------
(* The other goroutines.                                                   *)

\* Mutant: the send does not wait for room.
PeriodFinishUnbounded ==
    /\ starting > 0
    /\ starting' = starting - 1
    /\ eventC' = Append(eventC, FINISH)
    /\ UNCHANGED <<ring, gap, periodQ, home, trig, history>>

\* loopPeriod: its loop body never runs, it sends EVENT_PERIOD_FINISH.
PeriodFinish ==
    /\ starting > 0 /\ Len(eventC) < EventCap
    /\ starting' = starting - 1
    /\ eventC' = Append(eventC, FINISH)
    /\ UNCHANGED <<ring, gap, periodQ, home, trig, history>>

\* TIMEOUT_PERIOD_APPEND has passed for trigger k.
TimeOut(k) ==
    /\ pc # "exit"
    /\ trig[k].ctx = "live"
    /\ trig' = [trig EXCEPT ![k].ctx = "done"]
    /\ UNCHANGED <<ring, gap, periodQ, home, starting, eventC, history>>

-----------------------------------------------------------------------------
Home ==
    \/ LoadRing
    \/ Subscribe
    \/ OnSlot
    \/ OnLookAhead
    \/ OnPeriod
    \/ PeriodStep
    \/ SendEvent
    \/ OnEvent
    \/ Exit

Next ==
    \/ ChainAppend
    \/ Home
    \/ PeriodFinish
    \/ \E k \in DOMAIN trig : OnDelete(k) \/ TimeOut(k)

Spec == Init /\ [][Next]_vars

-----------------------------------------------------------------------------
\* The variables hold values of the shapes the Go types allow, and eventC
\* never holds more than its capacity.
TypeOK ==
    /\ ring \in Seq(Period)
    /\ gap \in 0 .. MaxGap
    /\ periodQ \in Seq(Nat)
    /\ pc \in {"init", "subscribe", "loop", "exit"}
    /\ todo \in Seq(Period)
    /\ outbox \in Nat
    /\ slot \in Nat
    /\ lookAhead \in Nat
    /\ last \in Period
    /\ cancel \in Nat
    /\ trig \in Seq(Trigger)
    /\ starting \in Nat
    /\ eventC \in Seq(Nat)
    /\ Len(eventC) <= EventCap
    /\ history \in Seq(Nat)

\* At most one append is under way: a trigger whose context still lets the
\* agent send AppendPeriod is the one in.cancelAppend would stop.
OneLiveTrigger ==
    \A k \in DOMAIN trig : trig[k].ctx = "live" => cancel = k

\* A live trigger never asks for a start slot inside a period the scheduler
\* already knows, once on_period has worked through the ring: as long as no
\* ring was missed between PeriodRing() and OnPeriod(), so that each one
\* brings at most one new period.
TriggerAhead ==
    Selecting /\ gap = 0 => \A k \in DOMAIN trig :
        trig[k].ctx = "live" /\ trig[k].start # 0
            => trig[k].start > last.finish

\* What has been broadcast or is in eventC, oldest first.
Sent == history \o eventC

\* Every trigger reaches the subscribers at most once and in the order of
\* issue, whatever the period goroutines put between: the n-th trigger to be
\* sent is the n-th issued.  And no period is lost or reported twice: what
\* has been broadcast, is in eventC or is about to be sent adds up to the
\* periods on_period took.
EventsExact ==
    /\ \A n \in 1 .. Len(Sent) : Sent[n] # FINISH =>
          Sent[n] = Cardinality({m \in 1 .. n : Sent[m] # FINISH})
    /\ pc = "loop" /\ todo = <<>> /\ periodQ = <<>> /\ gap = 0 =>
          Cardinality({n \in 1 .. Len(Sent) : Sent[n] = FINISH}) + starting
             = Len(ring)
=============================================================================
