------------------------ MODULE PayoutScheduleProofs ------------------------
(***************************************************************************)
(* Proofs about PayoutSchedule, for every period, every delay, every       *)
(* capacity and every bound: type correctness, that no trigger is          *)
(* broadcast before the chain can accept its instruction, and, in the      *)
(* second half, that none is broadcast twice, that the scheduler ends only *)
(* with a complete history, that retries stop and no invitation is late.   *)
(*                                                                         *)
(* A trigger is the last link of a chain of messages: a slot or an account *)
(* is read, an event waits for eventC, loopInternal stores a flag, a later *)
(* event finds the flag and broadcasts.  TriggersTimely is inductive only  *)
(* with the meaning of every message on the way: what a goroutine has      *)
(* still to send (Justified), what is on the data streams (Past), the      *)
(* snapshot, and the flags of internal (Sound).                            *)
(***************************************************************************)
EXTENDS PayoutSchedule, SequenceTheorems, TLAPS

\* What a pending event or step says of the chain is so.
Holds(e) ==
    /\ e = "START" => slot >= Start
    /\ e = "FINISH" => slot >= Finish
    /\ e = "DELAY_CLOSE" => slot >= CloseOut
    /\ e = "BID_CLOSED" => ~data.open

Justified == {e \in Events \cup Steps : Holds(e)}

\* Account states that can be in the past of the present one: the Bids
\* account, once closed, does not come back.
Past == {d \in Data : ~d.open => ~data.open}

\* The flags of internal are so on the chain, and TriggersTimely.
Sound(i) ==
    /\ i.hasStarted => slot >= Start
    /\ i.hasFinished => slot >= Finish
    /\ i.isClockReadyToClose => slot >= CloseOut
    /\ i.bidHasClosed => ~data.open
    /\ i.count["CRANK"] > 0 => slot >= Start
    /\ i.count["CLOSE_BIDS"] > 0 => slot >= Finish
    /\ i.count["CLOSE_PAYOUT"] > 0 => slot >= CloseOut /\ ~data.open

\* The inductive invariant.
IInv ==
    /\ TypeOK
    /\ snap \in Past
    /\ \A g \in Routines : pend[g] \in Seq(Justified)
    /\ \A r \in Readers : dq[r] \in Seq(Past)
    /\ Sound(in)

-----------------------------------------------------------------------------
(* The handlers of loopInternal.                                           *)

\* The period finishes no earlier than it starts.
LEMMA PeriodOrder ==
  /\ Finish \in Nat /\ Start <= Finish
  /\ CloseOut \in Nat /\ Finish <= CloseOut
  BY PayoutScheduleAssumption DEF Finish, CloseOut

\* The event names.
LEMMA CountDomain ==
  /\ {"CRANK", "CLOSE_BIDS", "CLOSE_PAYOUT", "SET_PAYOUT", "WITHDRAW"}
        \subseteq Events \cup Triggers
  /\ Events \subseteq Events \cup Triggers
  /\ {"CRANK", "CLOSE_BIDS", "CLOSE_PAYOUT"} \cap Events = {}
  BY DEF Events, Triggers, ClockEvents, DataEvents, StakeEvents

\* broadcast counts the event and changes nothing else.
LEMMA BroadcastTyped ==
  ASSUME NEW i \in InternalType, NEW e \in Events \cup Triggers
  PROVE  /\ broadcast(i, e) \in InternalType
         /\ broadcast(i, e).hasStarted = i.hasStarted
         /\ broadcast(i, e).hasFinished = i.hasFinished
         /\ broadcast(i, e).isClockReadyToClose = i.isClockReadyToClose
         /\ broadcast(i, e).bidHasClosed = i.bidHasClosed
         /\ \A f \in Events \cup Triggers : 
               f # e => broadcast(i, e).count[f] = i.count[f]
<1>1. i.count \in [Events \cup Triggers -> Nat]
  BY DEF InternalType
<1> DEFINE c == [i.count EXCEPT ![e] = @ + 1]
<1>2. /\ c \in [Events \cup Triggers -> Nat]
      /\ \A f \in Events \cup Triggers : f # e => c[f] = i.count[f]
  BY <1>1
<1>3. broadcast(i, e) = [i EXCEPT !.count = c]
  BY DEF broadcast, InternalType
<1> HIDE DEF c
<1>4. QED
  BY <1>2, <1>3 DEF InternalType

\* A broadcast that is timely leaves the flags sound.
LEMMA BroadcastSound ==
  ASSUME NEW i \in InternalType, NEW e \in Events \cup Triggers, Sound(i),
         e = "CRANK" => slot >= Start,
         e = "CLOSE_BIDS" => slot >= Finish,
         e = "CLOSE_PAYOUT" => slot >= CloseOut /\ ~data.open
  PROVE  broadcast(i, e) \in InternalType /\ Sound(broadcast(i, e))
<1> DEFINE b == broadcast(i, e)
<1>1. /\ b \in InternalType
      /\ b.hasStarted = i.hasStarted
      /\ b.hasFinished = i.hasFinished
      /\ b.isClockReadyToClose = i.isClockReadyToClose
      /\ b.bidHasClosed = i.bidHasClosed
      /\ \A f \in Events \cup Triggers : f # e => b.count[f] = i.count[f]
  BY BroadcastTyped
<1> HIDE DEF b
<1>2. /\ "CRANK" # e => b.count["CRANK"] = i.count["CRANK"]
      /\ "CLOSE_BIDS" # e => b.count["CLOSE_BIDS"] = i.count["CLOSE_BIDS"]
      /\ "CLOSE_PAYOUT" # e => b.count["CLOSE_PAYOUT"] = i.count["CLOSE_PAYOUT"]
  BY <1>1, CountDomain
<1>3. Sound(b)
  BY <1>1, <1>2 DEF Sound
<1>4. QED
  BY <1>1, <1>3 DEF b

\* run_crank
LEMMA RunCrank ==
  ASSUME NEW i \in InternalType, Sound(i)
  PROVE  run_crank(i) \in InternalType /\ Sound(run_crank(i))
<1> DEFINE j == [i EXCEPT !.ctx["CRANK"] = "live"]
<1>1. j \in InternalType /\ Sound(j) /\ j.hasStarted = i.hasStarted
  BY DEF InternalType, CtxState, Triggers, Sound
<1>2. run_crank(i) = i \/ (i.hasStarted /\ run_crank(i) = broadcast(j, "CRANK"))
  BY DEF run_crank
<1> HIDE DEF j
<1>3. CASE i.hasStarted /\ run_crank(i) = broadcast(j, "CRANK")
  <2>1. slot >= Start
    BY <1>3 DEF Sound
  <2>2. QED
    BY <2>1, <1>1, <1>3, BroadcastSound, CountDomain
<1>4. QED
  BY <1>2, <1>3

\* run_close_bids, called only once the period is over.
LEMMA RunCloseBids ==
  ASSUME NEW i \in InternalType, Sound(i), slot >= Finish
  PROVE  run_close_bids(i) \in InternalType /\ Sound(run_close_bids(i))
<1> DEFINE j == [i EXCEPT !.ctx["CLOSE_BIDS"] = "live"]
<1>1. j \in InternalType /\ Sound(j)
  BY DEF InternalType, CtxState, Triggers, Sound
<1>2. run_close_bids(i) = i \/ run_close_bids(i) = broadcast(j, "CLOSE_BIDS")
  BY DEF run_close_bids
<1> HIDE DEF j
<1>3. QED
  BY <1>1, <1>2, BroadcastSound, CountDomain

\* run_close_payout
LEMMA RunClosePayout ==
  ASSUME NEW i \in InternalType, Sound(i)
  PROVE  run_close_payout(i) \in InternalType /\ Sound(run_close_payout(i))
<1> DEFINE j == [i EXCEPT !.keepPayoutOpen = FALSE]
<1>1. j \in InternalType /\ Sound(j)
  BY DEF InternalType, Sound
<1>2. \/ run_close_payout(i) = i
      \/ /\ i.bidHasClosed /\ i.isClockReadyToClose
         /\ run_close_payout(i) = broadcast(j, "CLOSE_PAYOUT")
  BY DEF run_close_payout
<1> HIDE DEF j
<1>3. CASE /\ i.bidHasClosed /\ i.isClockReadyToClose
           /\ run_close_payout(i) = broadcast(j, "CLOSE_PAYOUT")
  <2>1. slot >= CloseOut /\ ~data.open
    BY <1>3 DEF Sound
  <2>2. QED
    BY <2>1, <1>1, <1>3, BroadcastSound, CountDomain
<1>4. QED
  BY <1>2, <1>3

\* run_validator_set_payout
LEMMA RunValidatorSetPayout ==
  ASSUME NEW i \in InternalType, Sound(i)
  PROVE  /\ run_validator_set_payout(i) \in InternalType
         /\ Sound(run_validator_set_payout(i))
<1> DEFINE j == [i EXCEPT !.ctx["SET_PAYOUT"] = "live",
                          !.cancelValidatorWithdraw = "SET_PAYOUT"]
<1>1. j \in InternalType /\ Sound(j)
  BY DEF InternalType, CtxState, Triggers, ContextOf, Sound
<1>2. \/ run_validator_set_payout(i) = i
      \/ run_validator_set_payout(i) = broadcast(j, "SET_PAYOUT")
  BY DEF run_validator_set_payout
<1> HIDE DEF j
<1>3. QED
  BY <1>1, <1>2, BroadcastSound, CountDomain

\* run_validator_withdraw
LEMMA RunValidatorWithdraw ==
  ASSUME NEW i \in InternalType, Sound(i)
  PROVE  /\ run_validator_withdraw(i) \in InternalType
         /\ Sound(run_validator_withdraw(i))
<1> DEFINE j == [i EXCEPT !.ctx["WITHDRAW"] = "live",
                          !.cancelValidatorWithdraw = "WITHDRAW"]
<1>1. j \in InternalType /\ Sound(j)
  BY DEF InternalType, CtxState, Triggers, ContextOf, Sound
<1>2. \/ run_validator_withdraw(i) = i
      \/ run_validator_withdraw(i) = broadcast(j, "WITHDRAW")
  BY DEF run_validator_withdraw
<1> HIDE DEF j
<1>3. QED
  BY <1>1, <1>2, BroadcastSound, CountDomain

\* on_start, called only once the period has started.
LEMMA OnStart ==
  ASSUME NEW i \in InternalType, Sound(i), slot >= Start
  PROVE  on_start(i) \in InternalType /\ Sound(on_start(i))
<1> DEFINE started == [i EXCEPT !.hasStarted = TRUE]
           t == i.cancelValidatorSetPayout
           cancelled == IF t = "nil" THEN started
                        ELSE [started EXCEPT !.ctx[t] = "done"]
<1>1. started \in InternalType /\ Sound(started)
  BY DEF InternalType, Sound
<1>2. t # "nil" => t \in Triggers
  BY DEF InternalType, ContextOf, Triggers
<1>3. on_start(i) = IF i.bidIsFinal THEN cancelled ELSE run_crank(cancelled)
  BY DEF on_start
<1> HIDE DEF started, t
<1>4. cancelled \in InternalType /\ Sound(cancelled)
  <2>1. CASE t = "nil"
    BY <1>1, <2>1
  <2>2. CASE t # "nil"
    BY <1>1, <1>2, <2>2 DEF InternalType, CtxState, Sound
  <2>3. QED
    BY <2>1, <2>2
<1> HIDE DEF cancelled
<1>5. QED
  BY <1>3, <1>4, RunCrank

\* on_finish, called only once the period is over.
LEMMA OnFinish ==
  ASSUME NEW i \in InternalType, Sound(i), slot \in Nat, slot >= Finish
  PROVE  on_finish(i) \in InternalType /\ Sound(on_finish(i))
<1> DEFINE j == IF i.hasStarted THEN i ELSE on_start(i)
           finished == [j EXCEPT !.hasFinished = TRUE]
<1>1. slot >= Start
  BY PeriodOrder, PayoutScheduleAssumption
<1>2. j \in InternalType /\ Sound(j)
  BY <1>1, OnStart
<1>3. on_finish(i) = IF finished.bidHasClosed THEN finished
                     ELSE run_close_bids(finished)
  BY DEF on_finish
<1> HIDE DEF j
<1>4. finished \in InternalType /\ Sound(finished)
  BY <1>2 DEF InternalType, Sound
<1> HIDE DEF finished
<1>5. QED
  BY <1>3, <1>4, RunCloseBids

\* on_clock_close_payout, called only once the delay has passed.
LEMMA OnClockClosePayout ==
  ASSUME NEW i \in InternalType, Sound(i), slot \in Nat, slot >= CloseOut
  PROVE  /\ on_clock_close_payout(i) \in InternalType
         /\ Sound(on_clock_close_payout(i))
<1> DEFINE j == IF i.hasFinished THEN i ELSE on_finish(i)
           ready == [j EXCEPT !.isClockReadyToClose = TRUE]
<1>1. slot >= Finish
  BY PeriodOrder
<1>2. j \in InternalType /\ Sound(j)
  BY <1>1, OnFinish
<1>3. on_clock_close_payout(i) = run_close_payout(ready)
  BY DEF on_clock_close_payout
<1> HIDE DEF j
<1>4. ready \in InternalType /\ Sound(ready)
  BY <1>2 DEF InternalType, Sound
<1> HIDE DEF ready
<1>5. QED
  BY <1>3, <1>4, RunClosePayout

\* Cancelling a context touches no flag.
LEMMA CancelledSound ==
  ASSUME NEW i \in InternalType, Sound(i), NEW t \in Triggers
  PROVE  Cancelled(i, t) \in InternalType /\ Sound(Cancelled(i, t))
  BY DEF Cancelled, InternalType, CtxState, Sound

\* on_bid_final
LEMMA OnBidFinal ==
  ASSUME NEW i \in InternalType, Sound(i)
  PROVE  on_bid_final(i) \in InternalType /\ Sound(on_bid_final(i))
<1> DEFINE j == [i EXCEPT !.bidIsFinal = TRUE]
<1>1. j \in InternalType /\ Sound(j)
  BY DEF InternalType, Sound
<1>2. on_bid_final(i) = Cancelled(j, "CRANK")
  BY DEF on_bid_final
<1> HIDE DEF j
<1>3. QED
  BY <1>1, <1>2, CancelledSound DEF Triggers

\* on_bid_closed
LEMMA OnBidClosed ==
  ASSUME NEW i \in InternalType, Sound(i), ~data.open
  PROVE  on_bid_closed(i) \in InternalType /\ Sound(on_bid_closed(i))
<1> DEFINE j == [i EXCEPT !.bidIsFinal = TRUE, !.bidHasClosed = TRUE]
<1>1. j \in InternalType /\ Sound(j)
  BY DEF InternalType, Sound
<1>2. on_bid_closed(i) = run_close_payout(Cancelled(j, "CLOSE_BIDS"))
  BY DEF on_bid_closed
<1> HIDE DEF j
<1>3. QED
  BY <1>1, <1>2, CancelledSound, RunClosePayout DEF Triggers

\* The handlers of the validator and staker events.
LEMMA OnOthers ==
  ASSUME NEW i \in InternalType, Sound(i)
  PROVE  /\ on_pre_start(i) \in InternalType /\ Sound(on_pre_start(i))
         /\ on_validator_is_adding(i) \in InternalType
         /\ Sound(on_validator_is_adding(i))
         /\ on_validator_have_withdrawn(i) \in InternalType
         /\ Sound(on_validator_have_withdrawn(i))
         /\ on_staker_is_adding(i) \in InternalType
         /\ Sound(on_staker_is_adding(i))
         /\ on_staker_have_withdrawn(i) \in InternalType
         /\ Sound(on_staker_have_withdrawn(i))
<1>1. on_pre_start(i) \in InternalType /\ Sound(on_pre_start(i))
  BY RunValidatorSetPayout DEF on_pre_start
<1>2. /\ on_validator_is_adding(i) \in InternalType
      /\ Sound(on_validator_is_adding(i))
      /\ on_staker_is_adding(i) \in InternalType
      /\ Sound(on_staker_is_adding(i))
  BY DEF on_validator_is_adding, on_staker_is_adding, InternalType, Sound
<1> DEFINE v == [i EXCEPT !.validatorAddingHasStarted = TRUE,
                          !.validatorHasWithdrawn = TRUE]
           s == [i EXCEPT !.stakerAddingHasStarted = TRUE,
                          !.stakerAddingIsDone = TRUE]
<1>3. v \in InternalType /\ Sound(v) /\ s \in InternalType /\ Sound(s)
  BY DEF InternalType, Sound
<1>4. /\ on_validator_have_withdrawn(i) = run_close_payout(v)
      /\ on_staker_have_withdrawn(i) = run_validator_withdraw(s)
  BY DEF on_validator_have_withdrawn, on_staker_have_withdrawn
<1> HIDE DEF v, s
<1>5. QED
  BY <1>1, <1>2, <1>3, <1>4, RunClosePayout, RunValidatorWithdraw

\* on_event keeps the flags sound when the event it handles is justified.
LEMMA OnEvent ==
  ASSUME NEW i \in InternalType, Sound(i), NEW e \in Events, Holds(e),
         slot \in Nat
  PROVE  on_event(i, e) \in InternalType /\ Sound(on_event(i, e))
<1>1. Handle(i, e) \in InternalType /\ Sound(Handle(i, e))
  <2>1. CASE e = "PRE_START"
    BY <2>1, OnOthers DEF Handle
  <2>2. CASE e = "START"
    BY <2>2, OnStart DEF Handle, Holds
  <2>3. CASE e = "FINISH"
    BY <2>3, OnFinish DEF Handle, Holds
  <2>4. CASE e = "DELAY_CLOSE"
    BY <2>4, OnClockClosePayout DEF Handle, Holds
  <2>5. CASE e = "BID_CLOSED"
    BY <2>5, OnBidClosed DEF Handle, Holds
  <2>6. CASE e = "BID_FINAL"
    BY <2>6, OnBidFinal DEF Handle
  <2>7. CASE e \in {"VAL_ADDING", "VAL_WITHDRAWN"}
    BY <2>7, OnOthers DEF Handle
  <2>8. CASE e \in {"STK_ADDING", "STK_WITHDRAWN"}
    BY <2>8, OnOthers DEF Handle
  <2>9. QED
    BY <2>1, <2>2, <2>3, <2>4, <2>5, <2>6, <2>7, <2>8
    DEF Events, ClockEvents, DataEvents, StakeEvents
<1> DEFINE h == Handle(i, e)
<1>2. on_event(i, e) = broadcast(h, e)
  BY DEF on_event
<1> HIDE DEF h
<1>3. e \notin {"CRANK", "CLOSE_BIDS", "CLOSE_PAYOUT"}
  BY CountDomain
<1>4. h \in InternalType /\ Sound(h)
  BY <1>1 DEF h
<1>5. QED
  BY <1>2, <1>3, <1>4, BroadcastSound

\* CancelAll touches no flag.
LEMMA CancelAllSound ==
  ASSUME NEW i \in InternalType, Sound(i)
  PROVE  CancelAll(i) \in InternalType /\ Sound(CancelAll(i))
<1> DEFINE c == [t \in Triggers |->
                   IF i.ctx[t] = "live" THEN "done" ELSE i.ctx[t]]
<1>1. c \in [Triggers -> CtxState]
  BY DEF InternalType, CtxState
<1>2. CancelAll(i) = [i EXCEPT !.ctx = c]
  BY DEF CancelAll
<1> HIDE DEF c
<1>3. QED
  BY <1>1, <1>2 DEF InternalType, Sound

-----------------------------------------------------------------------------
(* The steps.                                                              *)

PCType == [Routines -> {"off", "start", "run", "done"}]
ClkType == [start : BOOLEAN, pre : BOOLEAN, finish : BOOLEAN, close : BOOLEAN]
PeiType == [bidsAreClosed : BOOLEAN, validatorHasAdded : BOOLEAN,
            validatorHasWithdrawn : BOOLEAN, postDelayClockPast : BOOLEAN,
            newData : Data]

\* Every queue typed by what is justified is typed.
LEMMA QueuesTyped ==
  /\ \A q \in Seq(Justified) : q \in Seq(Events \cup Steps)
  /\ \A q \in Seq(Past) : q \in Seq(Data)
<1>1. Justified \subseteq Events \cup Steps /\ Past \subseteq Data
  BY DEF Justified, Past
<1>2. QED
  BY <1>1, SeqMonotonic

\* A step of the goroutines, which leaves slot and account alone, preserves
\* the invariant if what it writes is typed and justified.
LEMMA QuietStep ==
  ASSUME IInv, slot' = slot, data' = data, final' = final, gap' = gap,
         fault' \in 0 .. MaxFault, snap' = snap,
         pc' \in PCType,
         pend' \in [Routines -> Seq(Justified)],
         dq' \in [Readers -> Seq(Past)],
         \A r \in Readers : Len(dq'[r]) <= StreamCap,
         dErr' \in [Readers -> BOOLEAN],
         bidQ' \in BOOLEAN, postC' \in BOOLEAN, copyC' \in BOOLEAN,
         extra' \in BOOLEAN, clk' \in ClkType, pei' \in PeiType,
         in' \in InternalType, Sound(in'),
         run' \in {"open", "closed", "cancelled"}
  PROVE  IInv'
<1>1. Justified' = Justified /\ Past' = Past
  BY DEF Justified, Holds, Past
<1>2. pend' \in [Routines -> Seq(Events \cup Steps)]
  BY QueuesTyped
<1>3. dq' \in [Readers -> Seq(Data)]
  BY QueuesTyped
<1>4. TypeOK'
  BY <1>2, <1>3 DEF IInv, TypeOK, PCType, ClkType, PeiType
<1>5. Sound(in)'
  BY DEF Sound
<1>6. QED
  BY <1>1, <1>4, <1>5 DEF IInv

\* What IInv says of the variables the goroutines write.
LEMMA IInvFacts ==
  ASSUME IInv
  PROVE  /\ slot \in Nat /\ fault \in 0 .. MaxFault
         /\ pc \in PCType
         /\ pend \in [Routines -> Seq(Justified)]
         /\ dq \in [Readers -> Seq(Past)]
         /\ \A r \in Readers : Len(dq[r]) <= StreamCap
         /\ dErr \in [Readers -> BOOLEAN]
         /\ bidQ \in BOOLEAN /\ postC \in BOOLEAN /\ copyC \in BOOLEAN
         /\ extra \in BOOLEAN /\ clk \in ClkType /\ pei \in PeiType
         /\ in \in InternalType /\ Sound(in)
         /\ run \in {"open", "closed", "cancelled"}
<1>1. pend \in [Routines -> Seq(Justified)] /\ dq \in [Readers -> Seq(Past)]
  BY DEF IInv, TypeOK
<1>2. QED
  BY <1>1, PayoutScheduleAssumption
  DEF IInv, TypeOK, PCType, ClkType, PeiType

\* Short sequences.
LEMMA ShortSeq ==
  ASSUME NEW S
  PROVE  /\ <<>> \in Seq(S)
         /\ \A a \in S : <<a>> \in Seq(S)
         /\ \A a, b \in S : <<a, b>> \in Seq(S)
  OBVIOUS

\* Which events are justified, and when.
LEMMA InJustified ==
  /\ {"PRE_START", "POST_CLOCK", "CANCEL_EXTRA", "VAL_ADDING", "VAL_WITHDRAWN",
      "STK_ADDING", "STK_WITHDRAWN", "BID_FINAL"} \subseteq Justified
  /\ slot >= Start => "START" \in Justified
  /\ slot >= Finish => "FINISH" \in Justified
  /\ slot >= CloseOut => "DELAY_CLOSE" \in Justified
  /\ ~data.open => "BID_CLOSED" \in Justified
  BY DEF Justified, Holds, Events, Steps, ClockEvents, DataEvents, StakeEvents

\* ClockTick: the events of a slot s that has been reached are justified.
LEMMA ClockTickStep ==
  ASSUME IInv, NEW s \in 1 .. slot, ClockTick(s) PROVE IInv'
<1> DEFINE If(b, q) == IF b THEN q ELSE <<>>
           q1 == If(~clk.start /\ Start <= s, <<"START">>)
           q2 == If(~clk.pre /\ s < Start, <<"PRE_START">>)
           q3 == If(~clk.finish /\ Finish <= s, <<"FINISH">>)
           q4 == If(~clk.close /\ CloseOut <= s,
                    <<"DELAY_CLOSE", "POST_CLOCK">>)
<1>0. slot \in Nat /\ s \in Nat /\ s <= slot
  BY IInvFacts
<1>1. q1 \in Seq(Justified)
  BY <1>0, PayoutScheduleAssumption, InJustified, ShortSeq
<1>2. q2 \in Seq(Justified)
  BY InJustified, ShortSeq
<1>3. q3 \in Seq(Justified)
  BY <1>0, PeriodOrder, InJustified, ShortSeq
<1>4. q4 \in Seq(Justified)
  BY <1>0, PeriodOrder, InJustified, ShortSeq
<1>5. pend' = [pend EXCEPT !["clock"] = q1 \o q2 \o q3 \o q4]
  BY DEF ClockTick, ClockPass
<1> HIDE DEF q1, q2, q3, q4
<1>6. q1 \o q2 \o q3 \o q4 \in Seq(Justified)
  BY <1>1, <1>2, <1>3, <1>4, ConcatProperties
<1>7. pend' \in [Routines -> Seq(Justified)]
  BY <1>5, <1>6, IInvFacts
<1>8. pc' \in PCType /\ clk' \in ClkType
  BY IInvFacts DEF ClockTick, ClockPass, PCType, ClkType
<1>9. QED
  BY <1>7, <1>8, IInvFacts, QuietStep
  DEF ClockTick, ClockPass, chain, streams, chans

\* ClockPost
LEMMA ClockPostStep == ASSUME IInv, ClockPost PROVE IInv'
<1>1. pend' \in [Routines -> Seq(Justified)]
  BY IInvFacts, ShortSeq DEF ClockPost
<1>2. pc' \in PCType
  BY IInvFacts DEF ClockPost, PCType
<1>3. QED
  BY <1>1, <1>2, IInvFacts, QuietStep DEF ClockPost, chain, streams

\* ClockError
LEMMA ClockErrorStep == ASSUME IInv, ClockError PROVE IInv'
<1>1. pc' \in PCType
  BY IInvFacts DEF ClockError, PCType
<1>2. fault' \in 0 .. MaxFault
  BY IInvFacts, PayoutScheduleAssumption DEF ClockError
<1>3. QED
  BY <1>1, <1>2, IInvFacts, QuietStep DEF ClockError, streams, chans

\* PEStart: the snapshot is in the past of the account.
LEMMA PEStartStep == ASSUME IInv, PEStart PROVE IInv'
<1> DEFINE q == IF snap.open THEN <<>> ELSE <<"BID_CLOSED", "CANCEL_EXTRA">>
<1>1. q \in Seq(Justified)
  <2>1. ~snap.open => ~data.open
    BY DEF IInv, Past
  <2>2. QED
    BY <2>1, InJustified, ShortSeq
<1>2. pend' = [pend EXCEPT !["pe"] = q]
  BY DEF PEStart
<1> HIDE DEF q
<1>3. pend' \in [Routines -> Seq(Justified)]
  BY <1>1, <1>2, IInvFacts
<1>4. pc' \in PCType
  BY IInvFacts DEF PEStart, PCType
<1>5. pei' \in PeiType
  <2>1. snap \in Data
    BY DEF IInv, TypeOK
  <2>2. snap.open \in BOOLEAN /\ snap.val \in Nat
    BY <2>1, PayoutScheduleAssumption DEF Data
  <2>3. (~snap.open) \in BOOLEAN /\ (snap.val > 0) \in BOOLEAN
    OBVIOUS
  <2>4. pei' = [pei EXCEPT !.bidsAreClosed = ~snap.open,
                           !.validatorHasAdded = snap.val > 0]
    BY DEF PEStart
  <2>5. QED
    BY <2>3, <2>4, IInvFacts DEF PeiType
<1>6. QED
  BY <1>3, <1>4, <1>5, IInvFacts, QuietStep DEF PEStart, chain, streams, chans

\* Taking the head of a data stream keeps the streams in bounds.
LEMMA DataTaken ==
  ASSUME IInv, NEW r \in Readers, dq[r] # <<>>,
         dq' = [dq EXCEPT ![r] = Tail(@)]
  PROVE  /\ Head(dq[r]) \in Past
         /\ dq' \in [Readers -> Seq(Past)]
         /\ \A x \in Readers : Len(dq'[x]) <= StreamCap
<1>1. dq \in [Readers -> Seq(Past)] /\ \A x \in Readers : Len(dq[x]) <= StreamCap
  BY IInvFacts
<1>2. /\ Head(dq[r]) \in Past
      /\ Tail(dq[r]) \in Seq(Past)
      /\ Len(Tail(dq[r])) = Len(dq[r]) - 1
  BY <1>1, HeadTailProperties
<1>3. Len(dq[r]) \in Nat /\ Len(dq[r]) <= StreamCap
  BY <1>1, LenProperties
<1>4. QED
  BY <1>1, <1>2, <1>3, PayoutScheduleAssumption

\* PEData: what is reported of an account in the past is justified.
LEMMA PEDataStep == ASSUME IInv, PEData PROVE IInv'
<1> DEFINE d == Head(dq["pe"])
           If(b, q) == IF b THEN q ELSE <<>>
           close == ~pei.bidsAreClosed /\ ~d.open
           add == ~pei.validatorHasAdded /\ d.val > 0
           added == pei.validatorHasAdded \/ add
           withdraw == added /\ ~pei.validatorHasWithdrawn /\ d.val = 0
           q1 == If(close, <<"BID_CLOSED", "CANCEL_EXTRA">>)
           q2 == If(add, <<"VAL_ADDING">>)
           q3 == If(withdraw, <<"VAL_WITHDRAWN">>)
<1>1. /\ d \in Past
      /\ dq' \in [Readers -> Seq(Past)]
      /\ \A r \in Readers : Len(dq'[r]) <= StreamCap
  BY DataTaken DEF PEData, Readers
<1>2. d \in Data /\ (~d.open => ~data.open)
  BY <1>1 DEF Past
<1>3. pend' = [pend EXCEPT !["pe"] = q1 \o q2 \o q3]
  BY DEF PEData
<1>4. pei' = [pei EXCEPT !.newData = d, !.bidsAreClosed = @ \/ close,
                         !.validatorHasAdded = added,
                         !.validatorHasWithdrawn = @ \/ withdraw]
  BY DEF PEData
<1> HIDE DEF d
<1>5. pei' \in PeiType
  BY <1>2, <1>4, IInvFacts DEF PeiType, Data
<1>6. q1 \in Seq(Justified) /\ q2 \in Seq(Justified) /\ q3 \in Seq(Justified)
  BY <1>2, InJustified, ShortSeq
<1> HIDE DEF q1, q2, q3
<1>7. q1 \o q2 \o q3 \in Seq(Justified)
  BY <1>6, ConcatProperties
<1>8. pend' \in [Routines -> Seq(Justified)]
  BY <1>3, <1>7, IInvFacts
<1>9. QED
  BY <1>1, <1>5, <1>8, IInvFacts, QuietStep DEF PEData, chain, chans

\* PEPost
LEMMA PEPostStep == ASSUME IInv, PEPost PROVE IInv'
<1> DEFINE q == IF NobodyAdded THEN <<"VAL_WITHDRAWN">> ELSE <<>>
<1>1. q \in Seq(Justified)
  BY InJustified, ShortSeq
<1>2. pend' = [pend EXCEPT !["pe"] = q]
  BY DEF PEPost
<1> HIDE DEF q
<1>3. pend' \in [Routines -> Seq(Justified)]
  BY <1>1, <1>2, IInvFacts
<1>4. pei' \in PeiType
  BY IInvFacts DEF PEPost, PeiType, NobodyAdded
<1>5. QED
  BY <1>3, <1>4, IInvFacts, QuietStep DEF PEPost, chain, streams

\* Sending or skipping the head of what is pending.
LEMMA PendTaken ==
  ASSUME IInv, NEW g \in Routines, pend[g] # <<>>,
         pend' = [pend EXCEPT ![g] = Tail(@)]
  PROVE  /\ Head(pend[g]) \in Justified
         /\ pend' \in [Routines -> Seq(Justified)]
<1>1. Head(pend[g]) \in Justified /\ Tail(pend[g]) \in Seq(Justified)
  BY IInvFacts, HeadTailProperties
<1>2. QED
  BY <1>1, IInvFacts

\* PECancelExtra
LEMMA PECancelExtraStep == ASSUME IInv, PECancelExtra PROVE IInv'
<1>1. pend' \in [Routines -> Seq(Justified)]
  BY PendTaken DEF PECancelExtra, Routines
<1>2. QED
  BY <1>1, IInvFacts, QuietStep DEF PECancelExtra, chain, streams

\* The streams after an Unsubscribe.
LEMMA UnsubscribedTyped ==
  ASSUME IInv, NEW g
  PROVE  /\ Unsubscribed(dq, g) \in [Readers -> Seq(Past)]
         /\ \A r \in Readers : Len(Unsubscribed(dq, g)[r]) <= StreamCap
<1>1. <<>> \in Seq(Past) /\ Len(<<>>) = 0
  BY EmptySeq
<1>2. QED
  BY <1>1, IInvFacts, PayoutScheduleAssumption DEF Unsubscribed

\* PEExit
LEMMA PEExitStep == ASSUME IInv, PEExit PROVE IInv'
<1>1. pc' \in PCType
  BY IInvFacts DEF PEExit, PCType
<1>2. dq' \in [Readers -> Seq(Past)] /\ \A r \in Readers : Len(dq'[r]) <= StreamCap
  BY UnsubscribedTyped DEF PEExit
<1>3. QED
  BY <1>1, <1>2, IInvFacts, QuietStep DEF PEExit, chain

\* loopBidSubIsFinal
LEMMA BidSteps == ASSUME IInv, Bid PROVE IInv'
<1>0. <<"BID_FINAL">> \in Seq(Justified) /\ <<>> \in Seq(Justified)
  BY InJustified, ShortSeq
<1>1. CASE BidStart
  <2>1. pend' \in [Routines -> Seq(Justified)]
    BY <1>0, <1>1, IInvFacts DEF BidStart
  <2>2. pc' \in PCType
    BY <1>1, IInvFacts DEF BidStart, PCType
  <2>3. QED
    BY <1>1, <2>1, <2>2, IInvFacts, QuietStep DEF BidStart, chain, streams, chans
<1>2. CASE BidStatus
  <2>1. pend' \in [Routines -> Seq(Justified)]
    BY <1>0, <1>2, IInvFacts DEF BidStatus
  <2>2. QED
    BY <1>2, <2>1, IInvFacts, QuietStep DEF BidStatus, chain, chans
<1>3. CASE BidError
  <2>1. pc' \in PCType
    BY <1>3, IInvFacts DEF BidError, PCType
  <2>2. fault' \in 0 .. MaxFault
    BY <1>3, IInvFacts, PayoutScheduleAssumption DEF BidError
  <2>3. QED
    BY <1>3, <2>1, <2>2, IInvFacts, QuietStep DEF BidError, chans
<1>4. QED
  BY <1>1, <1>2, <1>3 DEF Bid

\* loopStakeStatus
LEMMA StakeSteps == ASSUME IInv, Stake PROVE IInv'
<1>0. /\ <<>> \in Seq(Justified) /\ <<"STK_ADDING">> \in Seq(Justified)
      /\ <<"STK_WITHDRAWN">> \in Seq(Justified)
  BY InJustified, ShortSeq
<1>1. CASE StakeStart
  <2>1. pend' \in [Routines -> Seq(Justified)]
    BY <1>0, <1>1, IInvFacts DEF StakeStart
  <2>2. pc' \in PCType
    BY <1>1, IInvFacts DEF StakeStart, PCType
  <2>3. QED
    BY <1>1, <2>1, <2>2, IInvFacts, QuietStep
    DEF StakeStart, chain, streams, chans
<1>2. CASE StakeData
  <2>1. pend' \in [Routines -> Seq(Justified)]
    BY <1>0, <1>2, IInvFacts DEF StakeData
  <2>2. /\ dq' \in [Readers -> Seq(Past)]
        /\ \A r \in Readers : Len(dq'[r]) <= StreamCap
    BY <1>2, DataTaken DEF StakeData, Readers
  <2>3. QED
    BY <1>2, <2>1, <2>2, IInvFacts, QuietStep DEF StakeData, chain, chans
<1>3. CASE StakePost
  <2>1. pend' \in [Routines -> Seq(Justified)]
    BY <1>0, <1>3, IInvFacts DEF StakePost
  <2>2. QED
    BY <1>3, <2>1, IInvFacts, QuietStep DEF StakePost, chain, streams
<1>4. CASE StakeError
  <2>1. pc' \in PCType
    BY <1>4, IInvFacts DEF StakeError, PCType
  <2>2. /\ dq' \in [Readers -> Seq(Past)]
        /\ \A r \in Readers : Len(dq'[r]) <= StreamCap
    BY <1>4, UnsubscribedTyped DEF StakeError
  <2>3. QED
    BY <1>4, <2>1, <2>2, IInvFacts, QuietStep DEF StakeError, chain, chans
<1>5. QED
  BY <1>1, <1>2, <1>3, <1>4 DEF Stake

\* ExtraDone
LEMMA ExtraDoneStep ==
  ASSUME IInv, NEW g \in Routines, ExtraDone(g) PROVE IInv'
<1>1. pc' \in PCType
  BY IInvFacts DEF ExtraDone, PCType
<1>2. pend' \in [Routines -> Seq(Justified)]
  BY IInvFacts, ShortSeq DEF ExtraDone
<1>3. dq' \in [Readers -> Seq(Past)] /\ \A r \in Readers : Len(dq'[r]) <= StreamCap
  BY UnsubscribedTyped DEF ExtraDone
<1>4. QED
  BY <1>1, <1>2, <1>3, IInvFacts, QuietStep DEF ExtraDone, chain, chans

\* Accept: loopInternal handles a justified event.
LEMMA AcceptStep == ASSUME IInv, NEW g \in Routines, Accept(g) PROVE IInv'
<1> DEFINE i == on_event(in, Head(pend[g]))
<1>1. /\ Head(pend[g]) \in Justified
      /\ pend' \in [Routines -> Seq(Justified)]
  BY PendTaken DEF Accept
<1>2. Head(pend[g]) \in Events /\ Holds(Head(pend[g]))
  BY <1>1 DEF Accept, Justified
<1>3. i \in InternalType /\ Sound(i)
  BY <1>2, OnEvent, IInvFacts
<1>4. /\ in' = IF i.keepPayoutOpen THEN i ELSE CancelAll(i)
      /\ run' = IF i.keepPayoutOpen THEN "open" ELSE "closed"
  BY DEF Accept
<1> HIDE DEF i
<1>5. in' \in InternalType /\ Sound(in')
  BY <1>3, <1>4, CancelAllSound
<1>6. run' \in {"open", "closed", "cancelled"}
  BY <1>4
<1>7. pc' \in PCType
  BY IInvFacts DEF Accept, PCType
<1>8. dq' \in [Readers -> Seq(Past)] /\ \A r \in Readers : Len(dq'[r]) <= StreamCap
  BY UnsubscribedTyped, IInvFacts DEF Accept
<1>9. bidQ' \in BOOLEAN
  BY DEF Accept
<1>10. QED
  BY <1>1, <1>5, <1>6, <1>7, <1>8, <1>9, IInvFacts, QuietStep
  DEF Accept, chain, chans

\* Cancel and Done
LEMMA EndSteps == ASSUME IInv, Cancel \/ Done PROVE IInv'
<1>1. CASE Cancel
  <2>1. in' \in InternalType /\ Sound(in')
    BY <1>1, IInvFacts, CancelAllSound DEF Cancel
  <2>2. QED
    BY <1>1, <2>1, IInvFacts, QuietStep DEF Cancel, chain, streams, chans
<1>2. CASE Done
  <2>1. pend' \in [Routines -> Seq(Justified)] /\ pc' \in PCType
    BY <1>2, ShortSeq DEF Done, PCType
  <2>2. QED
    BY <1>2, <2>1, IInvFacts, QuietStep DEF Done, chain, streams, chans
<1>3. QED
  BY <1>1, <1>2

-----------------------------------------------------------------------------
(* The steps of the chain.                                                 *)

\* What was justified stays so while slots only grow and the Bids account
\* does not come back.
LEMMA ChainGrows ==
  ASSUME IInv, slot' \in Nat, slot' >= slot, ~data.open => ~data'.open,
         in' = in
  PROVE  Justified \subseteq Justified' /\ Past \subseteq Past' /\ Sound(in)'
<1>1. slot \in Nat /\ Start \in Nat /\ Finish \in Nat /\ CloseOut \in Nat
  BY IInvFacts, PeriodOrder, PayoutScheduleAssumption
<1>2. Justified \subseteq Justified'
  BY <1>1 DEF Justified, Holds
<1>3. Past \subseteq Past'
  BY DEF Past
<1>4. Sound(in)'
  BY <1>1 DEF IInv, Sound
<1>5. QED
  BY <1>2, <1>3, <1>4

\* Tick
LEMMA TickStep == ASSUME IInv, Tick PROVE IInv'
<1>1. slot' \in 0 .. MaxSlot /\ slot' >= slot /\ slot' \in Nat
  BY IInvFacts, PayoutScheduleAssumption DEF Tick
<1>2. Justified \subseteq Justified' /\ Past \subseteq Past' /\ Sound(in)'
  BY <1>1, ChainGrows DEF Tick
<1>3. TypeOK'
  BY <1>1 DEF IInv, TypeOK, Tick
<1>4. \A g \in Routines : pend'[g] \in Seq(Justified')
  BY <1>2, SeqMonotonic DEF IInv, Tick
<1>5. \A r \in Readers : dq'[r] \in Seq(Past')
  BY <1>2, SeqMonotonic DEF IInv, Tick
<1>6. QED
  BY <1>2, <1>3, <1>4, <1>5 DEF IInv, Tick

\* Deliver puts the new account on the streams that have room.
LEMMA Delivered ==
  ASSUME IInv, ~data.open => ~data'.open, data' \in Data, Deliver(data'),
         ChainFrame, final' \in BOOLEAN, bidQ' \in BOOLEAN
  PROVE  IInv'
<1>0. slot' = slot /\ in' = in /\ snap' = snap /\ pend' = pend
  BY DEF ChainFrame
<1>1. Justified \subseteq Justified' /\ Past \subseteq Past' /\ Sound(in)'
  BY <1>0, ChainGrows, IInvFacts
<1>2. data' \in Past'
  BY DEF Past
<1>3. \A r \in Readers : dq[r] \in Seq(Past') /\ Len(dq[r]) \in Nat
  BY <1>1, SeqMonotonic, LenProperties DEF IInv
<1>4. \A r \in Readers : /\ Append(dq[r], data') \in Seq(Past')
                         /\ Len(Append(dq[r], data')) = Len(dq[r]) + 1
  BY <1>2, <1>3, AppendProperties
<1>5. \A r \in Readers : /\ dq'[r] \in Seq(Past')
                         /\ Len(dq'[r]) <= StreamCap
  BY <1>3, <1>4, IInvFacts, PayoutScheduleAssumption DEF Deliver
<1>6. dq' \in [Readers -> Seq(Data)]
  <2>1. Past' \subseteq Data
    BY DEF Past
  <2>2. \A r \in Readers : dq'[r] \in Seq(Data)
    BY <1>5, <2>1, SeqMonotonic
  <2>3. dq' = [r \in Readers |-> dq'[r]]
    BY DEF Deliver
  <2>4. QED
    BY <2>2, <2>3
<1>7. dErr' \in [Readers -> BOOLEAN]
  BY IInvFacts DEF Deliver
<1>8. gap' \in 0 .. MaxGap
  BY PayoutScheduleAssumption DEF Deliver, IInv, TypeOK
<1>9. TypeOK'
  BY <1>5, <1>6, <1>7, <1>8 DEF IInv, TypeOK, ChainFrame
<1>10. \A g \in Routines : pend'[g] \in Seq(Justified')
  BY <1>0, <1>1, SeqMonotonic DEF IInv
<1>11. QED
  BY <1>0, <1>1, <1>5, <1>9, <1>10 DEF IInv

\* The instructions of the lifecycle.
LEMMA ChainSteps == ASSUME IInv, Chain PROVE IInv'
<1>0. /\ data \in Data /\ final \in BOOLEAN /\ bidQ \in BOOLEAN
      /\ MaxVal \in Nat /\ MaxStk \in Nat
  BY PayoutScheduleAssumption DEF IInv, TypeOK
<1>1. CASE ChainSetPayout
  <2>1. data' \in Data /\ (~data.open => ~data'.open)
    BY <1>0, <1>1 DEF ChainSetPayout, Data
  <2>2. QED
    BY <1>0, <1>1, <2>1, Delivered DEF ChainSetPayout
<1>2. CASE ChainValidatorWithdraw
  <2>1. data' \in Data /\ (~data.open => ~data'.open)
    BY <1>0, <1>2 DEF ChainValidatorWithdraw, Data
  <2>2. QED
    BY <1>0, <1>2, <2>1, Delivered DEF ChainValidatorWithdraw
<1>3. CASE ChainStakerAdd
  <2>1. data' \in Data /\ (~data.open => ~data'.open)
    BY <1>0, <1>3 DEF ChainStakerAdd, Data
  <2>2. QED
    BY <1>0, <1>3, <2>1, Delivered DEF ChainStakerAdd
<1>4. CASE ChainStakerWithdraw
  <2>1. data' \in Data /\ (~data.open => ~data'.open)
    BY <1>0, <1>4 DEF ChainStakerWithdraw, Data
  <2>2. QED
    BY <1>0, <1>4, <2>1, Delivered DEF ChainStakerWithdraw
<1>5. CASE ChainCrank
  <2>1. final' \in BOOLEAN /\ bidQ' \in BOOLEAN
    BY <1>5 DEF ChainCrank
  <2>2. slot' = slot /\ data' = data /\ in' = in /\ pend' = pend /\ dq' = dq
        /\ snap' = snap
    BY <1>5 DEF ChainCrank, ChainFrame
  <2>3. Justified' = Justified /\ Past' = Past
    BY <2>2 DEF Justified, Holds, Past
  <2>4. TypeOK'
    BY <1>5, <2>1 DEF ChainCrank, ChainFrame, IInv, TypeOK
  <2>5. QED
    BY <2>2, <2>3, <2>4 DEF IInv, Sound
<1>6. CASE ChainCloseBids
  <2>1. data' \in Data /\ (~data.open => ~data'.open)
    BY <1>0, <1>6 DEF ChainCloseBids, Data
  <2>2. bidQ' \in BOOLEAN
    BY <1>6 DEF ChainCloseBids
  <2>3. QED
    BY <1>0, <1>6, <2>1, <2>2, Delivered DEF ChainCloseBids
<1>7. QED
  BY <1>1, <1>2, <1>3, <1>4, <1>5, <1>6, TickStep DEF Chain

-----------------------------------------------------------------------------
\* The initial states satisfy the inductive invariant.
LEMMA InitIInv == Init => IInv
<1> SUFFICES ASSUME Init PROVE IInv
  OBVIOUS
<1>1. snap \in Data /\ data = snap
  BY PayoutScheduleAssumption DEF Init
<1>2. \A g \in Routines : pend[g] \in Seq(Justified)
  BY ShortSeq DEF Init
<1>3. \A r \in Readers : dq[r] \in Seq(Past) /\ Len(dq[r]) = 0
  BY EmptySeq DEF Init
<1>4. in \in InternalType
  BY DEF Init, InternalType, CtxState, ContextOf
<1>5. Sound(in)
  BY CountDomain DEF Init, Sound
<1>6. /\ pend \in [Routines -> Seq(Events \cup Steps)]
      /\ dq \in [Readers -> Seq(Data)]
  BY ShortSeq DEF Init
<1>7. pc \in [Routines -> {"off", "start", "run", "done"}]
  BY DEF Init
<1>8. pei \in PeiType /\ clk \in ClkType
  BY <1>1 DEF Init, PeiType, ClkType
<1>9. TypeOK
  <2>1. slot \in 0 .. MaxSlot /\ gap \in 0 .. MaxGap /\ fault \in 0 .. MaxFault
    BY PayoutScheduleAssumption DEF Init
  <2>2. \A r \in Readers : Len(dq[r]) <= StreamCap
    BY <1>3, PayoutScheduleAssumption
  <2>3. dErr \in [Readers -> BOOLEAN]
    BY DEF Init
  <2>4. /\ final \in BOOLEAN /\ bidQ \in BOOLEAN /\ postC \in BOOLEAN
        /\ copyC \in BOOLEAN /\ extra \in BOOLEAN
        /\ run \in {"open", "closed", "cancelled"}
    BY DEF Init
  <2>5. QED
    BY <1>1, <1>4, <1>6, <1>7, <1>8, <2>1, <2>2, <2>3, <2>4
    DEF TypeOK, PeiType, ClkType
<1>10. QED
  BY <1>1, <1>2, <1>3, <1>5, <1>9 DEF IInv, Past

\* Every step preserves it.
LEMMA NextIInv == IInv /\ [Next]_vars => IInv'
<1> SUFFICES ASSUME IInv, [Next]_vars PROVE IInv'
  OBVIOUS
<1>1. CASE Chain
  BY <1>1, ChainSteps
<1>2. CASE Clock
  BY <1>2, ClockTickStep, ClockPostStep, ClockErrorStep DEF Clock
<1>3. CASE PayoutEvent
  BY <1>3, PEStartStep, PEDataStep, PEPostStep, PECancelExtraStep, PEExitStep
  DEF PayoutEvent
<1>4. CASE Bid \/ Stake
  BY <1>4, BidSteps, StakeSteps
<1>5. CASE Internal
  BY <1>5, AcceptStep DEF Internal
<1>6. CASE Cancel \/ Done
  BY <1>6, EndSteps
<1>7. CASE \E g \in Routines : ExtraDone(g)
  BY <1>7, ExtraDoneStep
<1>8. CASE UNCHANGED vars
  <2>1. Justified' = Justified /\ Past' = Past
    BY <1>8 DEF vars, Justified, Holds, Past
  <2>2. TypeOK'
    BY <1>8 DEF vars, IInv, TypeOK
  <2>3. Sound(in)'
    BY <1>8 DEF vars, IInv, Sound
  <2>4. QED
    BY <1>8, <2>1, <2>2, <2>3 DEF vars, IInv
<1>9. QED
  BY <1>1, <1>2, <1>3, <1>4, <1>5, <1>6, <1>7, <1>8 DEF Next

\* The inductive invariant holds in every reachable state.
THEOREM Invariance == Spec => []IInv
  BY InitIInv, NextIInv, PTL DEF Spec

\* Type correctness of the payout scheduler; no data stream ever holds more
\* than its capacity.
THEOREM TypeCorrect == Spec => []TypeOK
<1>1. IInv => TypeOK
  BY DEF IInv
<1>2. QED
  BY <1>1, Invariance, PTL

\* For every period, delay, start state and interleaving of the goroutines,
\* with a slot stream that skips slots and goes back: no CRANK, CLOSE_BIDS
\* or CLOSE_PAYOUT trigger is broadcast before its time.
THEOREM TriggersAreTimely == Spec => []TriggersTimely
<1>1. IInv => TriggersTimely
  BY DEF IInv, Sound, TriggersTimely
<1>2. QED
  BY <1>1, Invariance, PTL
-----------------------------------------------------------------------------
(* How often each message is sent.                                         *)
(*                                                                         *)
(* run_validator_set_payout and run_validator_withdraw guard themselves    *)
(* with a flag that is never set, so "only once" rests on the senders:     *)
(* the sent* flags of loopClock, the flags of payoutEventInfo and the end  *)
(* of loopStakeStatus.  Ledger balances these flags against what is still  *)
(* waiting for eventC and what has been broadcast.                         *)

\* The events their sender sends once, and the flag that sees to it.
OnceEvents == ClockEvents \cup {"BID_CLOSED", "VAL_WITHDRAWN"}
Sender(e) == IF e \in ClockEvents THEN "clock" ELSE "pe"
Flagged(e) ==
    \/ e = "START" /\ clk.start
    \/ e = "PRE_START" /\ clk.pre
    \/ e = "FINISH" /\ clk.finish
    \/ e = "DELAY_CLOSE" /\ clk.close
    \/ e = "BID_CLOSED" /\ pei.bidsAreClosed
    \/ e = "VAL_WITHDRAWN" /\ pei.validatorHasWithdrawn

\* The elements of a sequence.
Elems(s) == {s[n] : n \in 1 .. Len(s)}

\* The order in which loopClock sends what one slot sets off.
Rank == [e \in ClockEvents \cup {"POST_CLOCK"} |->
           CASE e = "START" -> 1 [] e = "PRE_START" -> 2 [] e = "FINISH" -> 3
             [] e = "DELAY_CLOSE" -> 4 [] e = "POST_CLOCK" -> 5]
Sorted(s) == \A m, n \in 1 .. Len(s) : m < n => Rank[s[m]] < Rank[s[n]]
Distinct(s) == \A m, n \in 1 .. Len(s) : s[m] = s[n] => m = n

\* Who sends what, in which order, and nothing twice.
Queues ==
    /\ Elems(pend["clock"]) \subseteq ClockEvents \cup {"POST_CLOCK"}
    /\ Sorted(pend["clock"])
    /\ Elems(pend["pe"]) \subseteq DataEvents \cup {"CANCEL_EXTRA"}
    /\ Distinct(pend["pe"])
    /\ Elems(pend["bid"]) \subseteq {"BID_FINAL"}
    /\ Elems(pend["stake"]) \subseteq StakeEvents
    /\ Len(pend["stake"]) <= 1
    /\ pend["stake"] # <<>> => pc["stake"] = "run"

\* A flagged event waits for eventC or has been broadcast, once.
EachOnce ==
    \A e \in OnceEvents :
        /\ e \in Elems(pend[Sender(e)]) => Flagged(e)
        /\ in.count[e] = IF Flagged(e) /\ e \notin Elems(pend[Sender(e)])
                         THEN 1 ELSE 0

\* What the goroutines have sent when they are where they are.
Progress ==
    /\ clk.finish => clk.start
    /\ clk.close => clk.finish
    /\ pei.validatorHasWithdrawn =>
          pei.validatorHasAdded \/ pei.postDelayClockPast
    /\ pc["pe"] = "start" =>
          /\ pend["pe"] = <<>> /\ pc["stake"] = "off"
          /\ ~pei.bidsAreClosed /\ ~pei.validatorHasWithdrawn
    /\ in.count["STK_WITHDRAWN"] > 0 => pc["stake"] = "done"
    /\ in.count["STK_WITHDRAWN"] <= 1

\* What a flag of internal says of the history.
Recorded(i) ==
    /\ i.isClockReadyToClose =>
          \A e \in {"START", "FINISH", "DELAY_CLOSE"} : i.count[e] = 1
    /\ i.bidHasClosed => i.count["BID_CLOSED"] = 1
    /\ i.bidIsFinal => i.count["BID_FINAL"] > 0 \/ i.bidHasClosed
    /\ i.validatorHasWithdrawn => i.count["VAL_WITHDRAWN"] = 1

\* What every handler keeps of internal.
Core(i) ==
    /\ i.cancelValidatorSetPayout = "nil"
    /\ i.count["CRANK"] <= 1
    /\ i.count["CRANK"] > 0 => i.ctx["CRANK"] = "live" \/ i.bidIsFinal
    /\ i.count["CLOSE_BIDS"] <= 1
    /\ i.count["CLOSE_BIDS"] > 0 => i.ctx["CLOSE_BIDS"] = "live" \/ i.bidHasClosed
    /\ i.bidHasClosed => i.ctx["CLOSE_BIDS"] # "live"
    /\ i.count["BID_FINAL"] > 0 => i.bidIsFinal /\ i.ctx["CRANK"] # "live"
    /\ i.count["START"] > 0 => i.hasStarted

\* What holds of internal between two events while the loop goes on.
Kept(i) ==
    /\ Core(i)
    /\ i.keepPayoutOpen /\ i.count["CLOSE_PAYOUT"] = 0
    /\ i.count["SET_PAYOUT"] <= i.count["PRE_START"]
    /\ i.count["WITHDRAW"] <= i.count["STK_WITHDRAWN"]

\* While the scheduler runs.
Ledger == Queues /\ EachOnce /\ Progress /\ Recorded(in) /\ Kept(in)

\* The strengthening of TriggersOnce, RetriesStop and ClosedHistory.
OnceInv ==
    /\ run = "open" => Ledger
    /\ TriggersOnce
    /\ RetriesStop
    /\ ClosedHistory

-----------------------------------------------------------------------------
(* What the handlers change.                                               *)

SameCount(i, j, T) ==
    \A f \in (Events \cup Triggers) \ T : j.count[f] = i.count[f]

SameFlags(i, j) ==
    /\ j.hasStarted = i.hasStarted
    /\ j.isClockReadyToClose = i.isClockReadyToClose
    /\ j.bidIsFinal = i.bidIsFinal
    /\ j.bidHasClosed = i.bidHasClosed
    /\ j.validatorHasWithdrawn = i.validatorHasWithdrawn

SameRest(i, j) ==
    /\ j.keepPayoutOpen = i.keepPayoutOpen
    /\ j.cancelValidatorSetPayout = i.cancelValidatorSetPayout

\* The names of the events and triggers, one by one.
LEMMA Names ==
  /\ Triggers = {"CRANK", "CLOSE_BIDS", "CLOSE_PAYOUT", "SET_PAYOUT", "WITHDRAW"}
  /\ Events = {"PRE_START", "START", "FINISH", "DELAY_CLOSE", "BID_CLOSED",
               "VAL_ADDING", "VAL_WITHDRAWN", "STK_ADDING", "STK_WITHDRAWN",
               "BID_FINAL"}
  BY DEF Events, Triggers, ClockEvents, DataEvents, StakeEvents

\* broadcast counts one event and touches nothing else.
LEMMA BroadcastEffect ==
  ASSUME NEW i \in InternalType, NEW e \in Events \cup Triggers,
         NEW j, j = broadcast(i, e)
  PROVE  /\ j \in InternalType /\ SameFlags(i, j) /\ SameRest(i, j)
         /\ j.ctx = i.ctx
         /\ SameCount(i, j, {e}) /\ j.count[e] = i.count[e] + 1
<1>1. i.count \in [Events \cup Triggers -> Nat]
  BY DEF InternalType
<1> DEFINE c == [i.count EXCEPT ![e] = @ + 1]
<1>2. /\ c \in [Events \cup Triggers -> Nat]
      /\ \A f \in Events \cup Triggers : f # e => c[f] = i.count[f]
      /\ c[e] = i.count[e] + 1
  BY <1>1
<1>3. j = [i EXCEPT !.count = c]
  BY DEF broadcast, InternalType
<1> HIDE DEF c
<1>4. j \in InternalType /\ j.count = c
  BY <1>2, <1>3 DEF InternalType
<1>5. SameFlags(i, j) /\ SameRest(i, j) /\ j.ctx = i.ctx
  BY <1>3 DEF InternalType, SameFlags, SameRest
<1>6. QED
  BY <1>2, <1>4, <1>5 DEF SameCount

\* Setting a context to live or done.
LEMMA ContextEffect ==
  ASSUME NEW i \in InternalType, NEW t \in Triggers, NEW x \in CtxState,
         NEW j, j = [i EXCEPT !.ctx[t] = x]
  PROVE  /\ j \in InternalType /\ SameFlags(i, j) /\ SameRest(i, j)
         /\ j.count = i.count
         /\ j.ctx[t] = x
         /\ \A u \in Triggers : u # t => j.ctx[u] = i.ctx[u]
<1>1. i.ctx \in [Triggers -> CtxState]
  BY DEF InternalType
<1> DEFINE c == [i.ctx EXCEPT ![t] = x]
<1>2. /\ c \in [Triggers -> CtxState] /\ c[t] = x
      /\ \A u \in Triggers : u # t => c[u] = i.ctx[u]
  BY <1>1
<1>3. j = [i EXCEPT !.ctx = c]
  BY DEF InternalType
<1> HIDE DEF c
<1>4. j \in InternalType /\ j.ctx = c /\ j.count = i.count
  BY <1>2, <1>3 DEF InternalType
<1>5. SameFlags(i, j) /\ SameRest(i, j)
  BY <1>3 DEF InternalType, SameFlags, SameRest
<1>6. QED
  BY <1>2, <1>4, <1>5

\* The counts are numbers.
LEMMA CountNat ==
  ASSUME NEW i \in InternalType
  PROVE  \A f \in Events \cup Triggers : i.count[f] \in Nat
  BY DEF InternalType

\* run_crank
LEMMA CrankEffect ==
  ASSUME NEW i \in InternalType, Core(i), NEW j, j = run_crank(i)
  PROVE  /\ j \in InternalType /\ Core(j) /\ SameFlags(i, j) /\ SameRest(i, j)
         /\ SameCount(i, j, {"CRANK"})
<1>1. CASE j = i
  BY <1>1 DEF SameFlags, SameRest, SameCount
<1>2. CASE j # i
  <2> DEFINE k == [i EXCEPT !.ctx["CRANK"] = "live"]
  <2>1. /\ i.hasStarted /\ ~i.bidIsFinal /\ ~i.bidHasClosed
        /\ i.ctx["CRANK"] # "live"
        /\ j = broadcast(k, "CRANK")
    BY <1>2 DEF run_crank
  <2>2. /\ k \in InternalType /\ SameFlags(i, k) /\ SameRest(i, k)
        /\ k.count = i.count /\ k.ctx["CRANK"] = "live"
        /\ \A u \in Triggers : u # "CRANK" => k.ctx[u] = i.ctx[u]
    BY ContextEffect, Names DEF CtxState
  <2> HIDE DEF k
  <2>3. /\ j \in InternalType /\ SameFlags(k, j) /\ SameRest(k, j)
        /\ j.ctx = k.ctx /\ SameCount(k, j, {"CRANK"})
        /\ j.count["CRANK"] = k.count["CRANK"] + 1
    BY <2>1, <2>2, BroadcastEffect, Names
  <2>4. SameFlags(i, j) /\ SameRest(i, j) /\ SameCount(i, j, {"CRANK"})
    BY <2>2, <2>3 DEF SameFlags, SameRest, SameCount
  <2>5. i.count["CRANK"] = 0
    BY <2>1, CountNat, Names DEF Core
  <2>6. /\ j.count["CRANK"] = 1 /\ j.ctx["CRANK"] = "live"
        /\ j.ctx["CLOSE_BIDS"] = i.ctx["CLOSE_BIDS"]
        /\ j.count["CLOSE_BIDS"] = i.count["CLOSE_BIDS"]
        /\ j.count["BID_FINAL"] = i.count["BID_FINAL"]
        /\ j.count["START"] = i.count["START"]
    BY <2>2, <2>3, <2>4, <2>5, Names DEF SameCount
  <2>7. i.count["BID_FINAL"] = 0
    BY <2>1, CountNat, Names DEF Core
  <2>8. /\ j.cancelValidatorSetPayout = "nil"
        /\ j.count["BID_FINAL"] = 0
        /\ ~j.bidHasClosed
        /\ j.count["CLOSE_BIDS"] <= 1
        /\ j.count["CLOSE_BIDS"] > 0 => j.ctx["CLOSE_BIDS"] = "live"
        /\ j.hasStarted
    BY <2>1, <2>4, <2>6, <2>7 DEF Core, SameFlags, SameRest
  <2>9. Core(j)
    BY <2>6, <2>8 DEF Core
  <2>10. QED
    BY <2>3, <2>4, <2>9
<1>3. QED
  BY <1>1, <1>2

\* run_close_bids
LEMMA CloseBidsEffect ==
  ASSUME NEW i \in InternalType, Core(i), NEW j, j = run_close_bids(i)
  PROVE  /\ j \in InternalType /\ Core(j) /\ SameFlags(i, j) /\ SameRest(i, j)
         /\ SameCount(i, j, {"CLOSE_BIDS"})
<1>1. CASE j = i
  BY <1>1 DEF SameFlags, SameRest, SameCount
<1>2. CASE j # i
  <2> DEFINE k == [i EXCEPT !.ctx["CLOSE_BIDS"] = "live"]
  <2>1. /\ ~i.bidHasClosed /\ i.ctx["CLOSE_BIDS"] # "live"
        /\ j = broadcast(k, "CLOSE_BIDS")
    BY <1>2 DEF run_close_bids
  <2>2. /\ k \in InternalType /\ SameFlags(i, k) /\ SameRest(i, k)
        /\ k.count = i.count /\ k.ctx["CLOSE_BIDS"] = "live"
        /\ \A u \in Triggers : u # "CLOSE_BIDS" => k.ctx[u] = i.ctx[u]
    BY ContextEffect, Names DEF CtxState
  <2> HIDE DEF k
  <2>3. /\ j \in InternalType /\ SameFlags(k, j) /\ SameRest(k, j)
        /\ j.ctx = k.ctx /\ SameCount(k, j, {"CLOSE_BIDS"})
        /\ j.count["CLOSE_BIDS"] = k.count["CLOSE_BIDS"] + 1
    BY <2>1, <2>2, BroadcastEffect, Names
  <2>4. SameFlags(i, j) /\ SameRest(i, j) /\ SameCount(i, j, {"CLOSE_BIDS"})
    BY <2>2, <2>3 DEF SameFlags, SameRest, SameCount
  <2>5. i.count["CLOSE_BIDS"] = 0
    BY <2>1, CountNat, Names DEF Core
  <2>6. /\ j.count["CLOSE_BIDS"] = 1 /\ j.ctx["CLOSE_BIDS"] = "live"
        /\ j.ctx["CRANK"] = i.ctx["CRANK"]
        /\ j.count["CRANK"] = i.count["CRANK"]
        /\ j.count["BID_FINAL"] = i.count["BID_FINAL"]
        /\ j.count["START"] = i.count["START"]
    BY <2>2, <2>3, <2>4, <2>5, Names DEF SameCount
  <2>7. Core(j)
    BY <2>1, <2>4, <2>6 DEF Core, SameFlags, SameRest
  <2>8. QED
    BY <2>3, <2>4, <2>7
<1>3. QED
  BY <1>1, <1>2

\* run_close_payout: it leaves internal alone, or everything is in place and
\* the loop is told to end.
LEMMA ClosePayoutEffect ==
  ASSUME NEW i \in InternalType, Core(i), NEW j, j = run_close_payout(i)
  PROVE  /\ j \in InternalType /\ Core(j) /\ SameFlags(i, j)
         /\ SameCount(i, j, {"CLOSE_PAYOUT"})
         /\ \/ j = i
            \/ /\ i.bidHasClosed /\ i.isClockReadyToClose
               /\ i.validatorHasWithdrawn
               /\ ~j.keepPayoutOpen
               /\ j.count["CLOSE_PAYOUT"] = i.count["CLOSE_PAYOUT"] + 1
<1>1. CASE j = i
  BY <1>1 DEF SameFlags, SameCount
<1>2. CASE j # i
  <2> DEFINE k == [i EXCEPT !.keepPayoutOpen = FALSE]
  <2>1. /\ i.bidHasClosed /\ i.isClockReadyToClose /\ i.validatorHasWithdrawn
        /\ j = broadcast(k, "CLOSE_PAYOUT")
    BY <1>2 DEF run_close_payout
  <2>2. /\ k \in InternalType /\ SameFlags(i, k) /\ ~k.keepPayoutOpen
        /\ k.cancelValidatorSetPayout = i.cancelValidatorSetPayout
        /\ k.count = i.count /\ k.ctx = i.ctx
    BY DEF InternalType, SameFlags
  <2> HIDE DEF k
  <2>3. /\ j \in InternalType /\ SameFlags(k, j) /\ SameRest(k, j)
        /\ j.ctx = k.ctx /\ SameCount(k, j, {"CLOSE_PAYOUT"})
        /\ j.count["CLOSE_PAYOUT"] = k.count["CLOSE_PAYOUT"] + 1
    BY <2>1, <2>2, BroadcastEffect, Names
  <2>4. SameFlags(i, j) /\ SameCount(i, j, {"CLOSE_PAYOUT"}) /\ j.ctx = i.ctx
    BY <2>2, <2>3 DEF SameFlags, SameCount
  <2>5. /\ j.count["CRANK"] = i.count["CRANK"]
        /\ j.count["CLOSE_BIDS"] = i.count["CLOSE_BIDS"]
        /\ j.count["BID_FINAL"] = i.count["BID_FINAL"]
        /\ j.count["START"] = i.count["START"]
        /\ j.cancelValidatorSetPayout = i.cancelValidatorSetPayout
    BY <2>2, <2>3, <2>4, Names DEF SameCount, SameRest
  <2>6. Core(j)
    BY <2>4, <2>5 DEF Core, SameFlags
  <2>7. QED
    BY <2>1, <2>2, <2>3, <2>4, <2>6 DEF SameRest
<1>3. QED
  BY <1>1, <1>2

\* Core looks at nothing but the flags, two contexts and four counts.
LEMMA CoreSame ==
  ASSUME NEW i, NEW j, Core(i), SameFlags(i, j),
         j.cancelValidatorSetPayout = i.cancelValidatorSetPayout,
         j.ctx["CRANK"] = i.ctx["CRANK"],
         j.ctx["CLOSE_BIDS"] = i.ctx["CLOSE_BIDS"],
         NEW T \in SUBSET {"SET_PAYOUT", "WITHDRAW", "CLOSE_PAYOUT"},
         SameCount(i, j, T)
  PROVE  Core(j)
<1>1. /\ j.count["CRANK"] = i.count["CRANK"]
      /\ j.count["CLOSE_BIDS"] = i.count["CLOSE_BIDS"]
      /\ j.count["BID_FINAL"] = i.count["BID_FINAL"]
      /\ j.count["START"] = i.count["START"]
  BY Names DEF SameCount
<1>2. QED
  BY <1>1 DEF Core, SameFlags

\* run_validator_set_payout invites only before the start.
LEMMA SetPayoutEffect ==
  ASSUME NEW i \in InternalType, Core(i), NEW j, j = run_validator_set_payout(i)
  PROVE  /\ j \in InternalType /\ Core(j) /\ SameFlags(i, j) /\ SameRest(i, j)
         /\ SameCount(i, j, {"SET_PAYOUT"})
         /\ \/ j.count["SET_PAYOUT"] = i.count["SET_PAYOUT"]
            \/ /\ j.count["SET_PAYOUT"] = i.count["SET_PAYOUT"] + 1
               /\ ~i.hasStarted
<1>1. CASE j = i
  BY <1>1 DEF SameFlags, SameRest, SameCount
<1>2. CASE j # i
  <2> DEFINE m == [i EXCEPT !.ctx["SET_PAYOUT"] = "live"]
             k == [m EXCEPT !.cancelValidatorWithdraw = "SET_PAYOUT"]
  <2>1. ~i.hasStarted /\ j = broadcast(k, "SET_PAYOUT")
    BY <1>2 DEF run_validator_set_payout
  <2>2. /\ m \in InternalType /\ SameFlags(i, m) /\ SameRest(i, m)
        /\ m.count = i.count
        /\ \A u \in Triggers : u # "SET_PAYOUT" => m.ctx[u] = i.ctx[u]
    BY ContextEffect, Names DEF CtxState
  <2> HIDE DEF m
  <2>3. /\ k \in InternalType /\ SameFlags(m, k) /\ SameRest(m, k)
        /\ k.count = m.count /\ k.ctx = m.ctx
    BY <2>2 DEF InternalType, SameFlags, SameRest, ContextOf
  <2> HIDE DEF k
  <2>4. /\ j \in InternalType /\ SameFlags(k, j) /\ SameRest(k, j)
        /\ j.ctx = k.ctx /\ SameCount(k, j, {"SET_PAYOUT"})
        /\ j.count["SET_PAYOUT"] = k.count["SET_PAYOUT"] + 1
    BY <2>1, <2>3, BroadcastEffect, Names
  <2>5. SameFlags(i, j) /\ SameRest(i, j) /\ SameCount(i, j, {"SET_PAYOUT"})
    BY <2>2, <2>3, <2>4 DEF SameFlags, SameRest, SameCount
  <2>6. j.ctx["CRANK"] = i.ctx["CRANK"] /\ j.ctx["CLOSE_BIDS"] = i.ctx["CLOSE_BIDS"]
    BY <2>2, <2>3, <2>4, Names
  <2>7. Core(j)
    BY <2>5, <2>6, CoreSame DEF SameRest
  <2>8. QED
    BY <2>1, <2>2, <2>3, <2>4, <2>5, <2>7
<1>3. QED
  BY <1>1, <1>2

\* run_validator_withdraw
LEMMA WithdrawEffect ==
  ASSUME NEW i \in InternalType, Core(i), NEW j, j = run_validator_withdraw(i)
  PROVE  /\ j \in InternalType /\ Core(j) /\ SameFlags(i, j) /\ SameRest(i, j)
         /\ SameCount(i, j, {"WITHDRAW"})
         /\ \/ j.count["WITHDRAW"] = i.count["WITHDRAW"]
            \/ j.count["WITHDRAW"] = i.count["WITHDRAW"] + 1
<1>1. CASE j = i
  BY <1>1 DEF SameFlags, SameRest, SameCount
<1>2. CASE j # i
  <2> DEFINE m == [i EXCEPT !.ctx["WITHDRAW"] = "live"]
             k == [m EXCEPT !.cancelValidatorWithdraw = "WITHDRAW"]
  <2>1. j = broadcast(k, "WITHDRAW")
    BY <1>2 DEF run_validator_withdraw
  <2>2. /\ m \in InternalType /\ SameFlags(i, m) /\ SameRest(i, m)
        /\ m.count = i.count
        /\ \A u \in Triggers : u # "WITHDRAW" => m.ctx[u] = i.ctx[u]
    BY ContextEffect, Names DEF CtxState
  <2> HIDE DEF m
  <2>3. /\ k \in InternalType /\ SameFlags(m, k) /\ SameRest(m, k)
        /\ k.count = m.count /\ k.ctx = m.ctx
    BY <2>2 DEF InternalType, SameFlags, SameRest, ContextOf
  <2> HIDE DEF k
  <2>4. /\ j \in InternalType /\ SameFlags(k, j) /\ SameRest(k, j)
        /\ j.ctx = k.ctx /\ SameCount(k, j, {"WITHDRAW"})
        /\ j.count["WITHDRAW"] = k.count["WITHDRAW"] + 1
    BY <2>1, <2>3, BroadcastEffect, Names
  <2>5. SameFlags(i, j) /\ SameRest(i, j) /\ SameCount(i, j, {"WITHDRAW"})
    BY <2>2, <2>3, <2>4 DEF SameFlags, SameRest, SameCount
  <2>6. j.ctx["CRANK"] = i.ctx["CRANK"] /\ j.ctx["CLOSE_BIDS"] = i.ctx["CLOSE_BIDS"]
    BY <2>2, <2>3, <2>4, Names
  <2>7. Core(j)
    BY <2>5, <2>6, CoreSame DEF SameRest
  <2>8. QED
    BY <2>2, <2>3, <2>4, <2>5, <2>7
<1>3. QED
  BY <1>1, <1>2

SameButStart(i, j) ==
    /\ j.isClockReadyToClose = i.isClockReadyToClose
    /\ j.bidIsFinal = i.bidIsFinal
    /\ j.bidHasClosed = i.bidHasClosed
    /\ j.validatorHasWithdrawn = i.validatorHasWithdrawn

\* on_start
LEMMA OnStartEffect ==
  ASSUME NEW i \in InternalType, Core(i), NEW j, j = on_start(i)
  PROVE  /\ j \in InternalType /\ Core(j) /\ SameButStart(i, j) /\ SameRest(i, j)
         /\ j.hasStarted /\ SameCount(i, j, {"CRANK"})
<1> DEFINE k == [i EXCEPT !.hasStarted = TRUE]
<1>1. /\ k \in InternalType /\ k.hasStarted /\ SameButStart(i, k)
      /\ SameRest(i, k) /\ k.count = i.count /\ k.ctx = i.ctx
      /\ k.bidIsFinal = i.bidIsFinal
  BY DEF InternalType, SameButStart, SameRest
<1>2. i.cancelValidatorSetPayout = "nil"
  BY DEF Core
<1>3. j = IF i.bidIsFinal THEN k ELSE run_crank(k)
  BY <1>2 DEF on_start
<1> HIDE DEF k
<1>4. Core(k)
  BY <1>1 DEF Core, SameButStart, SameRest
<1>5. CASE j = k
  BY <1>1, <1>4, <1>5 DEF SameCount
<1>6. CASE j = run_crank(k)
  <2>1. /\ j \in InternalType /\ Core(j) /\ SameFlags(k, j) /\ SameRest(k, j)
        /\ SameCount(k, j, {"CRANK"})
    BY <1>1, <1>4, <1>6, CrankEffect
  <2>2. QED
    BY <1>1, <2>1 DEF SameFlags, SameButStart, SameRest, SameCount
<1>7. QED
  BY <1>3, <1>5, <1>6

\* on_finish
LEMMA OnFinishEffect ==
  ASSUME NEW i \in InternalType, Core(i), NEW j, j = on_finish(i)
  PROVE  /\ j \in InternalType /\ Core(j) /\ SameButStart(i, j) /\ SameRest(i, j)
         /\ j.hasStarted /\ SameCount(i, j, {"CRANK", "CLOSE_BIDS"})
<1> DEFINE k == IF i.hasStarted THEN i ELSE on_start(i)
           l == [k EXCEPT !.hasFinished = TRUE]
<1>1. j = IF l.bidHasClosed THEN l ELSE run_close_bids(l)
  BY DEF on_finish
<1>2. /\ k \in InternalType /\ Core(k) /\ SameButStart(i, k) /\ SameRest(i, k)
      /\ k.hasStarted /\ SameCount(i, k, {"CRANK"})
  <2>1. CASE i.hasStarted
    BY <2>1 DEF SameButStart, SameRest, SameCount
  <2>2. CASE ~i.hasStarted
    BY <2>2, OnStartEffect
  <2>3. QED
    BY <2>1, <2>2
<1> HIDE DEF k
<1>3. /\ l \in InternalType /\ SameFlags(k, l) /\ SameRest(k, l)
      /\ l.count = k.count /\ l.ctx = k.ctx
  BY <1>2 DEF InternalType, SameFlags, SameRest
<1> HIDE DEF l
<1>4. SameCount(k, l, {})
  BY <1>3 DEF SameCount
<1>5. Core(l)
  BY <1>2, <1>3, <1>4, CoreSame DEF SameRest
<1>6. CASE j = l
  BY <1>2, <1>3, <1>5, <1>6 DEF SameFlags, SameButStart, SameRest, SameCount
<1>7. CASE j = run_close_bids(l)
  <2>1. /\ j \in InternalType /\ Core(j) /\ SameFlags(l, j) /\ SameRest(l, j)
        /\ SameCount(l, j, {"CLOSE_BIDS"})
    BY <1>3, <1>5, <1>7, CloseBidsEffect
  <2>2. SameCount(i, j, {"CRANK", "CLOSE_BIDS"})
    BY <1>2, <1>3, <2>1 DEF SameCount
  <2>3. QED
    BY <1>2, <1>3, <2>1, <2>2 DEF SameFlags, SameButStart, SameRest
<1>8. QED
  BY <1>1, <1>6, <1>7

\* All that a handler may do with internal.
Effect(i, j, e) ==
    /\ j \in InternalType /\ Core(j)
    /\ \A f \in Events : j.count[f] = i.count[f]
    /\ j.isClockReadyToClose => i.isClockReadyToClose \/ e = "DELAY_CLOSE"
    /\ j.bidHasClosed => i.bidHasClosed \/ e = "BID_CLOSED"
    /\ j.validatorHasWithdrawn => i.validatorHasWithdrawn \/ e = "VAL_WITHDRAWN"
    /\ e = "START" => j.hasStarted
    /\ e = "BID_FINAL" => j.bidIsFinal /\ j.ctx["CRANK"] # "live"
    /\ j.bidIsFinal =>
          e = "BID_FINAL" \/ j.bidHasClosed \/ (i.bidIsFinal /\ ~i.bidHasClosed)
    /\ \/ j.count["SET_PAYOUT"] = i.count["SET_PAYOUT"]
       \/ /\ j.count["SET_PAYOUT"] = i.count["SET_PAYOUT"] + 1
          /\ e = "PRE_START" /\ ~i.hasStarted
    /\ \/ j.count["WITHDRAW"] = i.count["WITHDRAW"]
       \/ /\ j.count["WITHDRAW"] = i.count["WITHDRAW"] + 1
          /\ e = "STK_WITHDRAWN"
    /\ \/ /\ j.keepPayoutOpen = i.keepPayoutOpen
          /\ j.count["CLOSE_PAYOUT"] = i.count["CLOSE_PAYOUT"]
       \/ /\ ~j.keepPayoutOpen
          /\ j.count["CLOSE_PAYOUT"] = i.count["CLOSE_PAYOUT"] + 1
          /\ j.bidHasClosed /\ j.isClockReadyToClose /\ j.validatorHasWithdrawn

\* A step to k that changes neither the counts nor whether the payout is kept
\* open, and sets no flag that e does not set, followed by run_close_payout.
LEMMA ThenClosePayout ==
  ASSUME NEW i, NEW e \in {"DELAY_CLOSE", "BID_CLOSED", "VAL_WITHDRAWN"},
         NEW k \in InternalType, Core(k),
         SameCount(i, k, {"CRANK", "CLOSE_BIDS"}),
         k.keepPayoutOpen = i.keepPayoutOpen,
         k.isClockReadyToClose => i.isClockReadyToClose \/ e = "DELAY_CLOSE",
         k.bidHasClosed => i.bidHasClosed \/ e = "BID_CLOSED",
         k.bidIsFinal => k.bidHasClosed \/ (i.bidIsFinal /\ ~i.bidHasClosed),
         k.validatorHasWithdrawn => i.validatorHasWithdrawn \/ e = "VAL_WITHDRAWN"
  PROVE  Effect(i, run_close_payout(k), e)
<1> DEFINE j == run_close_payout(k)
<1>1. /\ j \in InternalType /\ Core(j) /\ SameFlags(k, j)
      /\ SameCount(k, j, {"CLOSE_PAYOUT"})
      /\ \/ j = k
         \/ /\ k.bidHasClosed /\ k.isClockReadyToClose
            /\ k.validatorHasWithdrawn
            /\ ~j.keepPayoutOpen
            /\ j.count["CLOSE_PAYOUT"] = k.count["CLOSE_PAYOUT"] + 1
  BY ClosePayoutEffect
<1> HIDE DEF j
<1>2. /\ \A f \in Events : j.count[f] = i.count[f]
      /\ j.count["SET_PAYOUT"] = i.count["SET_PAYOUT"]
      /\ j.count["WITHDRAW"] = i.count["WITHDRAW"]
      /\ k.count["CLOSE_PAYOUT"] = i.count["CLOSE_PAYOUT"]
  BY <1>1, Names DEF SameCount
<1>3. Effect(i, j, e)
  BY <1>1, <1>2 DEF Effect, SameFlags
<1>4. QED
  BY <1>3 DEF j

\* Cancelled leaves a context that is not live.
LEMMA CancelledEffect ==
  ASSUME NEW i \in InternalType, NEW t \in Triggers, NEW j, j = Cancelled(i, t)
  PROVE  /\ j \in InternalType /\ SameFlags(i, j) /\ SameRest(i, j)
         /\ j.count = i.count /\ j.ctx[t] # "live"
         /\ \A u \in Triggers : u # t => j.ctx[u] = i.ctx[u]
<1>1. CASE i.ctx[t] = "live"
  <2>1. j = [i EXCEPT !.ctx[t] = "done"]
    BY <1>1 DEF Cancelled
  <2>2. QED
    BY <2>1, ContextEffect DEF CtxState
<1>2. CASE i.ctx[t] # "live"
  BY <1>2 DEF Cancelled, SameFlags, SameRest
<1>3. QED
  BY <1>1, <1>2

\* on_event's handlers, one by one.
LEMMA HandleEffect ==
  ASSUME NEW i \in InternalType, Core(i), NEW e \in Events
  PROVE  Effect(i, Handle(i, e), e)
<1>1. CASE e = "PRE_START"
  <2> DEFINE j == Handle(i, e)
  <2>1. j = i \/ j = run_validator_set_payout(i)
    BY <1>1 DEF Handle, on_pre_start
  <2> HIDE DEF j
  <2>2. CASE j = i
    <3>1. QED
      BY <1>1, <2>2 DEF Effect, j
  <2>3. CASE j = run_validator_set_payout(i)
    <3>1. /\ j \in InternalType /\ Core(j) /\ SameFlags(i, j) /\ SameRest(i, j)
          /\ SameCount(i, j, {"SET_PAYOUT"})
          /\ \/ j.count["SET_PAYOUT"] = i.count["SET_PAYOUT"]
             \/ /\ j.count["SET_PAYOUT"] = i.count["SET_PAYOUT"] + 1
                /\ ~i.hasStarted
      BY <2>3, SetPayoutEffect
    <3>2. /\ \A f \in Events : j.count[f] = i.count[f]
          /\ j.count["WITHDRAW"] = i.count["WITHDRAW"]
          /\ j.count["CLOSE_PAYOUT"] = i.count["CLOSE_PAYOUT"]
      BY <3>1, Names DEF SameCount
    <3>3. Effect(i, j, e)
      BY <1>1, <3>1, <3>2 DEF Effect, SameFlags, SameRest
    <3>4. QED
      BY <3>3 DEF j
  <2>4. QED
    BY <2>1, <2>2, <2>3
<1>2. CASE e = "START"
  <2> DEFINE j == on_start(i)
  <2>1. /\ j \in InternalType /\ Core(j) /\ SameButStart(i, j) /\ SameRest(i, j)
        /\ j.hasStarted /\ SameCount(i, j, {"CRANK"})
    BY OnStartEffect
  <2> HIDE DEF j
  <2>2. /\ \A f \in Events : j.count[f] = i.count[f]
        /\ j.count["WITHDRAW"] = i.count["WITHDRAW"]
        /\ j.count["SET_PAYOUT"] = i.count["SET_PAYOUT"]
        /\ j.count["CLOSE_PAYOUT"] = i.count["CLOSE_PAYOUT"]
    BY <2>1, Names DEF SameCount
  <2>3. Effect(i, j, e)
    BY <1>2, <2>1, <2>2 DEF Effect, SameButStart, SameRest
  <2>4. QED
    BY <1>2, <2>3 DEF Handle, j
<1>3. CASE e = "FINISH"
  <2> DEFINE j == on_finish(i)
  <2>1. /\ j \in InternalType /\ Core(j) /\ SameButStart(i, j) /\ SameRest(i, j)
        /\ j.hasStarted /\ SameCount(i, j, {"CRANK", "CLOSE_BIDS"})
    BY OnFinishEffect
  <2> HIDE DEF j
  <2>2. /\ \A f \in Events : j.count[f] = i.count[f]
        /\ j.count["WITHDRAW"] = i.count["WITHDRAW"]
        /\ j.count["SET_PAYOUT"] = i.count["SET_PAYOUT"]
        /\ j.count["CLOSE_PAYOUT"] = i.count["CLOSE_PAYOUT"]
    BY <2>1, Names DEF SameCount
  <2>3. Effect(i, j, e)
    BY <1>3, <2>1, <2>2 DEF Effect, SameButStart, SameRest
  <2>4. QED
    BY <1>3, <2>3 DEF Handle, j
<1>4. CASE e = "DELAY_CLOSE"
  <2> DEFINE m == IF i.hasFinished THEN i ELSE on_finish(i)
             k == [m EXCEPT !.isClockReadyToClose = TRUE]
  <2>1. Handle(i, e) = run_close_payout(k)
    BY <1>4 DEF Handle, on_clock_close_payout
  <2>2. /\ m \in InternalType /\ Core(m) /\ SameButStart(i, m) /\ SameRest(i, m)
        /\ SameCount(i, m, {"CRANK", "CLOSE_BIDS"})
    <3>1. CASE i.hasFinished
      BY <3>1 DEF SameButStart, SameRest, SameCount
    <3>2. CASE ~i.hasFinished
      BY <3>2, OnFinishEffect
    <3>3. QED
      BY <3>1, <3>2
  <2> HIDE DEF m
  <2>3. /\ k \in InternalType /\ SameRest(m, k)
        /\ k.count = m.count /\ k.ctx = m.ctx
        /\ k.hasStarted = m.hasStarted /\ k.bidIsFinal = m.bidIsFinal
        /\ k.bidHasClosed = m.bidHasClosed
        /\ k.validatorHasWithdrawn = m.validatorHasWithdrawn
    BY <2>2 DEF InternalType, SameRest
  <2> HIDE DEF k
  <2>4. Core(k)
    BY <2>2, <2>3 DEF Core, SameRest
  <2>5. SameCount(i, k, {"CRANK", "CLOSE_BIDS"})
    BY <2>2, <2>3 DEF SameCount
  <2>6. Effect(i, run_close_payout(k), e)
    BY <1>4, <2>2, <2>3, <2>4, <2>5, ThenClosePayout DEF SameButStart, SameRest
  <2>7. QED
    BY <2>1, <2>6
<1>5. CASE e = "BID_CLOSED"
  <2> DEFINE m == [i EXCEPT !.bidIsFinal = TRUE, !.bidHasClosed = TRUE]
             k == Cancelled(m, "CLOSE_BIDS")
  <2>1. Handle(i, e) = run_close_payout(k)
    BY <1>5 DEF Handle, on_bid_closed
  <2>2. /\ m \in InternalType /\ SameRest(i, m)
        /\ m.count = i.count /\ m.ctx = i.ctx /\ m.bidIsFinal
        /\ m.hasStarted = i.hasStarted
        /\ m.isClockReadyToClose = i.isClockReadyToClose
        /\ m.validatorHasWithdrawn = i.validatorHasWithdrawn
        /\ m.bidHasClosed
    BY DEF InternalType, SameRest
  <2> HIDE DEF m
  <2>3. /\ k \in InternalType /\ SameFlags(m, k) /\ SameRest(m, k)
        /\ k.count = m.count /\ k.ctx["CLOSE_BIDS"] # "live"
        /\ k.ctx["CRANK"] = m.ctx["CRANK"]
    BY <2>2, CancelledEffect, Names
  <2> HIDE DEF k
  <2>4. Core(k)
    BY <2>2, <2>3 DEF Core, SameRest, SameFlags
  <2>5. SameCount(i, k, {"CRANK", "CLOSE_BIDS"})
    BY <2>2, <2>3 DEF SameCount
  <2>6. Effect(i, run_close_payout(k), e)
    BY <1>5, <2>2, <2>3, <2>4, <2>5, ThenClosePayout DEF SameFlags, SameRest
  <2>7. QED
    BY <2>1, <2>6
<1>6. CASE e = "BID_FINAL"
  <2> DEFINE m == [i EXCEPT !.bidIsFinal = TRUE]
             j == Cancelled(m, "CRANK")
  <2>1. Handle(i, e) = j
    BY <1>6 DEF Handle, on_bid_final
  <2>2. /\ m \in InternalType /\ SameRest(i, m)
        /\ m.count = i.count /\ m.ctx = i.ctx /\ m.bidIsFinal
        /\ m.hasStarted = i.hasStarted /\ m.bidHasClosed = i.bidHasClosed
        /\ m.isClockReadyToClose = i.isClockReadyToClose
        /\ m.validatorHasWithdrawn = i.validatorHasWithdrawn
    BY DEF InternalType, SameRest
  <2> HIDE DEF m
  <2>3. /\ j \in InternalType /\ SameFlags(m, j) /\ SameRest(m, j)
        /\ j.count = m.count /\ j.ctx["CRANK"] # "live"
        /\ j.ctx["CLOSE_BIDS"] = m.ctx["CLOSE_BIDS"]
    BY <2>2, CancelledEffect, Names
  <2> HIDE DEF j
  <2>4. Core(j)
    BY <2>2, <2>3 DEF Core, SameRest, SameFlags
  <2>5. Effect(i, j, e)
    BY <1>6, <2>2, <2>3, <2>4 DEF Effect, SameFlags, SameRest
  <2>6. QED
    BY <2>1, <2>5
<1>7. CASE e = "VAL_WITHDRAWN"
  <2> DEFINE k == [i EXCEPT !.validatorAddingHasStarted = TRUE,
                            !.validatorHasWithdrawn = TRUE]
  <2>1. Handle(i, e) = run_close_payout(k)
    BY <1>7 DEF Handle, on_validator_have_withdrawn
  <2>2. /\ k \in InternalType /\ SameRest(i, k)
        /\ k.count = i.count /\ k.ctx = i.ctx /\ k.bidIsFinal = i.bidIsFinal
        /\ k.hasStarted = i.hasStarted
        /\ k.isClockReadyToClose = i.isClockReadyToClose
        /\ k.bidHasClosed = i.bidHasClosed
    BY DEF InternalType, SameRest
  <2> HIDE DEF k
  <2>3. Core(k)
    BY <2>2 DEF Core, SameRest
  <2>4. SameCount(i, k, {"CRANK", "CLOSE_BIDS"})
    BY <2>2 DEF SameCount
  <2>5. Effect(i, run_close_payout(k), e)
    BY <1>7, <2>2, <2>3, <2>4, ThenClosePayout DEF SameRest
  <2>6. QED
    BY <2>1, <2>5
<1>8. CASE e \in {"VAL_ADDING", "STK_ADDING"}
  <2> DEFINE j == Handle(i, e)
  <2>1. \/ j = [i EXCEPT !.validatorAddingHasStarted = TRUE]
        \/ j = [i EXCEPT !.stakerAddingHasStarted = TRUE]
    BY <1>8 DEF Handle, on_validator_is_adding, on_staker_is_adding
  <2> HIDE DEF j
  <2>2. /\ j \in InternalType /\ SameRest(i, j) /\ SameFlags(i, j)
        /\ j.count = i.count /\ j.ctx = i.ctx
    BY <2>1 DEF InternalType, SameRest, SameFlags
  <2>3. Core(j)
    BY <2>2 DEF Core, SameRest, SameFlags
  <2>4. Effect(i, j, e)
    BY <1>8, <2>2, <2>3 DEF Effect, SameRest, SameFlags
  <2>5. QED
    BY <2>4 DEF j
<1>9. CASE e = "STK_WITHDRAWN"
  <2> DEFINE k == [i EXCEPT !.stakerAddingHasStarted = TRUE,
                            !.stakerAddingIsDone = TRUE]
             j == run_validator_withdraw(k)
  <2>1. Handle(i, e) = j
    BY <1>9 DEF Handle, on_staker_have_withdrawn
  <2>2. /\ k \in InternalType /\ SameRest(i, k) /\ SameFlags(i, k)
        /\ k.count = i.count /\ k.ctx = i.ctx
    BY DEF InternalType, SameRest, SameFlags
  <2> HIDE DEF k
  <2>3. Core(k)
    BY <2>2 DEF Core, SameRest, SameFlags
  <2>4. /\ j \in InternalType /\ Core(j) /\ SameFlags(k, j) /\ SameRest(k, j)
        /\ SameCount(k, j, {"WITHDRAW"})
        /\ \/ j.count["WITHDRAW"] = k.count["WITHDRAW"]
           \/ j.count["WITHDRAW"] = k.count["WITHDRAW"] + 1
    BY <2>2, <2>3, WithdrawEffect
  <2> HIDE DEF j
  <2>5. /\ \A f \in Events : j.count[f] = i.count[f]
        /\ j.count["SET_PAYOUT"] = i.count["SET_PAYOUT"]
        /\ j.count["CLOSE_PAYOUT"] = i.count["CLOSE_PAYOUT"]
    BY <2>2, <2>4, Names DEF SameCount
  <2>6. Effect(i, j, e)
    BY <1>9, <2>2, <2>4, <2>5 DEF Effect, SameFlags, SameRest
  <2>7. QED
    BY <2>1, <2>6
<1>10. QED
  BY <1>1, <1>2, <1>3, <1>4, <1>5, <1>6, <1>7, <1>8, <1>9, Names

\* on_event: a handler, then the broadcast of the event.
LEMMA EventEffect ==
  ASSUME NEW i \in InternalType, Kept(i), NEW e \in Events,
         NEW j, j = on_event(i, e)
  PROVE  /\ j \in InternalType /\ Core(j)
         /\ \A f \in Events \ {e} : j.count[f] = i.count[f]
         /\ j.count[e] = i.count[e] + 1
         /\ j.isClockReadyToClose => i.isClockReadyToClose \/ e = "DELAY_CLOSE"
         /\ j.bidHasClosed => i.bidHasClosed \/ e = "BID_CLOSED"
         /\ j.bidIsFinal =>
               e = "BID_FINAL" \/ j.bidHasClosed \/ (i.bidIsFinal /\ ~i.bidHasClosed)
         /\ j.validatorHasWithdrawn =>
               i.validatorHasWithdrawn \/ e = "VAL_WITHDRAWN"
         /\ j.count["SET_PAYOUT"] <= j.count["PRE_START"]
         /\ j.count["SET_PAYOUT"] > i.count["SET_PAYOUT"] =>
               e = "PRE_START" /\ ~i.hasStarted
         /\ j.count["WITHDRAW"] <= j.count["STK_WITHDRAWN"]
         /\ \/ j.keepPayoutOpen /\ Kept(j)
            \/ /\ ~j.keepPayoutOpen /\ j.count["CLOSE_PAYOUT"] = 1
               /\ j.bidHasClosed /\ j.isClockReadyToClose
               /\ j.validatorHasWithdrawn
<1> DEFINE h == Handle(i, e)
<1>1. Effect(i, h, e)
  BY HandleEffect DEF Kept
<1>2. j = broadcast(h, e)
  BY DEF on_event
<1> HIDE DEF h
<1>3. h \in InternalType /\ Core(h)
  BY <1>1 DEF Effect
<1>4. /\ j \in InternalType /\ SameFlags(h, j) /\ SameRest(h, j)
      /\ j.ctx = h.ctx
      /\ SameCount(h, j, {e}) /\ j.count[e] = h.count[e] + 1
  BY <1>2, <1>3, BroadcastEffect
<1>5. /\ \A f \in Events \ {e} : j.count[f] = i.count[f]
      /\ j.count[e] = i.count[e] + 1
  BY <1>1, <1>4 DEF Effect, SameCount
<1>6. \A t \in Triggers : j.count[t] = h.count[t]
  BY <1>4, Names DEF SameCount
<1>7. /\ \A f \in Events \cup Triggers : i.count[f] \in Nat /\ j.count[f] \in Nat
  BY <1>4, CountNat
<1>8. Core(j)
  <2>1. j.count["CRANK"] = h.count["CRANK"] /\ j.count["CLOSE_BIDS"] = h.count["CLOSE_BIDS"]
    BY <1>6, Names
  <2>2. j.count["BID_FINAL"] > 0 => j.bidIsFinal /\ j.ctx["CRANK"] # "live"
    <3>1. CASE e = "BID_FINAL"
      BY <3>1, <1>1, <1>4 DEF Effect, SameFlags
    <3>2. CASE e # "BID_FINAL"
      <4>1. j.count["BID_FINAL"] = h.count["BID_FINAL"]
        BY <3>2, <1>4, Names DEF SameCount
      <4>2. QED
        BY <4>1, <1>3, <1>4 DEF Core, SameFlags
    <3>3. QED
      BY <3>1, <3>2
  <2>3. j.count["START"] > 0 => j.hasStarted
    <3>1. CASE e = "START"
      BY <3>1, <1>1, <1>4 DEF Effect, SameFlags
    <3>2. CASE e # "START"
      <4>1. j.count["START"] = h.count["START"]
        BY <3>2, <1>4, Names DEF SameCount
      <4>2. QED
        BY <4>1, <1>3, <1>4 DEF Core, SameFlags
    <3>3. QED
      BY <3>1, <3>2
  <2>4. QED
    BY <1>3, <1>4, <2>1, <2>2, <2>3 DEF Core, SameFlags, SameRest
<1>9. /\ j.isClockReadyToClose => i.isClockReadyToClose \/ e = "DELAY_CLOSE"
      /\ j.bidHasClosed => i.bidHasClosed \/ e = "BID_CLOSED"
      /\ j.bidIsFinal =>
            e = "BID_FINAL" \/ j.bidHasClosed \/ (i.bidIsFinal /\ ~i.bidHasClosed)
      /\ j.validatorHasWithdrawn =>
            i.validatorHasWithdrawn \/ e = "VAL_WITHDRAWN"
  BY <1>1, <1>4 DEF Effect, SameFlags
<1>10. /\ j.count["SET_PAYOUT"] <= j.count["PRE_START"]
       /\ j.count["SET_PAYOUT"] > i.count["SET_PAYOUT"] =>
             e = "PRE_START" /\ ~i.hasStarted
  <2>1. \/ j.count["SET_PAYOUT"] = i.count["SET_PAYOUT"]
        \/ /\ j.count["SET_PAYOUT"] = i.count["SET_PAYOUT"] + 1
           /\ e = "PRE_START" /\ ~i.hasStarted
    BY <1>1, <1>6, Names DEF Effect
  <2>2. /\ i.count["SET_PAYOUT"] <= i.count["PRE_START"]
        /\ i.count["SET_PAYOUT"] \in Nat /\ i.count["PRE_START"] \in Nat
    BY <1>7, Names DEF Kept
  <2>3. /\ e = "PRE_START" => j.count["PRE_START"] = i.count["PRE_START"] + 1
        /\ e # "PRE_START" => j.count["PRE_START"] = i.count["PRE_START"]
    BY <1>5, Names
  <2>4. QED
    BY <2>1, <2>2, <2>3
<1>11. j.count["WITHDRAW"] <= j.count["STK_WITHDRAWN"]
  <2>1. \/ j.count["WITHDRAW"] = i.count["WITHDRAW"]
        \/ /\ j.count["WITHDRAW"] = i.count["WITHDRAW"] + 1
           /\ e = "STK_WITHDRAWN"
    BY <1>1, <1>6, Names DEF Effect
  <2>2. /\ i.count["WITHDRAW"] <= i.count["STK_WITHDRAWN"]
        /\ i.count["WITHDRAW"] \in Nat /\ i.count["STK_WITHDRAWN"] \in Nat
    BY <1>7, Names DEF Kept
  <2>3. /\ e = "STK_WITHDRAWN" =>
              j.count["STK_WITHDRAWN"] = i.count["STK_WITHDRAWN"] + 1
        /\ e # "STK_WITHDRAWN" =>
              j.count["STK_WITHDRAWN"] = i.count["STK_WITHDRAWN"]
    BY <1>5, Names
  <2>4. QED
    BY <2>1, <2>2, <2>3
<1>12. \/ j.keepPayoutOpen /\ Kept(j)
       \/ /\ ~j.keepPayoutOpen /\ j.count["CLOSE_PAYOUT"] = 1
          /\ j.bidHasClosed /\ j.isClockReadyToClose
          /\ j.validatorHasWithdrawn
  <2>1. j.count["CLOSE_PAYOUT"] = h.count["CLOSE_PAYOUT"]
    BY <1>6, Names
  <2>2. i.keepPayoutOpen /\ i.count["CLOSE_PAYOUT"] = 0
    BY DEF Kept
  <2>3. \/ j.keepPayoutOpen /\ j.count["CLOSE_PAYOUT"] = 0
        \/ /\ ~j.keepPayoutOpen /\ j.count["CLOSE_PAYOUT"] = 1
           /\ j.bidHasClosed /\ j.isClockReadyToClose
           /\ j.validatorHasWithdrawn
    <3>1. \/ /\ h.keepPayoutOpen = i.keepPayoutOpen
             /\ h.count["CLOSE_PAYOUT"] = i.count["CLOSE_PAYOUT"]
          \/ /\ ~h.keepPayoutOpen
             /\ h.count["CLOSE_PAYOUT"] = i.count["CLOSE_PAYOUT"] + 1
             /\ h.bidHasClosed /\ h.isClockReadyToClose
             /\ h.validatorHasWithdrawn
      BY <1>1 DEF Effect
    <3>2. /\ j.keepPayoutOpen = h.keepPayoutOpen
          /\ j.bidHasClosed = h.bidHasClosed
          /\ j.isClockReadyToClose = h.isClockReadyToClose
          /\ j.validatorHasWithdrawn = h.validatorHasWithdrawn
      BY <1>4 DEF SameFlags, SameRest
    <3>3. CASE /\ h.keepPayoutOpen = i.keepPayoutOpen
               /\ h.count["CLOSE_PAYOUT"] = i.count["CLOSE_PAYOUT"]
      <4>1. j.keepPayoutOpen
        BY <2>2, <3>2, <3>3
      <4>2. j.count["CLOSE_PAYOUT"] = 0
        BY <2>1, <2>2, <3>3
      <4>3. QED
        BY <4>1, <4>2
    <3>4. CASE /\ ~h.keepPayoutOpen
               /\ h.count["CLOSE_PAYOUT"] = i.count["CLOSE_PAYOUT"] + 1
               /\ h.bidHasClosed /\ h.isClockReadyToClose
               /\ h.validatorHasWithdrawn
      <4>1. j.count["CLOSE_PAYOUT"] = 1
        BY <2>1, <2>2, <3>4
      <4>2. QED
        BY <3>2, <3>4, <4>1
    <3>5. QED
      BY <3>1, <3>3, <3>4
  <2>4. QED
    BY <1>8, <1>10, <1>11, <2>3 DEF Kept
<1>13. QED
  BY <1>4, <1>5, <1>8, <1>9, <1>10, <1>11, <1>12

-----------------------------------------------------------------------------
(* Sequences of events.                                                    *)

\* An empty sequence and a sequence of one.
LEMMA ShortElems ==
  /\ Elems(<<>>) = {} /\ Sorted(<<>>) /\ Distinct(<<>>)
  /\ \A a : Elems(<<a>>) = {a} /\ Sorted(<<a>>) /\ Distinct(<<a>>)
<1>1. Elems(<<>>) = {} /\ Sorted(<<>>) /\ Distinct(<<>>)
  BY DEF Elems, Sorted, Distinct
<1>2. ASSUME NEW a PROVE Elems(<<a>>) = {a} /\ Sorted(<<a>>) /\ Distinct(<<a>>)
  BY DEF Elems, Sorted, Distinct
<1>3. QED
  BY <1>1, <1>2

\* A sequence of two.
LEMMA PairElems ==
  ASSUME NEW a, NEW b, NEW q, q = <<a, b>>
  PROVE  /\ Elems(q) = {a, b}
         /\ a # b => Distinct(q)
         /\ Rank[a] < Rank[b] => Sorted(q)
  BY DEF Elems, Sorted, Distinct

\* A concatenation.
LEMMA ConcatElems ==
  ASSUME NEW S, NEW s \in Seq(S), NEW t \in Seq(S)
  PROVE  /\ Elems(s \o t) = Elems(s) \cup Elems(t)
         /\ Distinct(s) /\ Distinct(t) /\ Elems(s) \cap Elems(t) = {}
               => Distinct(s \o t)
         /\ Sorted(s) /\ Sorted(t)
            /\ (\A a \in Elems(s), b \in Elems(t) : Rank[a] < Rank[b])
               => Sorted(s \o t)
<1> DEFINE u == s \o t
<1>1. /\ Len(u) = Len(s) + Len(t) /\ Len(s) \in Nat /\ Len(t) \in Nat
      /\ \A n \in 1 .. Len(s) + Len(t) :
            u[n] = IF n <= Len(s) THEN s[n] ELSE t[n - Len(s)]
  BY ConcatProperties, LenProperties
<1> HIDE DEF u
<1>2. /\ \A n \in 1 .. Len(s) : n \in 1 .. Len(u) /\ u[n] = s[n]
      /\ \A n \in 1 .. Len(t) :
            n + Len(s) \in 1 .. Len(u) /\ u[n + Len(s)] = t[n]
      /\ \A n \in 1 .. Len(u) :
            \/ n \in 1 .. Len(s) /\ u[n] = s[n]
            \/ n - Len(s) \in 1 .. Len(t) /\ u[n] = t[n - Len(s)] /\ n > Len(s)
  <2>1. \A n \in 1 .. Len(s) : n \in 1 .. Len(u) /\ u[n] = s[n]
    BY <1>1
  <2>2. ASSUME NEW n \in 1 .. Len(t)
        PROVE  n + Len(s) \in 1 .. Len(u) /\ u[n + Len(s)] = t[n]
    <3>1. /\ n + Len(s) \in 1 .. Len(s) + Len(t) /\ ~(n + Len(s) <= Len(s))
          /\ (n + Len(s)) - Len(s) = n
      BY <1>1
    <3>2. QED
      BY <1>1, <3>1
  <2>3. ASSUME NEW n \in 1 .. Len(u)
        PROVE  \/ n \in 1 .. Len(s) /\ u[n] = s[n]
               \/ n - Len(s) \in 1 .. Len(t) /\ u[n] = t[n - Len(s)] /\ n > Len(s)
    <3>1. CASE n <= Len(s)
      BY <1>1, <3>1
    <3>2. CASE ~(n <= Len(s))
      <4>1. u[n] = t[n - Len(s)]
        BY <1>1, <3>2
      <4>2. n - Len(s) \in 1 .. Len(t) /\ n > Len(s)
        BY <1>1, <3>2
      <4>3. QED
        BY <4>1, <4>2
    <3>3. QED
      BY <3>1, <3>2
  <2>4. QED
    BY <2>1, <2>2, <2>3
<1>3. Elems(u) = Elems(s) \cup Elems(t)
  <2>1. \A n \in 1 .. Len(u) : u[n] \in Elems(s) \cup Elems(t)
    BY <1>2 DEF Elems
  <2>2. \A n \in 1 .. Len(s) : s[n] \in Elems(u)
    BY <1>2 DEF Elems
  <2>3. \A n \in 1 .. Len(t) : t[n] \in Elems(u)
    <3> TAKE n \in 1 .. Len(t)
    <3>1. n + Len(s) \in 1 .. Len(u) /\ u[n + Len(s)] = t[n]
      BY <1>2
    <3>2. QED
      BY <3>1 DEF Elems
  <2>4. Elems(u) \subseteq Elems(s) \cup Elems(t)
    BY <2>1 DEF Elems
  <2>5. Elems(s) \subseteq Elems(u)
    BY <2>2 DEF Elems
  <2>6. Elems(t) \subseteq Elems(u)
    BY <2>3 DEF Elems
  <2>7. QED
    BY <2>4, <2>5, <2>6
<1>4. ASSUME Distinct(s), Distinct(t), Elems(s) \cap Elems(t) = {}
      PROVE  Distinct(u)
  <2> SUFFICES ASSUME NEW m \in 1 .. Len(u), NEW n \in 1 .. Len(u), u[m] = u[n]
               PROVE  m = n
    BY DEF Distinct
  <2>1. CASE m \in 1 .. Len(s) /\ u[m] = s[m] /\ n \in 1 .. Len(s) /\ u[n] = s[n]
    BY <2>1, <1>4 DEF Distinct
  <2>2. CASE /\ m - Len(s) \in 1 .. Len(t) /\ u[m] = t[m - Len(s)]
             /\ n - Len(s) \in 1 .. Len(t) /\ u[n] = t[n - Len(s)]
    <3>1. m - Len(s) = n - Len(s)
      BY <2>2, <1>4 DEF Distinct
    <3>2. QED
      BY <3>1, <1>1
  <2>3. CASE m \in 1 .. Len(s) /\ u[m] = s[m]
             /\ n - Len(s) \in 1 .. Len(t) /\ u[n] = t[n - Len(s)]
    BY <2>3, <1>4 DEF Elems
  <2>4. CASE n \in 1 .. Len(s) /\ u[n] = s[n]
             /\ m - Len(s) \in 1 .. Len(t) /\ u[m] = t[m - Len(s)]
    BY <2>4, <1>4 DEF Elems
  <2>5. QED
    BY <1>2, <2>1, <2>2, <2>3, <2>4
<1>5. ASSUME Sorted(s), Sorted(t),
             \A a \in Elems(s), b \in Elems(t) : Rank[a] < Rank[b]
      PROVE  Sorted(u)
  <2> SUFFICES ASSUME NEW m \in 1 .. Len(u), NEW n \in 1 .. Len(u), m < n
               PROVE  Rank[u[m]] < Rank[u[n]]
    BY DEF Sorted
  <2>1. CASE m \in 1 .. Len(s) /\ u[m] = s[m] /\ n \in 1 .. Len(s) /\ u[n] = s[n]
    BY <2>1, <1>5 DEF Sorted
  <2>2. CASE /\ m - Len(s) \in 1 .. Len(t) /\ u[m] = t[m - Len(s)]
             /\ n - Len(s) \in 1 .. Len(t) /\ u[n] = t[n - Len(s)]
    <3>1. m - Len(s) < n - Len(s)
      BY <1>1
    <3>2. QED
      BY <2>2, <3>1, <1>5 DEF Sorted
  <2>3. CASE m \in 1 .. Len(s) /\ u[m] = s[m]
             /\ n - Len(s) \in 1 .. Len(t) /\ u[n] = t[n - Len(s)]
    <3>1. s[m] \in Elems(s) /\ t[n - Len(s)] \in Elems(t)
      BY <2>3 DEF Elems
    <3>2. QED
      BY <2>3, <3>1, <1>5
  <2>4. QED
    BY <1>1, <1>2, <2>1, <2>2, <2>3
<1>6. QED
  BY <1>3, <1>4, <1>5 DEF u

\* What is left when the head has been sent.
LEMMA TailElems ==
  ASSUME NEW S, NEW s \in Seq(S), s # <<>>
  PROVE  /\ Head(s) \in Elems(s)
         /\ Elems(Tail(s)) \subseteq Elems(s)
         /\ Elems(s) = {Head(s)} \cup Elems(Tail(s))
         /\ Distinct(s) => Distinct(Tail(s)) /\ Head(s) \notin Elems(Tail(s))
         /\ Sorted(s) => /\ Sorted(Tail(s))
                         /\ \A x \in Elems(Tail(s)) : Rank[Head(s)] < Rank[x]
<1> DEFINE t == Tail(s)
<1>1. /\ Len(s) \in Nat \ {0} /\ Head(s) = s[1] /\ Len(t) = Len(s) - 1
      /\ \A n \in 1 .. Len(t) : t[n] = s[n + 1]
  BY HeadTailProperties, EmptySeq
<1> HIDE DEF t
<1>2. /\ 1 \in 1 .. Len(s)
      /\ \A n \in 1 .. Len(t) : n + 1 \in 1 .. Len(s) /\ 1 < n + 1 /\ t[n] = s[n + 1]
      /\ \A n \in 1 .. Len(s) : n = 1 \/ n - 1 \in 1 .. Len(t)
      /\ \A n \in 1 .. Len(s) : (n - 1) + 1 = n
  BY <1>1
<1>3. Head(s) \in Elems(s) /\ Elems(t) \subseteq Elems(s)
  BY <1>1, <1>2 DEF Elems
<1>4. Elems(s) = {Head(s)} \cup Elems(t)
  <2>1. ASSUME NEW n \in 1 .. Len(s) PROVE s[n] = Head(s) \/ s[n] \in Elems(t)
    <3>1. CASE n = 1
      BY <3>1, <1>1
    <3>2. CASE n - 1 \in 1 .. Len(t)
      <4>1. t[n - 1] = s[(n - 1) + 1] /\ (n - 1) + 1 = n
        BY <1>2, <3>2
      <4>2. QED
        BY <3>2, <4>1 DEF Elems
    <3>3. QED
      BY <1>2, <3>1, <3>2
  <2>2. QED
    BY <1>3, <2>1 DEF Elems
<1>5. ASSUME Distinct(s) PROVE Distinct(t) /\ Head(s) \notin Elems(t)
  <2>1. Head(s) \notin Elems(t)
    BY <1>1, <1>2, <1>5 DEF Distinct, Elems
  <2>2. ASSUME NEW m \in 1 .. Len(t), NEW n \in 1 .. Len(t), t[m] = t[n]
        PROVE  m = n
    <3>1. m + 1 = n + 1
      BY <1>2, <1>5, <2>2 DEF Distinct
    <3>2. QED
      BY <3>1
  <2>3. QED
    BY <2>1, <2>2 DEF Distinct
<1>6. ASSUME Sorted(s)
      PROVE  Sorted(t) /\ \A x \in Elems(t) : Rank[Head(s)] < Rank[x]
  <2>1. \A x \in Elems(t) : Rank[Head(s)] < Rank[x]
    BY <1>1, <1>2, <1>6 DEF Sorted, Elems
  <2>2. ASSUME NEW m \in 1 .. Len(t), NEW n \in 1 .. Len(t), m < n
        PROVE  Rank[t[m]] < Rank[t[n]]
    <3>1. m + 1 < n + 1
      BY <2>2
    <3>2. QED
      BY <1>2, <1>6, <3>1 DEF Sorted
  <2>3. QED
    BY <2>1, <2>2 DEF Sorted
<1>7. QED
  BY <1>3, <1>4, <1>5, <1>6 DEF t

\* The ranks of loopClock's messages.
LEMMA Ranks ==
  /\ Rank["START"] = 1 /\ Rank["PRE_START"] = 2 /\ Rank["FINISH"] = 3
  /\ Rank["DELAY_CLOSE"] = 4 /\ Rank["POST_CLOCK"] = 5
  BY DEF Rank, ClockEvents

\* A sorted queue of loopClock holds nothing twice.
LEMMA ClockDistinct ==
  ASSUME NEW q \in Seq(Events \cup Steps), Sorted(q),
         Elems(q) \subseteq ClockEvents \cup {"POST_CLOCK"}
  PROVE  Distinct(q)
<1>0. \A x \in ClockEvents \cup {"POST_CLOCK"} : Rank[x] \in Nat
  BY Ranks DEF ClockEvents
<1>1. \A n \in 1 .. Len(q) : Rank[q[n]] \in Nat
  BY <1>0 DEF Elems
<1>2. Len(q) \in Nat
  BY LenProperties
<1>3. ASSUME NEW m \in 1 .. Len(q), NEW n \in 1 .. Len(q), q[m] = q[n]
      PROVE  m = n
  <2>1. CASE m < n
    BY <1>1, <1>3, <2>1 DEF Sorted
  <2>2. CASE n < m
    BY <1>1, <1>3, <2>2 DEF Sorted
  <2>3. QED
    BY <1>2, <2>1, <2>2
<1>4. QED
  BY <1>3 DEF Distinct

-----------------------------------------------------------------------------
(* The steps keep the ledger.                                              *)

\* What IInv and the ledger say of the queues.
LEMMA QueueFacts ==
  ASSUME IInv
  PROVE  /\ pend \in [Routines -> Seq(Events \cup Steps)]
         /\ pc \in PCType /\ clk \in ClkType /\ pei \in PeiType
         /\ in \in InternalType
         /\ \A f \in Events \cup Triggers : in.count[f] \in Nat
  BY CountNat DEF IInv, TypeOK, PCType, ClkType, PeiType

\* A step that leaves internal and the loop alone keeps OnceInv if it keeps
\* the queues in balance.
LEMMA QuietOnce ==
  ASSUME OnceInv, in' = in, run' = run,
         run = "open" /\ Ledger => Queues' /\ EachOnce' /\ Progress'
  PROVE  OnceInv'
<1>1. TriggersOnce' /\ RetriesStop' /\ ClosedHistory'
  BY DEF OnceInv, TriggersOnce, RetriesStop, ClosedHistory
<1>2. ASSUME run = "open" PROVE Ledger'
  <2>1. Ledger
    BY <1>2 DEF OnceInv
  <2>2. Queues' /\ EachOnce' /\ Progress'
    BY <1>2, <2>1
  <2>3. Recorded(in) /\ Kept(in)
    BY <2>1 DEF Ledger
  <2>4. Recorded(in)' /\ Kept(in)'
    BY <2>3 DEF Recorded, Kept, Core
  <2>5. QED
    BY <2>2, <2>4 DEF Ledger
<1>3. QED
  BY <1>1, <1>2 DEF OnceInv

\* Nothing that the ledger is about changes.
LEMMA StillOnce ==
  ASSUME OnceInv, UNCHANGED <<pc, pend, clk, pei, in, run>>
  PROVE  OnceInv'
<1>1. Ledger => Queues' /\ EachOnce' /\ Progress'
  BY DEF Ledger, Queues, EachOnce, Progress, Flagged
<1>2. QED
  BY <1>1, QuietOnce

\* The chain is not in the ledger.
LEMMA ChainOnce == ASSUME OnceInv, Chain PROVE OnceInv'
<1>1. UNCHANGED <<pc, pend, clk, pei, in, run>>
  BY DEF Chain, Tick, ChainSetPayout, ChainValidatorWithdraw, ChainStakerAdd,
         ChainStakerWithdraw, ChainCrank, ChainCloseBids, ChainFrame
<1>2. QED
  BY <1>1, StillOnce

\* loopBidSubIsFinal sends nothing that is counted here.
LEMMA BidOnce == ASSUME IInv, OnceInv, Bid PROVE OnceInv'
<1>0. /\ pend \in [Routines -> Seq(Events \cup Steps)] /\ pc \in PCType
  BY QueueFacts
<1>1. /\ UNCHANGED <<clk, pei, in, run>>
      /\ \A g \in Routines : g # "bid" => pend'[g] = pend[g] /\ pc'[g] = pc[g]
      /\ pend'["bid"] \in {pend["bid"], <<>>, <<"BID_FINAL">>}
  BY <1>0 DEF Bid, BidStart, BidStatus, BidError, Routines, PCType
<1>2. ASSUME Ledger PROVE Queues' /\ EachOnce' /\ Progress'
  <2>1. /\ pend'["clock"] = pend["clock"] /\ pend'["pe"] = pend["pe"]
        /\ pend'["stake"] = pend["stake"]
        /\ pc'["pe"] = pc["pe"] /\ pc'["stake"] = pc["stake"]
    BY <1>1 DEF Routines
  <2>2. Elems(pend'["bid"]) \subseteq {"BID_FINAL"}
    BY <1>1, <1>2, ShortElems DEF Ledger, Queues
  <2>3. Queues'
    BY <1>2, <2>1, <2>2 DEF Ledger, Queues
  <2>4. EachOnce'
    <3>1. \A e : pend'[Sender(e)] = pend[Sender(e)] /\ (Flagged(e)' <=> Flagged(e))
      BY <1>1, <2>1 DEF Sender, Flagged
    <3>2. QED
      BY <1>1, <1>2, <3>1 DEF Ledger, EachOnce
  <2>5. Progress'
    BY <1>1, <1>2, <2>1 DEF Ledger, Progress
  <2>6. QED
    BY <2>3, <2>4, <2>5
<1>3. QED
  BY <1>1, <1>2, QuietOnce

\* loopStakeStatus has at most one event to send, while it runs.
LEMMA StakeOnce == ASSUME IInv, OnceInv, Stake PROVE OnceInv'
<1>0. /\ pend \in [Routines -> Seq(Events \cup Steps)] /\ pc \in PCType
  BY QueueFacts
<1>1. /\ UNCHANGED <<clk, pei, in, run>>
      /\ \A g \in Routines : g # "stake" => pend'[g] = pend[g] /\ pc'[g] = pc[g]
      /\ pend'["stake"] \in {<<>>, <<"STK_ADDING">>, <<"STK_WITHDRAWN">>, pend["stake"]}
      /\ pc["stake"] \in {"start", "run"}
      /\ \/ pc'["stake"] = "run"
         \/ pc'["stake"] = "done" /\ pend'["stake"] = <<>>
  BY <1>0 DEF Stake, StakeStart, StakeData, StakePost, StakeError, Routines, PCType
<1>2. ASSUME Ledger PROVE Queues' /\ EachOnce' /\ Progress'
  <2>1. /\ pend'["clock"] = pend["clock"] /\ pend'["pe"] = pend["pe"]
        /\ pend'["bid"] = pend["bid"] /\ pc'["pe"] = pc["pe"]
    BY <1>1 DEF Routines
  <2>2. Elems(pend'["stake"]) \subseteq StakeEvents /\ Len(pend'["stake"]) <= 1
    <3>1. CASE pend'["stake"] = pend["stake"]
      BY <1>2, <3>1 DEF Ledger, Queues
    <3>2. CASE pend'["stake"] = <<>>
      BY <3>2, ShortElems
    <3>3. ASSUME NEW x \in StakeEvents, pend'["stake"] = <<x>>
          PROVE  Elems(pend'["stake"]) \subseteq StakeEvents /\ Len(pend'["stake"]) <= 1
      BY <3>3, ShortElems
    <3>4. QED
      BY <1>1, <3>1, <3>2, <3>3 DEF StakeEvents
  <2>3. Queues'
    BY <1>1, <1>2, <2>1, <2>2 DEF Ledger, Queues
  <2>4. EachOnce'
    <3>1. \A e : pend'[Sender(e)] = pend[Sender(e)] /\ (Flagged(e)' <=> Flagged(e))
      BY <1>1, <2>1 DEF Sender, Flagged
    <3>2. QED
      BY <1>1, <1>2, <3>1 DEF Ledger, EachOnce
  <2>5. Progress'
    BY <1>1, <1>2, <2>1 DEF Ledger, Progress
  <2>6. QED
    BY <2>3, <2>4, <2>5
<1>3. QED
  BY <1>1, <1>2, QuietOnce

\* A goroutine that ends with ctxExtra forgets what it had to send.
LEMMA ExtraOnce ==
  ASSUME IInv, OnceInv, NEW g \in Routines, ExtraDone(g) PROVE OnceInv'
<1>0. /\ pend \in [Routines -> Seq(Events \cup Steps)] /\ pc \in PCType
  BY QueueFacts
<1>1. /\ UNCHANGED <<clk, pei, in, run>> /\ g \in {"bid", "stake"}
      /\ \A h \in Routines : h # g => pend'[h] = pend[h] /\ pc'[h] = pc[h]
      /\ pend'[g] = <<>> /\ pc'[g] = "done" /\ pc[g] \in {"start", "run"}
  BY <1>0 DEF ExtraDone, PCType
<1>2. ASSUME Ledger PROVE Queues' /\ EachOnce' /\ Progress'
  <2>1. /\ pend'["clock"] = pend["clock"] /\ pend'["pe"] = pend["pe"]
        /\ pc'["pe"] = pc["pe"]
        /\ pend'["bid"] = pend["bid"] \/ pend'["bid"] = <<>>
        /\ \/ pend'["stake"] = pend["stake"] /\ pc'["stake"] = pc["stake"]
           \/ /\ pend'["stake"] = <<>> /\ pc'["stake"] = "done"
              /\ pc["stake"] # "off"
    BY <1>1 DEF Routines
  <2>2. Queues'
    BY <1>2, <2>1, ShortElems DEF Ledger, Queues
  <2>3. EachOnce'
    <3>1. \A e : pend'[Sender(e)] = pend[Sender(e)] /\ (Flagged(e)' <=> Flagged(e))
      BY <1>1, <2>1 DEF Sender, Flagged
    <3>2. QED
      BY <1>1, <1>2, <3>1 DEF Ledger, EachOnce
  <2>4. Progress'
    BY <1>1, <1>2, <2>1 DEF Ledger, Progress
  <2>5. QED
    BY <2>2, <2>3, <2>4
<1>3. QED
  BY <1>1, <1>2, QuietOnce

\* Steps of the clock and of loopPayoutEvent that send no event.
LEMMA SilentOnce ==
  ASSUME IInv, OnceInv, ClockPost \/ ClockError \/ PECancelExtra \/ PEExit
  PROVE  OnceInv'
<1>0. /\ pend \in [Routines -> Seq(Events \cup Steps)] /\ pc \in PCType
  BY QueueFacts
<1>1. /\ UNCHANGED <<clk, pei, in, run>> /\ run = "open"
      /\ pend'["bid"] = pend["bid"] /\ pend'["stake"] = pend["stake"]
      /\ pc'["stake"] = pc["stake"]
      /\ pc'["pe"] = "start" => pc["pe"] = "start"
  BY <1>0 DEF ClockPost, ClockError, PECancelExtra, PEExit, Routines, PCType
<1>2. ASSUME Ledger PROVE Queues' /\ EachOnce' /\ Progress'
  <2>1. /\ Elems(pend'["clock"]) \subseteq Elems(pend["clock"])
        /\ Elems(pend["clock"]) \subseteq Elems(pend'["clock"]) \cup {"POST_CLOCK"}
        /\ Sorted(pend'["clock"])
    <3>1. CASE pend'["clock"] = pend["clock"]
      BY <1>2, <3>1 DEF Ledger, Queues
    <3>2. CASE ClockPost
      <4>1. /\ pend["clock"] # <<>> /\ Head(pend["clock"]) = "POST_CLOCK"
            /\ pend'["clock"] = <<>> /\ pend["clock"] \in Seq(Events \cup Steps)
        BY <1>0, <3>2 DEF ClockPost, Routines
      <4>2. /\ Elems(pend["clock"]) = {"POST_CLOCK"} \cup Elems(Tail(pend["clock"]))
            /\ \A x \in Elems(Tail(pend["clock"])) : Rank["POST_CLOCK"] < Rank[x]
            /\ Elems(Tail(pend["clock"])) \subseteq ClockEvents \cup {"POST_CLOCK"}
        BY <1>2, <4>1, TailElems DEF Ledger, Queues
      <4>3. Elems(Tail(pend["clock"])) = {}
        BY <4>2, Ranks DEF ClockEvents
      <4>4. QED
        BY <4>1, <4>2, <4>3, ShortElems
    <3>3. QED
      BY <1>0, <3>1, <3>2 DEF ClockError, PECancelExtra, PEExit, Routines
  <2>2. /\ Elems(pend'["pe"]) \subseteq Elems(pend["pe"])
        /\ Elems(pend["pe"]) \subseteq Elems(pend'["pe"]) \cup {"CANCEL_EXTRA"}
        /\ Distinct(pend'["pe"])
        /\ pend["pe"] = <<>> => pend'["pe"] = <<>>
    <3>1. CASE pend'["pe"] = pend["pe"]
      BY <1>2, <3>1 DEF Ledger, Queues
    <3>2. CASE PECancelExtra
      <4>1. /\ pend["pe"] # <<>> /\ Head(pend["pe"]) = "CANCEL_EXTRA"
            /\ pend'["pe"] = Tail(pend["pe"])
            /\ pend["pe"] \in Seq(Events \cup Steps)
        BY <1>0, <3>2 DEF PECancelExtra, Routines
      <4>2. QED
        BY <1>2, <4>1, TailElems DEF Ledger, Queues
    <3>3. QED
      BY <1>0, <3>1, <3>2 DEF ClockPost, ClockError, PEExit, Routines
  <2>3. Queues'
    BY <1>1, <1>2, <2>1, <2>2 DEF Ledger, Queues
  <2>4. EachOnce'
    <3>1. ASSUME NEW e \in OnceEvents
          PROVE  /\ Flagged(e)' <=> Flagged(e)
                 /\ e \in Elems(pend'[Sender(e)]) <=> e \in Elems(pend[Sender(e)])
      <4>1. e # "POST_CLOCK" /\ e # "CANCEL_EXTRA" /\ Sender(e) \in {"clock", "pe"}
        BY DEF OnceEvents, ClockEvents, Sender
      <4>2. Flagged(e)' <=> Flagged(e)
        BY <1>1 DEF Flagged
      <4>3. QED
        BY <2>1, <2>2, <4>1, <4>2
    <3>2. QED
      BY <1>1, <1>2, <3>1 DEF Ledger, EachOnce
  <2>5. Progress'
    BY <1>1, <1>2, <2>2 DEF Ledger, Progress
  <2>6. QED
    BY <2>3, <2>4, <2>5
<1>3. QED
  BY <1>1, <1>2, QuietOnce

\* An optional message.
LEMMA OptionElems ==
  ASSUME NEW b \in BOOLEAN, NEW a, NEW S, a \in S,
         NEW q, q = IF b THEN <<a>> ELSE <<>>
  PROVE  /\ q \in Seq(S) /\ Elems(q) = (IF b THEN {a} ELSE {})
         /\ Sorted(q) /\ Distinct(q)
<1>1. CASE b
  <2>1. q = <<a>>
    BY <1>1
  <2>2. QED
    BY <1>1, <2>1, ShortElems
<1>2. CASE ~b
  <2>1. q = <<>>
    BY <1>2
  <2>2. QED
    BY <1>2, <2>1, ShortElems
<1>3. QED
  BY <1>1, <1>2

\* What one pass of loopClock has to send: START, PRE_START, FINISH,
\* DELAY_CLOSE in this order.
LEMMA ClockQueue ==
  ASSUME NEW b1 \in BOOLEAN, NEW b2 \in BOOLEAN, NEW b3 \in BOOLEAN,
         NEW b4 \in BOOLEAN, NEW q,
         q = (IF b1 THEN <<"START">> ELSE <<>>)
             \o (IF b2 THEN <<"PRE_START">> ELSE <<>>)
             \o (IF b3 THEN <<"FINISH">> ELSE <<>>)
             \o (IF b4 THEN <<"DELAY_CLOSE", "POST_CLOCK">> ELSE <<>>)
  PROVE  /\ Elems(q) \subseteq ClockEvents \cup {"POST_CLOCK"}
         /\ Sorted(q)
         /\ "START" \in Elems(q) <=> b1
         /\ "PRE_START" \in Elems(q) <=> b2
         /\ "FINISH" \in Elems(q) <=> b3
         /\ "DELAY_CLOSE" \in Elems(q) <=> b4
<1> DEFINE S == ClockEvents \cup {"POST_CLOCK"}
           q1 == IF b1 THEN <<"START">> ELSE <<>>
           q2 == IF b2 THEN <<"PRE_START">> ELSE <<>>
           q3 == IF b3 THEN <<"FINISH">> ELSE <<>>
           q4 == IF b4 THEN <<"DELAY_CLOSE", "POST_CLOCK">> ELSE <<>>
<1>1. q = ((q1 \o q2) \o q3) \o q4
  OBVIOUS
<1>2. q1 \in Seq(S) /\ Elems(q1) = (IF b1 THEN {"START"} ELSE {}) /\ Sorted(q1)
  BY OptionElems DEF ClockEvents
<1>3. q2 \in Seq(S) /\ Elems(q2) = (IF b2 THEN {"PRE_START"} ELSE {}) /\ Sorted(q2)
  BY OptionElems DEF ClockEvents
<1>4. q3 \in Seq(S) /\ Elems(q3) = (IF b3 THEN {"FINISH"} ELSE {}) /\ Sorted(q3)
  BY OptionElems DEF ClockEvents
<1>5. /\ q4 \in Seq(S) /\ Sorted(q4)
      /\ Elems(q4) = (IF b4 THEN {"DELAY_CLOSE", "POST_CLOCK"} ELSE {})
  <2>1. CASE b4
    <3>1. q4 = <<"DELAY_CLOSE", "POST_CLOCK">>
      BY <2>1
    <3>2. "DELAY_CLOSE" \in S /\ "POST_CLOCK" \in S
      BY DEF ClockEvents
    <3>3. q4 \in Seq(S)
      BY <3>1, <3>2, ShortSeq
    <3>4. Rank["DELAY_CLOSE"] < Rank["POST_CLOCK"]
      BY Ranks
    <3>5. Elems(q4) = {"DELAY_CLOSE", "POST_CLOCK"} /\ Sorted(q4)
      BY <3>1, <3>4, PairElems
    <3>6. QED
      BY <2>1, <3>1, <3>3, <3>5
  <2>2. CASE ~b4
    <3>1. q4 = <<>>
      BY <2>2
    <3>2. QED
      BY <2>2, <3>1, ShortElems, ShortSeq
  <2>3. QED
    BY <2>1, <2>2
<1> HIDE DEF S, q1, q2, q3, q4
<1>6. /\ q1 \o q2 \in Seq(S) /\ Elems(q1 \o q2) = Elems(q1) \cup Elems(q2)
      /\ Sorted(q1 \o q2)
  <2>1. \A a \in Elems(q1), b \in Elems(q2) : Rank[a] < Rank[b]
    BY <1>2, <1>3, Ranks
  <2>2. q1 \o q2 \in Seq(S)
    BY <1>2, <1>3, ConcatProperties
  <2>3. Elems(q1 \o q2) = Elems(q1) \cup Elems(q2)
    BY <1>2, <1>3, ConcatElems
  <2>4. Sorted(q1 \o q2)
    BY <1>2, <1>3, <2>1, ConcatElems
  <2>5. QED
    BY <2>2, <2>3, <2>4
<1> DEFINE q12 == q1 \o q2
           q123 == q12 \o q3
<1> HIDE DEF q12
<1>7. /\ q123 \in Seq(S) /\ Elems(q123) = Elems(q12) \cup Elems(q3)
      /\ Sorted(q123)
  <2>1. q12 \in Seq(S) /\ Elems(q12) = Elems(q1) \cup Elems(q2) /\ Sorted(q12)
    BY <1>6 DEF q12
  <2>2. \A a \in Elems(q12), b \in Elems(q3) : Rank[a] < Rank[b]
    BY <1>2, <1>3, <1>4, <2>1, Ranks
  <2>3. QED
    BY <1>4, <2>1, <2>2, ConcatElems, ConcatProperties
<1> HIDE DEF q123
<1>8. /\ Elems(q) = Elems(q123) \cup Elems(q4) /\ Sorted(q)
  <2>1. \A a \in Elems(q123), b \in Elems(q4) : Rank[a] < Rank[b]
    BY <1>2, <1>3, <1>4, <1>5, <1>6, <1>7, Ranks DEF q12
  <2>2. q = q123 \o q4
    BY <1>1 DEF q12, q123
  <2>3. Elems(q123 \o q4) = Elems(q123) \cup Elems(q4) /\ Sorted(q123 \o q4)
    BY <1>5, <1>7, <2>1, ConcatElems
  <2>4. QED
    BY <2>2, <2>3, Zenon
<1>9. Elems(q) = ((Elems(q1) \cup Elems(q2)) \cup Elems(q3)) \cup Elems(q4)
  BY <1>6, <1>7, <1>8 DEF q12
<1>10. /\ Elems(q1) \subseteq {"START"} /\ ("START" \in Elems(q1) <=> b1)
       /\ Elems(q2) \subseteq {"PRE_START"} /\ ("PRE_START" \in Elems(q2) <=> b2)
       /\ Elems(q3) \subseteq {"FINISH"} /\ ("FINISH" \in Elems(q3) <=> b3)
       /\ Elems(q4) \subseteq {"DELAY_CLOSE", "POST_CLOCK"}
       /\ ("DELAY_CLOSE" \in Elems(q4) <=> b4)
  <2>1. Elems(q1) \subseteq {"START"} /\ ("START" \in Elems(q1) <=> b1)
    BY <1>2
  <2>2. Elems(q2) \subseteq {"PRE_START"} /\ ("PRE_START" \in Elems(q2) <=> b2)
    BY <1>3
  <2>3. Elems(q3) \subseteq {"FINISH"} /\ ("FINISH" \in Elems(q3) <=> b3)
    BY <1>4
  <2>4. /\ Elems(q4) \subseteq {"DELAY_CLOSE", "POST_CLOCK"}
        /\ ("DELAY_CLOSE" \in Elems(q4) <=> b4)
    BY <1>5
  <2>5. QED
    BY <2>1, <2>2, <2>3, <2>4
<1>11. Elems(q) \subseteq ClockEvents \cup {"POST_CLOCK"}
  BY <1>9, <1>10 DEF ClockEvents
<1>12. /\ "START" \in Elems(q) <=> "START" \in Elems(q1)
       /\ "PRE_START" \in Elems(q) <=> "PRE_START" \in Elems(q2)
       /\ "FINISH" \in Elems(q) <=> "FINISH" \in Elems(q3)
       /\ "DELAY_CLOSE" \in Elems(q) <=> "DELAY_CLOSE" \in Elems(q4)
  BY <1>9, <1>10
<1>13. QED
  BY <1>8, <1>10, <1>11, <1>12

\* loopClock sets a flag exactly when it sends the event.
LEMMA ClockOnce ==
  ASSUME IInv, OnceInv, NEW s \in 1 .. slot, ClockTick(s) PROVE OnceInv'
<1> DEFINE b1 == ~clk.start /\ Start <= s
           b2 == ~clk.pre /\ s < Start
           b3 == ~clk.finish /\ Finish <= s
           b4 == ~clk.close /\ CloseOut <= s
           q == (IF b1 THEN <<"START">> ELSE <<>>)
             \o (IF b2 THEN <<"PRE_START">> ELSE <<>>)
             \o (IF b3 THEN <<"FINISH">> ELSE <<>>)
             \o (IF b4 THEN <<"DELAY_CLOSE", "POST_CLOCK">> ELSE <<>>)
<1>0. /\ pend \in [Routines -> Seq(Events \cup Steps)] /\ pc \in PCType
      /\ clk \in ClkType
  BY QueueFacts
<1>1. /\ pend["clock"] = <<>> /\ pend' = [pend EXCEPT !["clock"] = q]
      /\ pc' = [pc EXCEPT !["clock"] = "run"]
      /\ clk' = [start |-> clk.start \/ b1, pre |-> clk.pre \/ b2,
                 finish |-> clk.finish \/ b3, close |-> clk.close \/ b4]
      /\ UNCHANGED <<pei, in, run>>
  BY DEF ClockTick, ClockPass
<1>2. /\ Elems(q) \subseteq ClockEvents \cup {"POST_CLOCK"}
      /\ Sorted(q)
      /\ "START" \in Elems(q) <=> b1
      /\ "PRE_START" \in Elems(q) <=> b2
      /\ "FINISH" \in Elems(q) <=> b3
      /\ "DELAY_CLOSE" \in Elems(q) <=> b4
  BY ClockQueue
<1> HIDE DEF q
<1>3. /\ pend'["clock"] = q /\ pend'["pe"] = pend["pe"]
      /\ pend'["bid"] = pend["bid"] /\ pend'["stake"] = pend["stake"]
      /\ pc'["pe"] = pc["pe"] /\ pc'["stake"] = pc["stake"]
  BY <1>0, <1>1 DEF Routines, PCType
<1>4. /\ clk'.start <=> clk.start \/ b1
      /\ clk'.pre <=> clk.pre \/ b2
      /\ clk'.finish <=> clk.finish \/ b3
      /\ clk'.close <=> clk.close \/ b4
  BY <1>1
<1>5. s \in Nat /\ Start \in Nat
  BY IInvFacts, PayoutScheduleAssumption
<1>6. /\ b4 => clk.finish \/ b3
      /\ b3 => clk.start \/ b1
  BY <1>5, PeriodOrder
<1>7. ASSUME Ledger PROVE Queues' /\ EachOnce' /\ Progress'
  <2>1. Queues'
    BY <1>2, <1>3, <1>7 DEF Ledger, Queues
  <2>2. EachOnce'
    <3> SUFFICES ASSUME NEW e \in OnceEvents
                 PROVE  /\ e \in Elems(pend'[Sender(e)]) => Flagged(e)'
                        /\ in'.count[e] = IF Flagged(e)' /\ e \notin Elems(pend'[Sender(e)])
                                          THEN 1 ELSE 0
      BY DEF EachOnce
    <3>1. CASE e \in {"BID_CLOSED", "VAL_WITHDRAWN"}
      <4>1. Sender(e) = "pe" /\ (Flagged(e)' <=> Flagged(e))
        BY <1>1, <3>1 DEF Sender, Flagged, ClockEvents
      <4>2. QED
        BY <1>1, <1>3, <1>7, <4>1 DEF Ledger, EachOnce
    <3>2. CASE e \in ClockEvents
      <4>1. Sender(e) = "clock"
        BY <3>2 DEF Sender
      <4>2. in.count[e] = IF Flagged(e) THEN 1 ELSE 0
        BY <1>1, <1>7, <4>1, ShortElems DEF Ledger, EachOnce
      <4>3. (e \in Elems(q) => ~Flagged(e)) /\ (Flagged(e)' <=> Flagged(e) \/ e \in Elems(q))
        BY <1>2, <1>4, <3>2 DEF Flagged, ClockEvents
      <4>4. QED
        BY <1>1, <1>3, <4>1, <4>2, <4>3
    <3>3. QED
      BY <3>1, <3>2 DEF OnceEvents
  <2>3. Progress'
    BY <1>1, <1>3, <1>4, <1>6, <1>7 DEF Ledger, Progress
  <2>4. QED
    BY <2>1, <2>2, <2>3
<1>8. QED
  BY <1>1, <1>7, QuietOnce

\* A step of loopPayoutEvent that had nothing left to send and now has q:
\* it sets a flag exactly when it sends the event.
LEMMA PEBalance ==
  ASSUME IInv, Ledger, pend["pe"] = <<>>, NEW q,
         pend' = [pend EXCEPT !["pe"] = q],
         clk' = clk, in' = in,
         Elems(q) \subseteq DataEvents \cup {"CANCEL_EXTRA"}, Distinct(q),
         "BID_CLOSED" \in Elems(q) => ~pei.bidsAreClosed,
         pei'.bidsAreClosed <=> pei.bidsAreClosed \/ "BID_CLOSED" \in Elems(q),
         "VAL_WITHDRAWN" \in Elems(q) => ~pei.validatorHasWithdrawn,
         pei'.validatorHasWithdrawn
           <=> pei.validatorHasWithdrawn \/ "VAL_WITHDRAWN" \in Elems(q),
         pend["stake"] # <<>> => pc'["stake"] = "run"
  PROVE  Queues' /\ EachOnce'
<1>0. pend \in [Routines -> Seq(Events \cup Steps)]
  BY QueueFacts
<1>1. /\ pend'["pe"] = q /\ pend'["clock"] = pend["clock"]
      /\ pend'["bid"] = pend["bid"] /\ pend'["stake"] = pend["stake"]
  BY <1>0 DEF Routines
<1>2. Queues'
  BY <1>1 DEF Ledger, Queues
<1>3. EachOnce'
  <2> SUFFICES ASSUME NEW e \in OnceEvents
               PROVE  /\ e \in Elems(pend'[Sender(e)]) => Flagged(e)'
                      /\ in'.count[e] = IF Flagged(e)' /\ e \notin Elems(pend'[Sender(e)])
                                        THEN 1 ELSE 0
    BY DEF EachOnce
  <2>1. CASE e \in ClockEvents
    <3>1. Sender(e) = "clock" /\ (Flagged(e)' <=> Flagged(e))
      BY <2>1 DEF Sender, Flagged, ClockEvents
    <3>2. QED
      BY <1>1, <3>1 DEF Ledger, EachOnce
  <2>2. CASE e \in {"BID_CLOSED", "VAL_WITHDRAWN"}
    <3>1. Sender(e) = "pe"
      BY <2>2 DEF Sender, ClockEvents
    <3>2. in.count[e] = IF Flagged(e) THEN 1 ELSE 0
      BY <3>1, ShortElems DEF Ledger, EachOnce
    <3>3. (e \in Elems(q) => ~Flagged(e)) /\ (Flagged(e)' <=> Flagged(e) \/ e \in Elems(q))
      BY <2>2 DEF Flagged
    <3>4. QED
      BY <1>1, <3>1, <3>2, <3>3
  <2>3. QED
    BY <2>1, <2>2 DEF OnceEvents
<1>4. QED
  BY <1>2, <1>3

\* PEStart
LEMMA PEStartOnce == ASSUME IInv, OnceInv, PEStart PROVE OnceInv'
<1> DEFINE q == IF snap.open THEN <<>> ELSE <<"BID_CLOSED", "CANCEL_EXTRA">>
<1>0. /\ pend \in [Routines -> Seq(Events \cup Steps)] /\ pc \in PCType
      /\ pei \in PeiType
  BY QueueFacts
<1>1. /\ pc["pe"] = "start" /\ UNCHANGED <<clk, in, run>>
      /\ pend' = [pend EXCEPT !["pe"] = q]
      /\ pei' = [pei EXCEPT !.bidsAreClosed = ~snap.open,
                            !.validatorHasAdded = snap.val > 0]
      /\ pc' = [g \in Routines |->
                  IF g = "pe" THEN "run"
                  ELSE IF g \in {"bid", "stake"} /\ snap.open THEN "start"
                  ELSE pc[g]]
  BY DEF PEStart
<1>2. /\ Elems(q) = (IF snap.open THEN {} ELSE {"BID_CLOSED", "CANCEL_EXTRA"})
      /\ Distinct(q)
  <2>1. CASE snap.open
    <3>1. q = <<>>
      BY <2>1
    <3>2. QED
      BY <2>1, <3>1, ShortElems
  <2>2. CASE ~snap.open
    <3>1. q = <<"BID_CLOSED", "CANCEL_EXTRA">>
      BY <2>2
    <3>2. QED
      BY <2>2, <3>1, PairElems
  <2>3. QED
    BY <2>1, <2>2
<1> HIDE DEF q
<1>3. /\ pei'.bidsAreClosed <=> ~snap.open
      /\ pei'.validatorHasWithdrawn = pei.validatorHasWithdrawn
  BY <1>0, <1>1 DEF PeiType
<1>4. pc'["pe"] = "run" /\ pc'["stake"] \in {"start", pc["stake"]}
  BY <1>1 DEF Routines
<1>5. ASSUME Ledger PROVE Queues' /\ EachOnce' /\ Progress'
  <2>1. /\ pend["pe"] = <<>> /\ pc["stake"] = "off"
        /\ ~pei.bidsAreClosed /\ ~pei.validatorHasWithdrawn
    BY <1>1, <1>5 DEF Ledger, Progress
  <2>2. pend["stake"] = <<>>
    BY <1>5, <2>1 DEF Ledger, Queues
  <2>3. Elems(q) \subseteq DataEvents \cup {"CANCEL_EXTRA"}
    BY <1>2 DEF DataEvents
  <2>4. /\ "BID_CLOSED" \in Elems(q) <=> ~snap.open
        /\ "VAL_WITHDRAWN" \notin Elems(q)
    BY <1>2
  <2>5. Queues' /\ EachOnce'
    BY <1>1, <1>2, <1>3, <1>5, <2>1, <2>2, <2>3, <2>4, PEBalance
  <2>6. in.count["STK_WITHDRAWN"] = 0
    <3>1. in.count["STK_WITHDRAWN"] \in Nat
      BY QueueFacts, Names
    <3>2. QED
      BY <1>5, <2>1, <3>1 DEF Ledger, Progress
  <2>7. Progress'
    BY <1>1, <1>3, <1>4, <1>5, <2>1, <2>6 DEF Ledger, Progress
  <2>8. QED
    BY <2>5, <2>7
<1>6. QED
  BY <1>1, <1>5, QuietOnce

\* PEPost
LEMMA PEPostOnce == ASSUME IInv, OnceInv, PEPost PROVE OnceInv'
<1> DEFINE q == IF NobodyAdded THEN <<"VAL_WITHDRAWN">> ELSE <<>>
<1>0. /\ pend \in [Routines -> Seq(Events \cup Steps)] /\ pc \in PCType
      /\ pei \in PeiType
  BY QueueFacts
<1>1. /\ pend["pe"] = <<>> /\ UNCHANGED <<clk, in, run, pc>> /\ pc["pe"] = "run"
      /\ pend' = [pend EXCEPT !["pe"] = q]
      /\ pei' = [pei EXCEPT !.postDelayClockPast = TRUE,
                            !.validatorHasWithdrawn = @ \/ NobodyAdded]
  BY DEF PEPost, PEWaits
<1>2. NobodyAdded \in BOOLEAN
  BY DEF NobodyAdded
<1>3. /\ Elems(q) = (IF NobodyAdded THEN {"VAL_WITHDRAWN"} ELSE {})
      /\ Distinct(q)
  BY <1>2, OptionElems
<1> HIDE DEF q
<1>4. /\ pei'.bidsAreClosed = pei.bidsAreClosed
      /\ pei'.postDelayClockPast
      /\ pei'.validatorHasWithdrawn <=> pei.validatorHasWithdrawn \/ NobodyAdded
  BY <1>0, <1>1 DEF PeiType
<1>5. ASSUME Ledger PROVE Queues' /\ EachOnce' /\ Progress'
  <2>1. NobodyAdded => ~pei.validatorHasWithdrawn
    BY <1>5 DEF NobodyAdded, Ledger, Progress
  <2>2. /\ Elems(q) \subseteq DataEvents \cup {"CANCEL_EXTRA"}
        /\ "BID_CLOSED" \notin Elems(q)
        /\ "VAL_WITHDRAWN" \in Elems(q) <=> NobodyAdded
    BY <1>3 DEF DataEvents
  <2>3. pend["stake"] # <<>> => pc'["stake"] = "run"
    BY <1>1, <1>5 DEF Ledger, Queues
  <2>4. Queues' /\ EachOnce'
    BY <1>1, <1>3, <1>4, <1>5, <2>1, <2>2, <2>3, PEBalance
  <2>5. Progress'
    BY <1>1, <1>4, <1>5 DEF Ledger, Progress
  <2>6. QED
    BY <2>4, <2>5
<1>6. QED
  BY <1>1, <1>5, QuietOnce

\* PEData
LEMMA PEDataOnce == ASSUME IInv, OnceInv, PEData PROVE OnceInv'
<1> DEFINE d == Head(dq["pe"])
           close == ~pei.bidsAreClosed /\ ~d.open
           add == ~pei.validatorHasAdded /\ d.val > 0
           added == pei.validatorHasAdded \/ add
           withdraw == added /\ ~pei.validatorHasWithdrawn /\ d.val = 0
           q1 == IF close THEN <<"BID_CLOSED", "CANCEL_EXTRA">> ELSE <<>>
           q2 == IF add THEN <<"VAL_ADDING">> ELSE <<>>
           q3 == IF withdraw THEN <<"VAL_WITHDRAWN">> ELSE <<>>
           q == (q1 \o q2) \o q3
           S == DataEvents \cup {"CANCEL_EXTRA"}
<1>0. /\ pend \in [Routines -> Seq(Events \cup Steps)] /\ pc \in PCType
      /\ pei \in PeiType
  BY QueueFacts
<1>1. /\ pend["pe"] = <<>> /\ UNCHANGED <<clk, in, run, pc>> /\ pc["pe"] = "run"
      /\ pend' = [pend EXCEPT !["pe"] = q]
      /\ pei' = [pei EXCEPT !.newData = d, !.bidsAreClosed = @ \/ close,
                            !.validatorHasAdded = added,
                            !.validatorHasWithdrawn = @ \/ withdraw]
  BY DEF PEData, PEWaits
<1> HIDE DEF d
<1>2. /\ pei'.bidsAreClosed <=> pei.bidsAreClosed \/ close
      /\ pei'.validatorHasAdded <=> added
      /\ pei'.postDelayClockPast = pei.postDelayClockPast
      /\ pei'.validatorHasWithdrawn <=> pei.validatorHasWithdrawn \/ withdraw
  BY <1>0, <1>1 DEF PeiType
<1>3. /\ q1 \in Seq(S) /\ Distinct(q1)
      /\ Elems(q1) = (IF close THEN {"BID_CLOSED", "CANCEL_EXTRA"} ELSE {})
  <2>1. CASE close
    <3>1. q1 = <<"BID_CLOSED", "CANCEL_EXTRA">>
      BY <2>1
    <3>2. "BID_CLOSED" \in S /\ "CANCEL_EXTRA" \in S
      BY DEF DataEvents
    <3>3. q1 \in Seq(S)
      BY <3>1, <3>2, ShortSeq
    <3>4. QED
      BY <2>1, <3>1, <3>3, PairElems
  <2>2. CASE ~close
    <3>1. q1 = <<>>
      BY <2>2
    <3>2. QED
      BY <2>2, <3>1, ShortElems, ShortSeq
  <2>3. QED
    BY <2>1, <2>2
<1>4. /\ q2 \in Seq(S) /\ Distinct(q2)
      /\ Elems(q2) = (IF add THEN {"VAL_ADDING"} ELSE {})
  BY OptionElems DEF DataEvents
<1>5. /\ q3 \in Seq(S) /\ Distinct(q3)
      /\ Elems(q3) = (IF withdraw THEN {"VAL_WITHDRAWN"} ELSE {})
  BY OptionElems DEF DataEvents
<1>6. /\ Elems(q1) \subseteq {"BID_CLOSED", "CANCEL_EXTRA"}
      /\ ("BID_CLOSED" \in Elems(q1) <=> close)
      /\ Elems(q2) \subseteq {"VAL_ADDING"}
      /\ Elems(q3) \subseteq {"VAL_WITHDRAWN"}
      /\ ("VAL_WITHDRAWN" \in Elems(q3) <=> withdraw)
  <2>1. /\ Elems(q1) \subseteq {"BID_CLOSED", "CANCEL_EXTRA"}
        /\ ("BID_CLOSED" \in Elems(q1) <=> close)
    <3> HIDE DEF close, q1
    <3>1. QED
      BY <1>3
  <2>2. Elems(q2) \subseteq {"VAL_ADDING"}
    <3> HIDE DEF add, q2
    <3>1. QED
      BY <1>4
  <2>3. /\ Elems(q3) \subseteq {"VAL_WITHDRAWN"}
        /\ ("VAL_WITHDRAWN" \in Elems(q3) <=> withdraw)
    <3> HIDE DEF withdraw, q3
    <3>1. QED
      BY <1>5
  <2>4. QED
    BY <2>1, <2>2, <2>3
<1> HIDE DEF q1, q2, q3, S
<1>7. /\ q1 \o q2 \in Seq(S) /\ Elems(q1 \o q2) = Elems(q1) \cup Elems(q2)
      /\ Distinct(q1 \o q2)
  <2>1. Elems(q1) \cap Elems(q2) = {}
    BY <1>6
  <2>2. q1 \o q2 \in Seq(S)
    BY <1>3, <1>4, ConcatProperties
  <2>3. Elems(q1 \o q2) = Elems(q1) \cup Elems(q2)
    BY <1>3, <1>4, ConcatElems
  <2>4. Distinct(q1 \o q2)
    BY <1>3, <1>4, <2>1, ConcatElems
  <2>5. QED
    BY <2>2, <2>3, <2>4
<1> DEFINE q12 == q1 \o q2
<1>8. Elems(q) = Elems(q12) \cup Elems(q3) /\ Distinct(q)
  <2>1. /\ q12 \in Seq(S) /\ Distinct(q12)
        /\ Elems(q12) \subseteq {"BID_CLOSED", "CANCEL_EXTRA", "VAL_ADDING"}
    BY <1>6, <1>7
  <2> HIDE DEF q12
  <2>2. Elems(q12) \cap Elems(q3) = {}
    BY <1>6, <2>1
  <2>3. Elems(q12 \o q3) = Elems(q12) \cup Elems(q3)
    BY <1>5, <2>1, ConcatElems
  <2>4. Distinct(q12 \o q3)
    BY <1>5, <2>1, <2>2, ConcatElems
  <2>5. q = q12 \o q3
    BY DEF q12
  <2> HIDE DEF q
  <2>6. QED
    BY <2>3, <2>4, <2>5
<1>9. /\ Elems(q) \subseteq DataEvents \cup {"CANCEL_EXTRA"}
      /\ "BID_CLOSED" \in Elems(q) <=> close
      /\ "VAL_WITHDRAWN" \in Elems(q) <=> withdraw
  <2>1. Elems(q) = (Elems(q1) \cup Elems(q2)) \cup Elems(q3)
    BY <1>7, <1>8
  <2> HIDE DEF q, close, withdraw, add
  <2>2. QED
    BY <1>6, <2>1 DEF DataEvents
<1> HIDE DEF q
<1>10. ASSUME Ledger PROVE Queues' /\ EachOnce' /\ Progress'
  <2>1. pend["stake"] # <<>> => pc'["stake"] = "run"
    BY <1>1, <1>10 DEF Ledger, Queues
  <2>2. Queues' /\ EachOnce'
    BY <1>1, <1>2, <1>8, <1>9, <1>10, <2>1, PEBalance
  <2>3. Progress'
    BY <1>1, <1>2, <1>10 DEF Ledger, Progress
  <2>4. QED
    BY <2>2, <2>3
<1>11. QED
  BY <1>1, <1>10, QuietOnce

\* The deferred cancel() stops every context and changes no count.
LEMMA CancelAllEffect ==
  ASSUME NEW i \in InternalType, NEW j, j = CancelAll(i)
  PROVE  /\ j.count = i.count /\ j.bidHasClosed = i.bidHasClosed
         /\ \A t \in Triggers : j.ctx[t] # "live"
<1> DEFINE c == [t \in Triggers |-> IF i.ctx[t] = "live" THEN "done" ELSE i.ctx[t]]
<1>1. \A t \in Triggers : c[t] # "live"
  OBVIOUS
<1>2. j = [i EXCEPT !.ctx = c]
  BY DEF CancelAll
<1> HIDE DEF c
<1>3. j.ctx = c /\ j.count = i.count /\ j.bidHasClosed = i.bidHasClosed
  BY <1>2 DEF InternalType
<1>4. QED
  BY <1>1, <1>3

\* loopInternal takes the head of a queue: what it can be, and what is left.
LEMMA TakeHead ==
  ASSUME IInv, Ledger, NEW g \in Routines, NEW e, pend[g] # <<>>,
         e = Head(pend[g]), e \in Events,
         pend' = [pend EXCEPT ![g] = Tail(@)],
         pc' = [pc EXCEPT ![g] = IF EndsRoutine(g) THEN "done" ELSE @]
  PROVE  /\ Queues'
         /\ \A f \in OnceEvents :
               f \in Elems(pend'[Sender(f)])
                  <=> f \in Elems(pend[Sender(f)]) /\ f # e
         /\ e \in OnceEvents => e \in Elems(pend[Sender(e)])
         /\ e = "DELAY_CLOSE" => /\ "START" \notin Elems(pend["clock"])
                                 /\ "FINISH" \notin Elems(pend["clock"])
         /\ e = "STK_WITHDRAWN" => g = "stake"
<1> DEFINE q == pend[g]
           t == Tail(q)
<1>0. /\ pend \in [Routines -> Seq(Events \cup Steps)] /\ pc \in PCType
  BY QueueFacts
<1>1. q \in Seq(Events \cup Steps) /\ q # <<>> /\ e = Head(q)
  BY <1>0
<1>2. /\ pend'[g] = t /\ \A h \in Routines : h # g => pend'[h] = pend[h]
      /\ \A h \in Routines : h # g => pc'[h] = pc[h]
  BY <1>0 DEF PCType
<1> HIDE DEF q
<1>3. /\ e \in Elems(q) /\ Elems(t) \subseteq Elems(q)
      /\ Elems(q) = {e} \cup Elems(t)
  BY <1>1, TailElems
<1>4. Distinct(q) => Distinct(t) /\ e \notin Elems(t)
  BY <1>1, TailElems
<1>5. Sorted(q) => Sorted(t) /\ \A x \in Elems(t) : Rank[e] < Rank[x]
  BY <1>1, TailElems
<1>6. Len(t) = Len(q) - 1 /\ Len(q) \in Nat
  BY <1>1, HeadTailProperties, LenProperties
<1> HIDE DEF t
<1>7. /\ "clock" \in Routines /\ "pe" \in Routines /\ "bid" \in Routines
      /\ "stake" \in Routines
  BY DEF Routines
<1>8. Queues
  BY DEF Ledger
<1>9. CASE g = "clock"
  <2>1. /\ Elems(q) \subseteq ClockEvents \cup {"POST_CLOCK"} /\ Sorted(q)
    BY <1>8, <1>9 DEF Queues, q
  <2>2. Distinct(q)
    BY <1>1, <2>1, ClockDistinct
  <2>3. Queues'
    BY <1>2, <1>3, <1>5, <1>7, <1>8, <1>9, <2>1 DEF Queues
  <2>4. e \in ClockEvents
    <3>1. e \in ClockEvents \cup {"POST_CLOCK"}
      BY <1>3, <2>1
    <3>2. QED
      BY <3>1, Names
  <2>5. \A f \in OnceEvents : f \in Elems(pend'[Sender(f)])
                                <=> f \in Elems(pend[Sender(f)]) /\ f # e
    <3> SUFFICES ASSUME NEW f \in OnceEvents
                 PROVE  f \in Elems(pend'[Sender(f)])
                           <=> f \in Elems(pend[Sender(f)]) /\ f # e
      OBVIOUS
    <3>1. CASE f \in ClockEvents
      <4>1. Sender(f) = g
        BY <1>9, <3>1 DEF Sender
      <4>2. QED
        BY <1>2, <1>3, <1>4, <2>2, <4>1 DEF q
    <3>2. CASE f \notin ClockEvents
      <4>1. Sender(f) = "pe" /\ f # e
        BY <2>4, <3>2 DEF Sender
      <4>2. QED
        BY <1>2, <1>7, <1>9, <4>1
    <3>3. QED
      BY <3>1, <3>2
  <2>6. e \in Elems(pend[Sender(e)])
    BY <1>3, <1>9, <2>4 DEF Sender, q
  <2>7. ASSUME e = "DELAY_CLOSE"
        PROVE  "START" \notin Elems(pend["clock"]) /\ "FINISH" \notin Elems(pend["clock"])
    <3>1. "START" \notin Elems(t) /\ "FINISH" \notin Elems(t)
      BY <1>5, <2>1, <2>7, Ranks
    <3>2. QED
      BY <1>3, <1>9, <2>7, <3>1 DEF q
  <2>8. QED
    BY <2>3, <2>4, <2>5, <2>6, <2>7 DEF ClockEvents
<1>10. CASE g = "pe"
  <2>1. /\ Elems(q) \subseteq DataEvents \cup {"CANCEL_EXTRA"} /\ Distinct(q)
    BY <1>8, <1>10 DEF Queues, q
  <2>2. Queues'
    BY <1>2, <1>3, <1>4, <1>7, <1>8, <1>10, <2>1 DEF Queues
  <2>3. e \in DataEvents /\ e \notin ClockEvents
    <3>1. e \in DataEvents \cup {"CANCEL_EXTRA"}
      BY <1>3, <2>1
    <3>2. QED
      BY <3>1, Names DEF DataEvents, ClockEvents
  <2>4. \A f \in OnceEvents : f \in Elems(pend'[Sender(f)])
                                <=> f \in Elems(pend[Sender(f)]) /\ f # e
    <3> SUFFICES ASSUME NEW f \in OnceEvents
                 PROVE  f \in Elems(pend'[Sender(f)])
                           <=> f \in Elems(pend[Sender(f)]) /\ f # e
      OBVIOUS
    <3>1. CASE f \in ClockEvents
      <4>1. Sender(f) = "clock" /\ f # e
        BY <2>3, <3>1 DEF Sender
      <4>2. QED
        BY <1>2, <1>7, <1>10, <4>1
    <3>2. CASE f \notin ClockEvents
      <4>1. Sender(f) = g
        BY <1>10, <3>2 DEF Sender
      <4>2. QED
        BY <1>2, <1>3, <1>4, <2>1, <4>1 DEF q
    <3>3. QED
      BY <3>1, <3>2
  <2>5. e \in Elems(pend[Sender(e)])
    BY <1>3, <1>10, <2>3 DEF Sender, q
  <2>6. QED
    BY <2>2, <2>3, <2>4, <2>5 DEF DataEvents
<1>11. CASE g \in {"bid", "stake"}
  <2>1. e \in StakeEvents \cup {"BID_FINAL"} /\ (e \in StakeEvents => g = "stake")
    BY <1>3, <1>8, <1>11 DEF Queues, q, StakeEvents
  <2>2. e \notin OnceEvents /\ e # "DELAY_CLOSE"
    BY <2>1 DEF OnceEvents, ClockEvents, StakeEvents
  <2>3. \A f : Sender(f) # g /\ Sender(f) \in Routines
    BY <1>7, <1>11 DEF Sender
  <2>4. \A f \in OnceEvents : f \in Elems(pend'[Sender(f)])
                                <=> f \in Elems(pend[Sender(f)]) /\ f # e
    BY <1>2, <2>2, <2>3
  <2>5. Queues'
    <3>1. CASE g = "bid"
      BY <1>2, <1>3, <1>7, <1>8, <3>1 DEF Queues, q
    <3>2. CASE g = "stake"
      <4>1. Len(q) <= 1
        BY <1>8, <3>2 DEF Queues, q
      <4>2. Len(t) = 0
        BY <1>1, <1>6, <4>1, EmptySeq
      <4>3. t = <<>>
        BY <1>1, <4>2, HeadTailProperties, EmptySeq DEF t
      <4>4. Elems(t) \subseteq StakeEvents /\ Len(t) <= 1
        BY <4>2, <4>3, ShortElems
      <4>5. QED
        BY <1>2, <1>7, <1>8, <3>2, <4>3, <4>4 DEF Queues
    <3>3. QED
      BY <1>11, <3>1, <3>2
  <2>6. QED
    BY <2>1, <2>2, <2>4, <2>5 DEF StakeEvents
<1>12. QED
  BY <1>9, <1>10, <1>11 DEF Routines

\* loopInternal takes an event: it is no longer waiting and is counted.
LEMMA AcceptOnce ==
  ASSUME IInv, OnceInv, NEW g \in Routines, Accept(g) PROVE OnceInv'
<1> DEFINE e == Head(pend[g])
           j == on_event(in, e)
<1>0. /\ pend \in [Routines -> Seq(Events \cup Steps)] /\ pc \in PCType
      /\ in \in InternalType
      /\ \A f \in Events \cup Triggers : in.count[f] \in Nat
  BY QueueFacts
<1>1. /\ run = "open" /\ pend[g] # <<>> /\ e \in Events
      /\ in' = (IF j.keepPayoutOpen THEN j ELSE CancelAll(j))
      /\ run' = (IF j.keepPayoutOpen THEN "open" ELSE "closed")
      /\ pend' = [pend EXCEPT ![g] = Tail(@)]
      /\ pc' = [pc EXCEPT ![g] = IF EndsRoutine(g) THEN "done" ELSE @]
      /\ clk' = clk /\ pei' = pei
  BY DEF Accept
<1>2. Ledger
  BY <1>1 DEF OnceInv
<1>3. Queues /\ EachOnce /\ Progress /\ Recorded(in) /\ Kept(in)
  BY <1>2 DEF Ledger
<1>4. /\ j \in InternalType /\ Core(j)
      /\ \A f \in Events \ {e} : j.count[f] = in.count[f]
      /\ j.count[e] = in.count[e] + 1
      /\ j.isClockReadyToClose => in.isClockReadyToClose \/ e = "DELAY_CLOSE"
      /\ j.bidHasClosed => in.bidHasClosed \/ e = "BID_CLOSED"
      /\ j.bidIsFinal =>
            e = "BID_FINAL" \/ j.bidHasClosed \/ (in.bidIsFinal /\ ~in.bidHasClosed)
      /\ j.validatorHasWithdrawn => in.validatorHasWithdrawn \/ e = "VAL_WITHDRAWN"
      /\ j.count["SET_PAYOUT"] <= j.count["PRE_START"]
      /\ j.count["WITHDRAW"] <= j.count["STK_WITHDRAWN"]
      /\ \/ j.keepPayoutOpen /\ Kept(j)
         \/ /\ ~j.keepPayoutOpen /\ j.count["CLOSE_PAYOUT"] = 1
            /\ j.bidHasClosed /\ j.isClockReadyToClose
            /\ j.validatorHasWithdrawn
  BY <1>0, <1>1, <1>3, EventEffect
<1> HIDE DEF e, j
<1>5. /\ Queues'
      /\ \A f \in OnceEvents :
            f \in Elems(pend'[Sender(f)]) <=> f \in Elems(pend[Sender(f)]) /\ f # e
      /\ e \in OnceEvents => e \in Elems(pend[Sender(e)])
      /\ e = "DELAY_CLOSE" => /\ "START" \notin Elems(pend["clock"])
                              /\ "FINISH" \notin Elems(pend["clock"])
      /\ e = "STK_WITHDRAWN" => g = "stake"
  BY <1>1, <1>2, TakeHead DEF e
<1>7. \A f \in OnceEvents : f \in Events
  BY DEF OnceEvents, Events, DataEvents
\* Once is kept for every f, whether or not the loop goes on.
<1>8. ASSUME NEW f \in OnceEvents
      PROVE  /\ f \in Elems(pend'[Sender(f)]) => Flagged(f)
             /\ j.count[f] = IF Flagged(f) /\ f \notin Elems(pend'[Sender(f)])
                             THEN 1 ELSE 0
  <2>1. /\ f \in Elems(pend[Sender(f)]) => Flagged(f)
        /\ in.count[f] = IF Flagged(f) /\ f \notin Elems(pend[Sender(f)])
                         THEN 1 ELSE 0
    BY <1>3 DEF EachOnce
  <2>2. CASE f = e
    <3>1. f \in Elems(pend[Sender(f)]) /\ f \notin Elems(pend'[Sender(f)])
      BY <1>5, <2>2
    <3>2. in.count[f] = 0 /\ Flagged(f)
      BY <2>1, <3>1
    <3>3. j.count[f] = 1
      BY <1>4, <2>2, <3>2
    <3>4. QED
      BY <3>1, <3>2, <3>3
  <2>3. CASE f # e
    <3>1. f \in Elems(pend'[Sender(f)]) <=> f \in Elems(pend[Sender(f)])
      BY <1>5, <2>3
    <3>2. j.count[f] = in.count[f]
      BY <1>4, <1>7, <2>3
    <3>3. QED
      BY <2>1, <3>1, <3>2
  <2>4. QED
    BY <2>2, <2>3
<1>9. \A f \in OnceEvents : j.count[f] <= 1
  BY <1>8
<1>10. j.count["STK_WITHDRAWN"] <= 1
       /\ (j.count["STK_WITHDRAWN"] > 0 => pc'["stake"] = "done")
  <2>1. "STK_WITHDRAWN" \in Events /\ "stake" \in Routines
    BY Names DEF Routines
  <2>2. CASE e = "STK_WITHDRAWN"
    <3>1. g = "stake" /\ pend["stake"] # <<>>
      BY <1>1, <1>5, <2>2
    <3>2. pc["stake"] = "run"
      BY <1>3, <3>1 DEF Queues
    <3>3. in.count["STK_WITHDRAWN"] = 0
      BY <1>0, <1>3, <2>1, <3>2 DEF Progress
    <3>4. j.count["STK_WITHDRAWN"] = 1
      BY <1>4, <2>2, <3>3
    <3>5. pc'["stake"] = "done"
      BY <1>0, <1>1, <2>1, <3>1 DEF EndsRoutine, PCType
    <3>6. QED
      BY <3>4, <3>5
  <2>3. CASE e # "STK_WITHDRAWN"
    <3>1. j.count["STK_WITHDRAWN"] = in.count["STK_WITHDRAWN"]
      BY <1>4, <2>1, <2>3
    <3>2. pc["stake"] = "done" => pc'["stake"] = "done"
      BY <1>0, <1>1, <2>1 DEF EndsRoutine, PCType
    <3>3. QED
      BY <1>3, <3>1, <3>2 DEF Progress
  <2>4. QED
    BY <2>2, <2>3
<1>11. Recorded(j)
  <2>1. ASSUME j.isClockReadyToClose, NEW f \in {"START", "FINISH", "DELAY_CLOSE"}
        PROVE  j.count[f] = 1
    <3>1. f \in OnceEvents /\ Sender(f) = "clock" /\ f \in Events
      BY <1>7 DEF OnceEvents, ClockEvents, Sender
    <3>2. CASE e = "DELAY_CLOSE"
      <4>1. f \notin Elems(pend'["clock"])
        BY <1>5, <3>1, <3>2
      <4>2. "DELAY_CLOSE" \in OnceEvents
        BY DEF OnceEvents, ClockEvents
      <4>3. Flagged("DELAY_CLOSE")
        BY <1>3, <1>5, <3>2, <4>2 DEF EachOnce
      <4>4. clk.close /\ clk.finish /\ clk.start
        BY <1>3, <4>3 DEF Flagged, Progress
      <4>5. Flagged(f)
        BY <4>4 DEF Flagged
      <4>6. QED
        BY <1>8, <3>1, <4>1, <4>5
    <3>3. CASE e # "DELAY_CLOSE"
      <4>1. in.count[f] = 1
        BY <1>3, <1>4, <2>1, <3>3 DEF Recorded
      <4>2. f = e => j.count[f] = 2
        BY <1>4, <4>1
      <4>3. QED
        BY <1>4, <1>9, <3>1, <4>1, <4>2
    <3>4. QED
      BY <3>2, <3>3
  <2>2. ASSUME NEW f \in {"BID_CLOSED", "VAL_WITHDRAWN"},
               in.count[f] = 1 \/ e = f
        PROVE  j.count[f] = 1
    <3>1. f \in OnceEvents /\ f \in Events
      BY <1>7 DEF OnceEvents
    <3>2. CASE e = f
      <4>1. f \in Elems(pend[Sender(f)]) /\ f \notin Elems(pend'[Sender(f)])
        BY <1>5, <3>1, <3>2
      <4>2. Flagged(f)
        BY <1>3, <3>1, <4>1 DEF EachOnce
      <4>3. QED
        BY <1>8, <3>1, <4>1, <4>2
    <3>3. CASE e # f
      BY <1>4, <2>2, <3>1, <3>3
    <3>4. QED
      BY <3>2, <3>3
  <2>3. j.bidHasClosed => j.count["BID_CLOSED"] = 1
    BY <1>3, <1>4, <2>2 DEF Recorded
  <2>4. j.validatorHasWithdrawn => j.count["VAL_WITHDRAWN"] = 1
    BY <1>3, <1>4, <2>2 DEF Recorded
  <2>5. j.bidIsFinal => j.count["BID_FINAL"] > 0 \/ j.bidHasClosed
    <3>1. "BID_FINAL" \in Events /\ in.count["BID_FINAL"] \in Nat
      BY <1>0, CountNat, Names
    <3>2. QED
      BY <1>3, <1>4, <3>1 DEF Recorded
  <2>6. QED
    BY <2>1, <2>3, <2>4, <2>5 DEF Recorded
<1>12. \A t \in Triggers : j.count[t] <= 1
  <2>1. \A f \in Events \cup Triggers : j.count[f] \in Nat
    BY <1>4, CountNat
  <2>2. j.count["CRANK"] <= 1 /\ j.count["CLOSE_BIDS"] <= 1
    BY <1>4 DEF Core
  <2>3. j.count["CLOSE_PAYOUT"] <= 1
    BY <1>4 DEF Kept
  <2>4. j.count["PRE_START"] <= 1
    BY <1>9 DEF OnceEvents, ClockEvents
  <2>5. j.count["SET_PAYOUT"] <= 1
    BY <1>4, <2>1, <2>4, Names
  <2>6. j.count["WITHDRAW"] <= 1
    BY <1>4, <1>10, <2>1, Names
  <2>7. QED
    BY <2>2, <2>3, <2>5, <2>6 DEF Triggers
<1>13. CASE j.keepPayoutOpen
  <2>1. in' = j /\ run' = "open" /\ Kept(j)
    BY <1>1, <1>4, <1>13
  <2>2. EachOnce'
    <3>1. ASSUME NEW f \in OnceEvents PROVE Flagged(f)' <=> Flagged(f)
      BY <1>1 DEF Flagged
    <3>2. QED
      BY <1>8, <2>1, <3>1 DEF EachOnce
  <2>3. Progress'
    <3>1. /\ clk'.finish => clk'.start
          /\ clk'.close => clk'.finish
          /\ pei'.validatorHasWithdrawn =>
                pei'.validatorHasAdded \/ pei'.postDelayClockPast
      BY <1>1, <1>3 DEF Progress
    <3>2. ASSUME pc'["pe"] = "start"
          PROVE  /\ pend'["pe"] = <<>> /\ pc'["stake"] = "off"
                 /\ ~pei'.bidsAreClosed /\ ~pei'.validatorHasWithdrawn
      <4>1. pc["pe"] = "start"
        BY <1>0, <1>1, <3>2 DEF PCType, Routines, EndsRoutine
      <4>2. /\ pend["pe"] = <<>> /\ pc["stake"] = "off"
            /\ ~pei.bidsAreClosed /\ ~pei.validatorHasWithdrawn
        BY <1>3, <4>1 DEF Progress
      <4>3. pend["stake"] = <<>>
        BY <1>3, <4>2 DEF Queues
      <4>4. g # "pe" /\ g # "stake"
        BY <1>1, <4>2, <4>3
      <4>5. pend'["pe"] = pend["pe"] /\ pc'["stake"] = pc["stake"]
        BY <1>0, <1>1, <4>4 DEF PCType, Routines
      <4>6. QED
        BY <1>1, <4>2, <4>5
    <3>3. QED
      BY <1>10, <2>1, <3>1, <3>2 DEF Progress
  <2>4. Recorded(in)' /\ Kept(in)'
    BY <1>11, <2>1 DEF Recorded, Kept, Core
  <2>5. Ledger'
    BY <1>5, <2>2, <2>3, <2>4 DEF Ledger
  <2>6. TriggersOnce'
    BY <1>12, <2>1 DEF TriggersOnce
  <2>7. RetriesStop'
    <3>1. j.count["BID_FINAL"] \in Nat
      BY <1>4, CountNat, Names
    <3>2. QED
      BY <1>4, <1>11, <2>1, <3>1 DEF RetriesStop, Core, Recorded
  <2>8. ClosedHistory'
    BY <2>1 DEF ClosedHistory
  <2>9. QED
    BY <2>5, <2>6, <2>7, <2>8 DEF OnceInv
<1>14. CASE ~j.keepPayoutOpen
  <2>1. /\ in' = CancelAll(j) /\ run' = "closed"
        /\ j.count["CLOSE_PAYOUT"] = 1
        /\ j.bidHasClosed /\ j.isClockReadyToClose /\ j.validatorHasWithdrawn
    BY <1>1, <1>4, <1>14
  <2>2. /\ in'.count = j.count
        /\ \A t \in Triggers : in'.ctx[t] # "live"
    BY <1>4, <2>1, CancelAllEffect
  <2>3. TriggersOnce'
    BY <1>12, <2>2 DEF TriggersOnce
  <2>4. RetriesStop'
    BY <2>2, Names DEF RetriesStop
  <2>5. ClosedHistory'
    BY <1>11, <2>1, <2>2 DEF ClosedHistory, Recorded
  <2>6. QED
    BY <2>1, <2>3, <2>4, <2>5 DEF OnceInv
<1>15. QED
  BY <1>13, <1>14

\* The agent cancels the scheduler; the goroutines end.
LEMMA EndOnce == ASSUME IInv, OnceInv, Cancel \/ Done PROVE OnceInv'
<1>0. in \in InternalType
  BY QueueFacts
<1>1. CASE Cancel
  <2>1. run' = "cancelled" /\ in' = CancelAll(in)
    BY <1>1 DEF Cancel
  <2>2. /\ in'.count = in.count
        /\ \A t \in Triggers : in'.ctx[t] # "live"
    BY <1>0, <2>1, CancelAllEffect
  <2>3. TriggersOnce'
    BY <2>2 DEF OnceInv, TriggersOnce
  <2>4. RetriesStop' /\ ClosedHistory'
    BY <2>1, <2>2, Names DEF RetriesStop, ClosedHistory
  <2>5. QED
    BY <2>1, <2>3, <2>4 DEF OnceInv
<1>2. CASE Done
  <2>1. run # "open" /\ in' = in /\ run' = run
    BY <1>2 DEF Done
  <2>2. QED
    BY <2>1, QuietOnce
<1>3. QED
  BY <1>1, <1>2

\* At the start nothing has been sent.
LEMMA InitOnce == Init => OnceInv
<1> SUFFICES ASSUME Init PROVE OnceInv
  OBVIOUS
<1>1. /\ pend = [g \in Routines |-> <<>>]
      /\ pc = [g \in Routines |-> IF g \in {"clock", "pe"} THEN "start" ELSE "off"]
      /\ ~clk.start /\ ~clk.pre /\ ~clk.finish /\ ~clk.close
      /\ ~pei.bidsAreClosed /\ ~pei.validatorHasWithdrawn
      /\ run = "open"
  BY DEF Init
<1>2. /\ in.count = [e \in Events \cup Triggers |-> 0]
      /\ in.ctx = [t \in Triggers |-> "none"]
      /\ ~in.isClockReadyToClose /\ ~in.bidHasClosed /\ ~in.bidIsFinal
      /\ ~in.validatorHasWithdrawn
      /\ in.keepPayoutOpen /\ in.cancelValidatorSetPayout = "nil"
  BY DEF Init
<1>3. /\ \A e \in Events \cup Triggers : in.count[e] = 0
      /\ \A t \in Triggers : in.ctx[t] = "none"
  BY <1>2
<1>4. pend["clock"] = <<>> /\ pend["pe"] = <<>> /\ pend["bid"] = <<>>
      /\ pend["stake"] = <<>>
  BY <1>1 DEF Routines
<1>5. Queues
  BY <1>4, ShortElems DEF Queues
<1>6. EachOnce
  <2>1. ASSUME NEW e \in OnceEvents
        PROVE  ~Flagged(e) /\ Elems(pend[Sender(e)]) = {} /\ in.count[e] = 0
    <3>1. e \in Events
      BY DEF OnceEvents, Events, DataEvents
    <3>2. ~Flagged(e)
      BY <1>1 DEF Flagged
    <3>3. pend[Sender(e)] = <<>>
      BY <1>4 DEF Sender
    <3>4. QED
      BY <1>3, <3>1, <3>2, <3>3, ShortElems
  <2>2. QED
    BY <2>1 DEF EachOnce
<1>7. Progress
  BY <1>1, <1>3, <1>4, Names DEF Progress, Routines
<1>8. Recorded(in) /\ Kept(in)
  BY <1>2, <1>3, Names DEF Recorded, Kept, Core
<1>9. TriggersOnce /\ RetriesStop /\ ClosedHistory
  BY <1>1, <1>3, Names DEF TriggersOnce, RetriesStop, ClosedHistory
<1>10. QED
  BY <1>5, <1>6, <1>7, <1>8, <1>9 DEF OnceInv, Ledger

\* Every step preserves it.
LEMMA NextOnce == IInv /\ OnceInv /\ [Next]_vars => OnceInv'
<1> SUFFICES ASSUME IInv, OnceInv, [Next]_vars PROVE OnceInv'
  OBVIOUS
<1>1. CASE Chain
  BY <1>1, ChainOnce
<1>2. CASE Clock
  BY <1>2, ClockOnce, SilentOnce DEF Clock
<1>3. CASE PayoutEvent
  BY <1>3, PEStartOnce, PEDataOnce, PEPostOnce, SilentOnce DEF PayoutEvent
<1>4. CASE Bid \/ Stake
  BY <1>4, BidOnce, StakeOnce
<1>5. CASE Internal
  BY <1>5, AcceptOnce DEF Internal
<1>6. CASE Cancel \/ Done
  BY <1>6, EndOnce
<1>7. CASE \E g \in Routines : ExtraDone(g)
  BY <1>7, ExtraOnce
<1>8. CASE UNCHANGED vars
  BY <1>8, StillOnce DEF vars
<1>9. QED
  BY <1>1, <1>2, <1>3, <1>4, <1>5, <1>6, <1>7, <1>8 DEF Next

\* The ledger holds in every reachable state.
THEOREM LedgerInvariance == Spec => [](IInv /\ OnceInv)
<1>1. Init => IInv /\ OnceInv
  BY InitIInv, InitOnce
<1>2. (IInv /\ OnceInv) /\ [Next]_vars => (IInv /\ OnceInv)'
  BY NextIInv, NextOnce
<1>3. QED
  BY <1>1, <1>2, PTL DEF Spec

\* Whatever the interleaving of the four goroutines, an agent is told at
\* most once to send each instruction, although the guards of
\* run_validator_set_payout and run_validator_withdraw never fall.
THEOREM TriggersAreSentOnce == Spec => []TriggersOnce
<1>1. OnceInv => TriggersOnce
  BY DEF OnceInv
<1>2. QED
  BY <1>1, LedgerInvariance, PTL

\* The scheduler leaves its loop by itself only with a complete history in
\* which every event it needed occurs once.
THEOREM ClosesWithFullHistory == Spec => []ClosedHistory
<1>1. OnceInv => ClosedHistory
  BY DEF OnceInv
<1>2. QED
  BY <1>1, LedgerInvariance, PTL

\* No agent goes on retrying CLOSE_BIDS once the bids are known to be
\* closed, or anything once the scheduler has ended.  One goes on retrying
\* CRANK after the bids are known to be final only if that is known from
\* their closing alone, because on_bid_closed does not cancel it.
THEOREM RetriesAreStopped == Spec => []RetriesStop
<1>1. OnceInv => RetriesStop
  BY DEF OnceInv
<1>2. QED
  BY <1>1, LedgerInvariance, PTL

\* A step that invites validators finds and leaves START unsent.
LEMMA InvitationStep ==
  ASSUME IInv, OnceInv, [Next]_vars,
         in'.count["SET_PAYOUT"] > in.count["SET_PAYOUT"]
  PROVE  in.count["START"] = 0 /\ in'.count["START"] = 0
<1>0. /\ in \in InternalType /\ \A f \in Events \cup Triggers : in.count[f] \in Nat
  BY QueueFacts
<1>1. ~(in'.count = in.count)
  <2>1. in.count["SET_PAYOUT"] \in Nat
    BY <1>0, Names
  <2>2. QED
    BY <2>1
<1>2. ~Cancel
  <2>1. ASSUME Cancel PROVE in'.count = in.count
    BY <1>0, <2>1, CancelAllEffect DEF Cancel
  <2>2. QED
    BY <1>1, <2>1
<1>3. ~(in' = in)
  BY <1>1
<1>4. ~(Clock \/ PayoutEvent \/ Bid \/ Stake)
  BY <1>3 DEF Clock, ClockTick, ClockPass, ClockPost, ClockError, PayoutEvent,
     PEStart, PEData, PEPost, PECancelExtra, PEExit, Bid, BidStart, BidStatus,
     BidError, Stake, StakeStart, StakeData, StakePost, StakeError
<1>5. ~(Chain \/ Done \/ (\E g \in Routines : ExtraDone(g)) \/ UNCHANGED vars)
  BY <1>3 DEF Chain, Tick, ChainSetPayout, ChainValidatorWithdraw, ChainStakerAdd,
     ChainStakerWithdraw, ChainCrank, ChainCloseBids, ChainFrame, Done, ExtraDone,
     vars
<1>6. PICK g \in Routines : Accept(g)
  BY <1>2, <1>4, <1>5 DEF Next, Internal
<1> DEFINE e == Head(pend[g])
           j == on_event(in, e)
<1>7. /\ run = "open" /\ e \in Events
      /\ in' = (IF j.keepPayoutOpen THEN j ELSE CancelAll(j))
  BY <1>6 DEF Accept
<1>8. Kept(in)
  BY <1>7 DEF OnceInv, Ledger
<1>9. /\ j \in InternalType
      /\ \A f \in Events \ {e} : j.count[f] = in.count[f]
      /\ j.count["SET_PAYOUT"] > in.count["SET_PAYOUT"] =>
            e = "PRE_START" /\ ~in.hasStarted
  BY <1>0, <1>7, <1>8, EventEffect
<1> HIDE DEF e, j
<1>10. in'.count = j.count
  <2>1. CASE j.keepPayoutOpen
    BY <1>7, <2>1
  <2>2. CASE ~j.keepPayoutOpen
    BY <1>7, <1>9, <2>2, CancelAllEffect
  <2>3. QED
    BY <2>1, <2>2
<1>11. e = "PRE_START" /\ ~in.hasStarted
  BY <1>9, <1>10
<1>12. in.count["START"] = 0
  BY <1>0, <1>8, <1>11, Names DEF Kept, Core
<1>13. j.count["START"] = in.count["START"]
  BY <1>9, <1>11, Names
<1>14. QED
  BY <1>10, <1>12, <1>13

\* Validators are never invited once subscribers have been told that the
\* period has started, even when the slot stream goes backwards.
THEOREM NoInvitationIsLate == Spec => NoLateInvitation
<1>1. IInv /\ OnceInv /\ [Next]_vars =>
        [in'.count["SET_PAYOUT"] > in.count["SET_PAYOUT"]
           => in.count["START"] = 0 /\ in'.count["START"] = 0]_vars
  BY InvitationStep
<1>2. QED
  BY <1>1, LedgerInvariance, PTL DEF Spec, NoLateInvitation
=============================================================================
