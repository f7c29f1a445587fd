------------------------------ MODULE SlotHome ------------------------------
(***************************************************************************)
(* The slot home of src/state/slot: one goroutine merges two sources, the  *)
(* slots of a websocket subscription and, when that has been silent for an *)
(* interval, the finalized slot of an RPC call.  Slots above lastSlot are  *)
(* broadcast to the subscribers; Time answers with the last slot heard.    *)
(* The finalized slot lies behind the one of the stream, and the RPC       *)
(* answer lowers lastSlot, so that what is broadcast may go back.          *)
(***************************************************************************)
EXTENDS Naturals, Sequences

CONSTANTS
    ShMaxSlot,   \* bound on the slot of the chain
    ShLag,       \* slots between the tip and the finalized slot
    ShStreamCap, \* slots that may wait in the stream
    ShCallers    \* callers of Time

ASSUME SlotHomeAssumption ==
    ShMaxSlot \in Nat /\ ShLag \in 0 .. ShMaxSlot /\ ShStreamCap \in Nat

VARIABLES
    shctx,       \* context of the slot home
    shloop,      \* loopInternal: "new", "run", "dead"
    shtip,       \* the slot of the chain
    shstream,    \* slots in the websocket stream
    shtimer,     \* nextC is armed
    shslot,      \* the variable slot
    shlast,      \* the variable lastSlot
    shtop,       \* (history) the highest slot broadcast
    shcall       \* each caller of Time: "new", "ask", "end"

slotVars == <<shctx, shloop, shtip, shstream, shtimer, shslot, shlast, shtop, shcall>>

Finalized == IF shtip > ShLag THEN shtip - ShLag ELSE 0

ShInit ==
    /\ shctx = "open" /\ shloop = "new" /\ shtip = ShLag
    /\ shstream = <<>> /\ shtimer = FALSE
    /\ shslot = 0 /\ shlast = 0 /\ shtop = 0
    /\ shcall = [c \in ShCallers |-> "new"]

\* A slot passes; the websocket may be stalled and lose it.
ShTip ==
    /\ shtip < ShMaxSlot /\ shtip' = shtip + 1
    /\ shstream' \in {shstream} \cup
         (IF shloop = "run" /\ Len(shstream) < ShStreamCap
          THEN {Append(shstream, shtip')} ELSE {})
    /\ UNCHANGED <<shctx, shloop, shtimer, shslot, shlast, shtop, shcall>>

ShDone ==
    /\ shctx = "open" /\ shctx' = "done"
    /\ UNCHANGED <<shloop, shtip, shstream, shtimer, shslot, shlast, shtop, shcall>>

\* SlotSubscribe, which may fail.
ShSubscribe ==
    /\ shloop = "new"
    /\ \/ shloop' = "run" /\ shtimer' = TRUE /\ UNCHANGED shctx
       \/ shloop' = "dead" /\ shctx' = "done" /\ UNCHANGED shtimer
    /\ UNCHANGED <<shtip, shstream, shslot, shlast, shtop, shcall>>

\* sendBroadcat, then lastSlot = slot.
sendBroadcat(s) ==
    /\ shslot' = s /\ shlast' = s
    /\ shtop' = IF s > shlast /\ s > shtop THEN s ELSE shtop

\* Mutant: the timer is armed again by the stream only.
OnTimerOnce ==
    /\ shloop = "run" /\ shtimer
    /\ \/ sendBroadcat(Finalized) /\ UNCHANGED <<shctx, shloop>>
       \/ shloop' = "dead" /\ shctx' = "done" /\ UNCHANGED <<shslot, shlast, shtop>>
    /\ shtimer' = FALSE
    /\ UNCHANGED <<shtip, shstream, shcall>>

\* case <-nextC: GetSlot; an error ends the loop.
OnTimer ==
    /\ shloop = "run" /\ shtimer
    /\ \/ sendBroadcat(Finalized) /\ UNCHANGED <<shctx, shloop>>
       \/ shloop' = "dead" /\ shctx' = "done" /\ UNCHANGED <<shslot, shlast, shtop>>
    /\ shtimer' = TRUE
    /\ UNCHANGED <<shtip, shstream, shcall>>

\* case d := <-streamC
OnStream ==
    /\ shloop = "run" /\ shstream # <<>>
    /\ sendBroadcat(Head(shstream)) /\ shstream' = Tail(shstream)
    /\ shtimer' = TRUE
    /\ UNCHANGED <<shctx, shloop, shtip, shcall>>

\* doneC or a stream error: defer cancel().
ShEnds ==
    /\ shloop = "run" /\ shloop' = "dead" /\ shctx' = "done"
    /\ UNCHANGED <<shtip, shstream, shtimer, shslot, shlast, shtop, shcall>>

-----------------------------------------------------------------------------
(* Time.                                                                   *)

TimeStart(c) ==
    /\ shcall[c] = "new"
    /\ shcall' = [shcall EXCEPT ![c] = IF shctx = "done" THEN "end" ELSE "ask"]
    /\ UNCHANGED <<shctx, shloop, shtip, shstream, shtimer, shslot, shlast, shtop>>

\* singleReqC has no buffer; respC has, so that the answer follows at once.
TimeAnswer(c) ==
    /\ shcall[c] = "ask" /\ shloop = "run"
    /\ shcall' = [shcall EXCEPT ![c] = "end"]
    /\ UNCHANGED <<shctx, shloop, shtip, shstream, shtimer, shslot, shlast, shtop>>

\* Mutant: Time watches the context only before it asks.
TimeCanceledNever(c) ==
    /\ shcall[c] = "new" /\ shctx = "done"
    /\ shcall' = [shcall EXCEPT ![c] = "end"]
    /\ UNCHANGED <<shctx, shloop, shtip, shstream, shtimer, shslot, shlast, shtop>>

TimeCanceled(c) ==
    /\ shcall[c] = "ask" /\ shctx = "done"
    /\ shcall' = [shcall EXCEPT ![c] = "end"]
    /\ UNCHANGED <<shctx, shloop, shtip, shstream, shtimer, shslot, shlast, shtop>>

-----------------------------------------------------------------------------
ShNext ==
    \/ ShTip \/ ShDone \/ ShSubscribe \/ OnTimer \/ OnStream \/ ShEnds
    \/ \E c \in ShCallers : TimeStart(c) \/ TimeAnswer(c) \/ TimeCanceled(c)

\* What must not stop: slots pass, timers fire, ready cases of the select are
\* taken.  No step can be repeated for ever, so fairness of ShRun is fairness
\* of each of its steps.
ShRun ==
    \/ ShTip \/ ShSubscribe \/ OnTimer \/ OnStream
    \/ shctx = "done" /\ ShEnds
    \/ \E c \in ShCallers : TimeAnswer(c) \/ TimeCanceled(c)

ShSpec == ShInit /\ [][ShNext]_slotVars /\ WF_slotVars(ShRun)

-----------------------------------------------------------------------------
ShTypeOK ==
    /\ shctx \in {"open", "done"} /\ shloop \in {"new", "run", "dead"}
    /\ shtip \in 0 .. ShMaxSlot /\ Len(shstream) <= ShStreamCap
    /\ shslot \in 0 .. ShMaxSlot /\ shtop \in 0 .. shtip
    /\ shcall \in [ShCallers -> {"new", "ask", "end"}]

\* The schedulers wait for a slot to come or to pass: as long as the slot home
\* lives, what is broadcast reaches the last final slot, even if the websocket
\* is silent for ever and although an RPC answer lowers lastSlot below slots
\* already broadcast.  (Single slots may never be broadcast: the poll takes the
\* finalized slot of the moment.)
SlotsCaughtUp == shloop = "dead" \/ shtop >= ShMaxSlot - ShLag
SlotsArrive == <>SlotsCaughtUp

\* Time returns, with a slot or an error, even if the loop ends meanwhile.
TimeReturns == \A c \in ShCallers : (shcall[c] = "ask") ~> (shcall[c] = "end")
=============================================================================
