----------------------------- MODULE AgentClose -----------------------------
(***************************************************************************)
(* How agents and state objects end: CloseSignal sends a closure to        *)
(* loopInternal that adds a channel to closeSignalCList, and finish        *)
(* reports the end to all of them.  They do this in different ways:        *)
(*   staker      loopInternal does not cancel the context when it ends     *)
(*   cranker     CloseSignal watches the context of the caller of Create   *)
(*   bidder      loopInternal never reads internalC, which has no buffer   *)
(*   pipeline    finish reports to nobody                                  *)
(*   validator   CloseSignal sends without watching the context            *)
(*   controller  the same, and nobody cancels                              *)
(*   network     the same; it has a context of its own                     *)
(*   pricing     internalC has no buffer                                   *)
(***************************************************************************)
EXTENDS Naturals, Sequences, FiniteSets

CONSTANTS
    AgentKinds,  \* the agents and objects to look at
    Closers,     \* callers of Close or CloseSignal
    InCap        \* capacity of internalC (10) where it has a buffer

\* Any capacity will do.
ASSUME AgentCloseAssumption == InCap \in Nat

ChecksFirst == {"staker", "cranker", "pipeline", "validator"}
Unwatched == {"validator", "controller", "network"}
Unbuffered == {"bidder", "pricing"}
OffersCancel == {"staker", "cranker", "pipeline", "validator"}
CancelsAtEnd == {"cranker", "pipeline", "validator", "network"}

VARIABLES
    agent,       \* which agent
    outer,       \* the context given to Create
    own,         \* the context of loopInternal
    loop,        \* loopInternal: "run", "finish", "dead"
    list,        \* closeSignalCList
    inbox,       \* internalC
    closer,      \* each caller: "new", "put", "cancel", "wait", "end"
    sig          \* number of messages sent to the channel of each caller

closeVars == <<agent, outer, own, loop, list, inbox, closer, sig>>

AcInit ==
    /\ agent \in AgentKinds
    /\ outer = "open" /\ own = "open" /\ loop = "run"
    /\ list = <<>> /\ inbox = <<>>
    /\ closer = [c \in Closers |-> "new"]
    /\ sig = [c \in Closers |-> 0]

\* The caller of Create gives up.
OuterDone ==
    /\ outer = "open" /\ outer' = "done" /\ own' = "done"
    /\ UNCHANGED <<agent, loop, list, inbox, closer, sig>>

\* The context that CloseSignal looks at.
Watched == IF agent = "cranker" THEN outer ELSE own

\* ctx.Err() first, in some of them.
CloseSignal(c) ==
    /\ closer[c] = "new"
    /\ IF Watched = "done" /\ agent \in ChecksFirst
       THEN /\ sig' = [sig EXCEPT ![c] = @ + 1]
            /\ closer' = [closer EXCEPT ![c] = "cancel"]
       ELSE closer' = [closer EXCEPT ![c] = "put"] /\ UNCHANGED sig
    /\ UNCHANGED <<agent, outer, own, loop, list, inbox>>

\* select: doneC, or room in internalC, or a loopInternal that takes the
\* closure from a channel without buffer.
Put(c) ==
    /\ closer[c] = "put"
    /\ \/ /\ agent \notin Unwatched /\ Watched = "done"
          /\ sig' = [sig EXCEPT ![c] = @ + 1] /\ UNCHANGED <<inbox, list>>
       \/ /\ agent \notin Unbuffered /\ Len(inbox) < InCap
          /\ inbox' = Append(inbox, c) /\ UNCHANGED <<sig, list>>
       \/ /\ agent = "pricing" /\ loop = "run"
          /\ list' = Append(list, c) /\ UNCHANGED <<sig, inbox>>
    /\ closer' = [closer EXCEPT ![c] = "cancel"]
    /\ UNCHANGED <<agent, outer, own, loop>>

\* cancel(), where it is offered; then the caller waits for its channel.
Cancel(c) ==
    /\ closer[c] = "cancel"
    /\ own' = IF agent \in OffersCancel THEN "done" ELSE own
    /\ closer' = [closer EXCEPT ![c] = "wait"]
    /\ UNCHANGED <<agent, outer, loop, list, inbox, sig>>

Told(c) ==
    /\ closer[c] = "wait" /\ sig[c] > 0
    /\ closer' = [closer EXCEPT ![c] = "end"]
    /\ UNCHANGED <<agent, outer, own, loop, list, inbox, sig>>

LoopRequest ==
    /\ loop = "run" /\ inbox # <<>>
    /\ list' = Append(list, Head(inbox)) /\ inbox' = Tail(inbox)
    /\ UNCHANGED <<agent, outer, own, loop, closer, sig>>

\* doneC, or an error of errorC or of a subscription.
LoopEnds(why) ==
    /\ loop = "run" /\ (why = "error" \/ own = "done")
    /\ loop' = "finish"
    /\ UNCHANGED <<agent, outer, own, list, inbox, closer, sig>>

\* Mutant: one caller is left out.
finishButLast ==
    /\ loop = "finish" /\ loop' = "dead"
    /\ sig' = [c \in Closers |->
                 sig[c] + IF \E i \in 1 .. Len(list) - 1 : list[i] = c THEN 1 ELSE 0]
    /\ own' = "done"
    /\ UNCHANGED <<agent, outer, list, inbox, closer>>

\* finish, and defer cancel().
finish ==
    /\ loop = "finish" /\ loop' = "dead"
    /\ sig' = IF agent = "pipeline" THEN sig
              ELSE [c \in Closers |->
                      sig[c] + Cardinality({i \in DOMAIN list : list[i] = c})]
    /\ own' = IF agent \in CancelsAtEnd THEN "done" ELSE own
    /\ UNCHANGED <<agent, outer, list, inbox, closer>>

AcRun(c) == Put(c) \/ Cancel(c) \/ Told(c)
AcLoop == LoopRequest \/ finish

AcNext ==
    \/ OuterDone
    \/ \E c \in Closers : CloseSignal(c) \/ AcRun(c)
    \/ LoopRequest \/ \E w \in {"error", "done"} : LoopEnds(w)
    \/ finish

\* A caller that can go on does, and so does loopInternal.
AcSpec ==
    /\ AcInit /\ [][AcNext]_closeVars
    /\ WF_closeVars(AcLoop) /\ \A c \in Closers : WF_closeVars(AcRun(c))

-----------------------------------------------------------------------------
AcTypeOK ==
    /\ agent \in AgentKinds
    /\ outer \in {"open", "done"} /\ own \in {"open", "done"}
    /\ loop \in {"run", "finish", "dead"}
    /\ inbox \in Seq(Closers) /\ Len(inbox) <= InCap /\ list \in Seq(Closers)
    /\ closer \in [Closers -> {"new", "put", "cancel", "wait", "end"}]
    /\ sig \in [Closers -> Nat]

\* finish sends to channels of capacity one without watching anything: it
\* never blocks, since no caller is told twice.
ToldOnce == \A c \in Closers : sig[c] <= 1

\* The closure of c is in internalC.
Queued(c) == \E i \in DOMAIN inbox : inbox[i] = c

\* A caller whose closure has run is told when loopInternal ends, except by
\* the pipeline agent.  One that has handed its closure over and is not told
\* has it in internalC, where it was left, or was put after the end.
LostInQueue ==
    loop = "dead" /\ agent # "pipeline" =>
        \A c \in Closers :
            closer[c] \in {"cancel", "wait"} /\ sig[c] = 0 => Queued(c)

\* A caller of CloseSignal is never told twice, so that finish never blocks;
\* and if it was able to hand its closure over, it is told at the end unless
\* loopInternal did not get to run the closure or belongs to the pipeline
\* agent.  A caller that is still in the send is CallersServed's matter.  The
\* variables keep their types meanwhile.
ClosersTold == AcTypeOK /\ ToldOnce /\ LostInQueue

\* The send of the closure waits for ever: nothing that it watches is done,
\* and internalC is full or has no buffer, and no loopInternal reads it (that
\* of the bidder never does).
Blocked(c) ==
    /\ closer[c] = "put"
    /\ loop = "dead" \/ agent = "bidder"
    /\ agent \in Unwatched \/ Watched = "open"
    /\ agent \in Unbuffered \/ Len(inbox) = InCap

\* The callers of CloseSignal get their closures across, and once loopInternal
\* has ended they get their messages, except in three cases, which the code can
\* reach: the closure is left in internalC, its send is blocked, or the agent
\* is the pipeline agent, whose finish tells nobody.
AcDue(c) == closer[c] = "put" \/ (loop = "dead" /\ closer[c] # "new")
AcServed(c) ==
    AcDue(c) =>
        \/ closer[c] = "end" \/ Queued(c) \/ Blocked(c)
        \/ agent = "pipeline" /\ closer[c] = "wait"
CallersServed == (\E c \in Closers : AcDue(c)) ~> (\A c \in Closers : AcServed(c))
=============================================================================
