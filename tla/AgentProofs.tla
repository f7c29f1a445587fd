---------------------------- MODULE AgentProofs ----------------------------
(***************************************************************************)
(* What the agents promise, for every set of pipelines, payouts, callers   *)
(* and rings and every capacity.  Each component has its own inductive     *)
(* invariant; the last theorem of each section puts it together with the   *)
(* temporal step.                                                          *)
(***************************************************************************)
EXTENDS Agents, SequenceFacts, TLAPS

-----------------------------------------------------------------------------
(* AgentClose: callers of CloseSignal.                                     *)

\* A closure is in one place at a time: with its caller, in internalC or in
\* closeSignalCList; and nobody is told before finish has gone through the
\* list unless CloseSignal itself saw that the context is done.
OnePlace ==
    /\ NoneTwice(inbox) /\ NoneTwice(list)
    /\ \A c \in Closers :
        /\ ~(Within(c, inbox) /\ Within(c, list))
        /\ closer[c] \in {"new", "put"} =>
              ~Within(c, inbox) /\ ~Within(c, list) /\ sig[c] = 0
        /\ Within(c, inbox) => sig[c] = 0
        /\ loop # "dead" /\ Within(c, list) => sig[c] = 0

\* A caller that has got past CloseSignal is in one of the two places or has
\* been told, and those in the list have been told once finish is through.
Accounted ==
    \A c \in Closers :
        /\ closer[c] \in {"cancel", "wait"} =>
              Within(c, inbox) \/ Within(c, list) \/ sig[c] = 1
        /\ loop = "dead" /\ agent # "pipeline" /\ Within(c, list) => sig[c] = 1

AcInv == AcTypeOK /\ ToldOnce /\ OnePlace /\ Accounted

LEMMA AcInitInv == AcInit => AcInv
<1> SUFFICES ASSUME AcInit PROVE AcInv
  OBVIOUS
<1>1. <<>> \in Seq(Closers) /\ Len(<<>>) = 0 /\ DOMAIN <<>> = {}
  OBVIOUS
<1>2. AcTypeOK
  BY <1>1, AgentCloseAssumption DEF AcInit, AcTypeOK
<1>3. ToldOnce
  BY DEF AcInit, ToldOnce
<1>4. OnePlace
  BY <1>1 DEF AcInit, OnePlace, Within, NoneTwice
<1>5. Accounted
  BY <1>1 DEF AcInit, Accounted, Within
<1>6. QED
  BY <1>2, <1>3, <1>4, <1>5 DEF AcInv

\* Actions that leave the two places and the callers alone.
LEMMA AcKeeps ==
  ASSUME AcInv, UNCHANGED <<agent, list, inbox, closer, sig>>,
         outer' \in {"open", "done"}, own' \in {"open", "done"},
         loop' \in {"run", "finish"}, loop # "dead"
  PROVE  AcInv'
<1>1. AcTypeOK'
  BY DEF AcInv, AcTypeOK
<1>2. ToldOnce'
  BY DEF AcInv, ToldOnce
<1>3. OnePlace'
  BY DEF AcInv, OnePlace
<1>4. Accounted'
  BY DEF AcInv, Accounted
<1>5. QED
  BY <1>1, <1>2, <1>3, <1>4 DEF AcInv

LEMMA AcOuterDone == AcInv /\ OuterDone => AcInv'
<1> SUFFICES ASSUME AcInv, OuterDone PROVE AcInv'
  OBVIOUS
<1>1. AcTypeOK'
  BY DEF AcInv, AcTypeOK, OuterDone
<1>2. ToldOnce' /\ OnePlace' /\ Accounted'
  BY DEF AcInv, ToldOnce, OnePlace, Accounted, OuterDone
<1>3. QED
  BY <1>1, <1>2 DEF AcInv

\* Nobody is told twice since a new caller has not been told.
LEMMA AcCloseSignal ==
  ASSUME AcInv, NEW c \in Closers, CloseSignal(c) PROVE AcInv'
<1>1. /\ closer[c] = "new" /\ UNCHANGED <<agent, outer, own, loop, list, inbox>>
      /\ sig[c] = 0 /\ ~Within(c, inbox) /\ ~Within(c, list)
      /\ closer \in [Closers -> {"new", "put", "cancel", "wait", "end"}]
      /\ sig \in [Closers -> Nat]
  BY DEF AcInv, AcTypeOK, OnePlace, CloseSignal
<1>2. \/ sig' = [sig EXCEPT ![c] = 1] /\ closer' = [closer EXCEPT ![c] = "cancel"]
      \/ sig' = sig /\ closer' = [closer EXCEPT ![c] = "put"]
  BY <1>1 DEF CloseSignal
<1>3. AcTypeOK'
  <2>1. closer' \in [Closers -> {"new", "put", "cancel", "wait", "end"}]
    BY <1>1, <1>2
  <2>2. sig' \in [Closers -> Nat]
    BY <1>1, <1>2
  <2>3. QED
    BY <1>1, <2>1, <2>2 DEF AcInv, AcTypeOK
<1>4. ToldOnce'
  BY <1>1, <1>2 DEF AcInv, ToldOnce
<1>5. OnePlace'
  BY <1>1, <1>2 DEF AcInv, OnePlace
<1>6. Accounted'
  BY <1>1, <1>2 DEF AcInv, Accounted
<1>7. QED
  BY <1>3, <1>4, <1>5, <1>6 DEF AcInv

LEMMA AcPut ==
  ASSUME AcInv, NEW c \in Closers, Put(c) PROVE AcInv'
<1>1. /\ closer[c] = "put" /\ UNCHANGED <<agent, outer, own, loop>>
      /\ closer' = [closer EXCEPT ![c] = "cancel"]
      /\ sig[c] = 0 /\ ~Within(c, inbox) /\ ~Within(c, list)
      /\ closer \in [Closers -> {"new", "put", "cancel", "wait", "end"}]
      /\ sig \in [Closers -> Nat]
      /\ inbox \in Seq(Closers) /\ list \in Seq(Closers)
      /\ NoneTwice(inbox) /\ NoneTwice(list)
  BY DEF AcInv, AcTypeOK, OnePlace, Put
<1>2. CASE sig' = [sig EXCEPT ![c] = @ + 1] /\ UNCHANGED <<inbox, list>>
  <2>0. sig' = [sig EXCEPT ![c] = 1]
    BY <1>1, <1>2
  <2>1. AcTypeOK'
    BY <1>1, <1>2, <2>0 DEF AcInv, AcTypeOK
  <2>2. ToldOnce'
    BY <1>1, <2>0 DEF AcInv, ToldOnce
  <2>3. OnePlace'
    BY <1>1, <1>2, <2>0 DEF AcInv, OnePlace
  <2>4. Accounted'
    BY <1>1, <1>2, <2>0 DEF AcInv, Accounted
  <2>5. QED
    BY <2>1, <2>2, <2>3, <2>4 DEF AcInv
<1>3. CASE Len(inbox) < InCap /\ inbox' = Append(inbox, c) /\ UNCHANGED <<sig, list>>
  <2>0. /\ \A d \in Closers : Within(d, inbox') <=> Within(d, inbox) \/ d = c
        /\ NoneTwice(inbox')
        /\ inbox' \in Seq(Closers) /\ Len(inbox') = Len(inbox) + 1
        /\ Len(inbox) \in Nat
    BY <1>1, <1>3, WithinAppend, NoneTwiceAppend, AppendProperties, LenProperties
  <2>1. AcTypeOK'
    BY <1>1, <1>3, <2>0, AgentCloseAssumption DEF AcInv, AcTypeOK
  <2>2. ToldOnce'
    BY <1>3 DEF AcInv, ToldOnce
  <2>3. OnePlace'
    BY <1>1, <1>3, <2>0 DEF AcInv, OnePlace
  <2>4. Accounted'
    BY <1>1, <1>3, <2>0 DEF AcInv, Accounted
  <2>5. QED
    BY <2>1, <2>2, <2>3, <2>4 DEF AcInv
<1>4. CASE loop = "run" /\ list' = Append(list, c) /\ UNCHANGED <<sig, inbox>>
  <2>0. /\ \A d \in Closers : Within(d, list') <=> Within(d, list) \/ d = c
        /\ NoneTwice(list') /\ list' \in Seq(Closers)
    BY <1>1, <1>4, WithinAppend, NoneTwiceAppend, AppendProperties
  <2>1. AcTypeOK'
    BY <1>1, <1>4, <2>0 DEF AcInv, AcTypeOK
  <2>2. ToldOnce'
    BY <1>4 DEF AcInv, ToldOnce
  <2>3. OnePlace'
    BY <1>1, <1>4, <2>0 DEF AcInv, OnePlace
  <2>4. Accounted'
    BY <1>1, <1>4, <2>0 DEF AcInv, Accounted
  <2>5. QED
    BY <2>1, <2>2, <2>3, <2>4 DEF AcInv
<1>5. QED
  BY <1>2, <1>3, <1>4 DEF Put

LEMMA AcMoves ==
  ASSUME AcInv, NEW c \in Closers, Cancel(c) \/ Told(c) PROVE AcInv'
<1>1. /\ UNCHANGED <<agent, outer, loop, list, inbox, sig>>
      /\ closer \in [Closers -> {"new", "put", "cancel", "wait", "end"}]
      /\ own' \in {"open", "done"}
      /\ \/ closer[c] = "cancel" /\ closer' = [closer EXCEPT ![c] = "wait"]
         \/ closer' = [closer EXCEPT ![c] = "end"]
  BY DEF AcInv, AcTypeOK, Cancel, Told
<1>2. AcTypeOK'
  BY <1>1 DEF AcInv, AcTypeOK
<1>3. ToldOnce'
  BY <1>1 DEF AcInv, ToldOnce
<1>4. OnePlace'
  BY <1>1 DEF AcInv, OnePlace
<1>5. Accounted'
  BY <1>1 DEF AcInv, Accounted
<1>6. QED
  BY <1>2, <1>3, <1>4, <1>5 DEF AcInv

LEMMA AcLoopRequest == AcInv /\ LoopRequest => AcInv'
<1> SUFFICES ASSUME AcInv, LoopRequest PROVE AcInv'
  OBVIOUS
<1>1. /\ loop = "run" /\ inbox # <<>> /\ UNCHANGED <<agent, outer, own, loop, closer, sig>>
      /\ list' = Append(list, Head(inbox)) /\ inbox' = Tail(inbox)
      /\ inbox \in Seq(Closers) /\ list \in Seq(Closers) /\ Len(inbox) <= InCap
      /\ NoneTwice(inbox) /\ NoneTwice(list)
  BY DEF AcInv, AcTypeOK, OnePlace, LoopRequest
<1>2. PICK h \in Closers : h = Head(inbox)
  BY <1>1, HeadTailProperties
<1>3. /\ \A d \in Closers : Within(d, inbox) <=> d = h \/ Within(d, inbox')
      /\ NoneTwice(inbox') /\ ~Within(h, inbox')
      /\ inbox' \in Seq(Closers) /\ Len(inbox') = Len(inbox) - 1
      /\ Len(inbox) \in Nat
  BY <1>1, <1>2, WithinHead, NoneTwiceTail, HeadTailProperties, LenProperties
<1>4. ~Within(h, list)
  BY <1>2, <1>3 DEF AcInv, OnePlace
<1>5. /\ \A d \in Closers : Within(d, list') <=> Within(d, list) \/ d = h
      /\ NoneTwice(list') /\ list' \in Seq(Closers)
  BY <1>1, <1>2, <1>4, WithinAppend, NoneTwiceAppend, AppendProperties
<1>6. AcTypeOK'
  BY <1>1, <1>3, <1>5, AgentCloseAssumption DEF AcInv, AcTypeOK
<1>7. ToldOnce'
  BY <1>1 DEF AcInv, ToldOnce
<1>8. OnePlace'
  BY <1>1, <1>3, <1>5 DEF AcInv, OnePlace
<1>9. Accounted'
  BY <1>1, <1>3, <1>5 DEF AcInv, Accounted
<1>10. QED
  BY <1>6, <1>7, <1>8, <1>9 DEF AcInv

\* finish tells everybody in the list once.
LEMMA AcFinish == AcInv /\ finish => AcInv'
<1> SUFFICES ASSUME AcInv, finish PROVE AcInv'
  OBVIOUS
<1>1. /\ loop = "finish" /\ loop' = "dead" /\ UNCHANGED <<agent, outer, list, inbox, closer>>
      /\ own' \in {"open", "done"} /\ list \in Seq(Closers) /\ NoneTwice(list)
      /\ sig \in [Closers -> Nat]
  BY DEF AcInv, AcTypeOK, OnePlace, finish
<1>2. \A c \in Closers : Within(c, list) => sig[c] = 0
  BY <1>1 DEF AcInv, OnePlace
<1>3. /\ sig' \in [Closers -> Nat]
      /\ agent = "pipeline" => sig' = sig
      /\ agent # "pipeline" =>
            \A c \in Closers : sig'[c] = IF Within(c, list) THEN 1 ELSE sig[c]
  <2>1. CASE agent = "pipeline"
    BY <1>1, <2>1 DEF finish
  <2>2. CASE agent # "pipeline"
    <3>1. sig' = [c \in Closers |->
                    sig[c] + Cardinality({i \in DOMAIN list : list[i] = c})]
      BY <2>2 DEF finish
    <3>2. ASSUME NEW c \in Closers
          PROVE  sig'[c] \in Nat /\ sig'[c] = IF Within(c, list) THEN 1 ELSE sig[c]
      <4>1. PICK n : n = Cardinality({i \in DOMAIN list : list[i] = c})
        OBVIOUS
      <4>2. (Within(c, list) => n = 1) /\ (~Within(c, list) => n = 0)
        BY <1>1, <4>1, CountOnce
      <4>3. sig'[c] = sig[c] + n
        BY <3>1, <4>1
      <4>4. QED
        BY <1>1, <1>2, <4>2, <4>3
    <3>3. sig' \in [Closers -> Nat]
      BY <3>1, <3>2
    <3>4. QED
      BY <2>2, <3>2, <3>3
  <2>3. QED
    BY <2>1, <2>2
<1>4. AcTypeOK'
  BY <1>1, <1>3 DEF AcInv, AcTypeOK
<1>5. ToldOnce'
  <2>1. ASSUME NEW c \in Closers PROVE sig'[c] <= 1
    <3>1. sig[c] <= 1
      BY DEF AcInv, ToldOnce
    <3>2. sig'[c] = sig[c] \/ sig'[c] = 1
      BY <1>3
    <3>3. QED
      BY <3>1, <3>2
  <2>2. QED
    BY <2>1 DEF ToldOnce
<1>6. OnePlace'
  BY <1>1, <1>3 DEF AcInv, OnePlace
<1>7. Accounted'
  BY <1>1, <1>2, <1>3 DEF AcInv, Accounted
<1>8. QED
  BY <1>4, <1>5, <1>6, <1>7 DEF AcInv

\* AcInv is an invariant of the closing of an agent, for any kinds of
\* agents, callers of CloseSignal and capacity of internalC.
THEOREM AcInvariance == AcSpec => []AcInv
<1>1. AcInv /\ [AcNext]_closeVars => AcInv'
  <2> SUFFICES ASSUME AcInv, [AcNext]_closeVars PROVE AcInv'
    OBVIOUS
  <2>1. CASE OuterDone
    BY <2>1, AcOuterDone
  <2>2. ASSUME NEW c \in Closers, CloseSignal(c) PROVE AcInv'
    BY <2>2, AcCloseSignal
  <2>3. ASSUME NEW c \in Closers, AcRun(c) PROVE AcInv'
    BY <2>3, AcPut, AcMoves DEF AcRun
  <2>4. CASE LoopRequest
    BY <2>4, AcLoopRequest
  <2>5. ASSUME NEW w \in {"error", "done"}, LoopEnds(w) PROVE AcInv'
    <3>1. /\ UNCHANGED <<agent, outer, own, list, inbox, closer, sig>>
          /\ loop = "run" /\ loop' = "finish"
      BY <2>5 DEF LoopEnds
    <3>2. outer' \in {"open", "done"} /\ own' \in {"open", "done"}
      BY <3>1 DEF AcInv, AcTypeOK
    <3>3. QED
      BY <3>1, <3>2, AcKeeps
  <2>6. CASE finish
    BY <2>6, AcFinish
  <2>7. CASE UNCHANGED closeVars
    BY <2>7 DEF AcInv, AcTypeOK, ToldOnce, OnePlace, Accounted, closeVars
  <2>8. QED
    BY <2>1, <2>2, <2>3, <2>4, <2>5, <2>6, <2>7 DEF AcNext
<1>2. QED
  BY AcInitInv, <1>1, PTL DEF AcSpec

\* Nobody who asked CloseSignal is told twice, so that finish never blocks;
\* and in every kind of agent but the pipeline's, a caller that has handed its
\* closure over and is not told once loopInternal has ended has it in
\* internalC.  Nothing is said of a caller that is still in the send.
THEOREM ClosersAreTold == AcSpec => []ClosersTold
<1>1. AcInv => ClosersTold
  <2> SUFFICES ASSUME AcInv PROVE ClosersTold
    OBVIOUS
  <2>1. ASSUME loop = "dead", agent # "pipeline", NEW c \in Closers,
               closer[c] \in {"cancel", "wait"}, sig[c] = 0
        PROVE  Within(c, inbox)
    BY <2>1 DEF AcInv, Accounted
  <2>2. LostInQueue
    BY <2>1 DEF LostInQueue, Queued, Within
  <2>3. QED
    BY <2>2 DEF AcInv, ClosersTold
<1>2. QED
  BY <1>1, AcInvariance, PTL

-----------------------------------------------------------------------------
(* CrankPayout.                                                            *)

\* What the task knows of the slot is not ahead of the chain, and the context
\* of the Send is open only after the period or the end of an object, which
\* alone sends nil.
CpSound ==
    /\ known \in [slot : 0 .. CpMaxSlot, final : BOOLEAN, zero : BOOLEAN]
    /\ cctx \in {"none", "open", "done"} /\ pctx \in {"open", "done"}
    /\ known.slot <= time
    /\ cctx = "open" => CpFinish < time \/ gone # {}
    /\ "nil" \in news => gone # {}

\* The helper that has ended has closed the context of the Send, there is
\* none before it starts, and it hears of the end of the payout or hangs.
CpHelped ==
    /\ stop \in {"none", "new", "run", "unsub", "end", "hung"}
    /\ stop = "end" => cctx = "done"
    /\ stop = "none" => cctx = "none"
    /\ stop = "run" /\ "payout" \in gone => stopNews
    /\ stop = "hung" => "payout" \in gone

\* The helper is started before the Send.
Sending == cpc = "send" => stop # "none"

CpInv == CpTypeOK /\ NoEarlyCrank /\ CpSound /\ CpHelped /\ CrankStopped /\ Sending

LEMMA CpInitInv == CpInit => CpInv
<1> SUFFICES ASSUME CpInit PROVE CpInv
  OBVIOUS
<1>1. time \in 0 .. CpMaxSlot /\ time \in Nat
  BY CrankPayoutAssumption DEF CpInit
<1>2. isFinal \in BOOLEAN /\ noBids \in BOOLEAN
  BY Zenon DEF CpInit
<1>3. known \in [slot : 0 .. CpMaxSlot, final : BOOLEAN, zero : BOOLEAN]
  BY CrankPayoutAssumption DEF CpInit
<1>4. attempts \in 0 .. CpTries
  BY CrankPayoutAssumption DEF CpInit
<1>5. CpTypeOK
  BY <1>1, <1>2, <1>3, <1>4 DEF CpInit, CpTypeOK
<1>6. NoEarlyCrank
  BY DEF CpInit, NoEarlyCrank
<1>7. CpSound
  BY <1>1, <1>3 DEF CpInit, CpSound
<1>8. CpHelped /\ CrankStopped /\ Sending
  BY DEF CpInit, CpHelped, CrankStopped, Sending
<1>9. QED
  BY <1>5, <1>6, <1>7, <1>8 DEF CpInv

\* A broadcast reaches the subscribers that exist; it carries no nil.
LEMMA TellTyped ==
  ASSUME CpInv, NEW kind \in {"slot", "final", "zero"}, Tell(kind)
  PROVE  /\ news' \subseteq {"slot", "final", "zero", "nil"}
         /\ "nil" \in news' => gone # {}
         /\ stopNews => stopNews'
         /\ kind = "final" /\ stop = "run" /\ "payout" \notin gone => stopNews'
BY DEF CpInv, CpTypeOK, CpSound, Tell, Source

\* The chain goes on, the context of the task may end, and objects may end;
\* neither the task nor its helper moves.
LEMMA CpWorldMoves ==
  ASSUME CpInv, UNCHANGED <<cpc, known, cctx, stop, missed, attempts>>,
         time' \in 0 .. CpMaxSlot, time <= time',
         isFinal' \in BOOLEAN, noBids' \in BOOLEAN,
         gone \subseteq gone', gone' \subseteq {"slot", "payout"},
         pctx' = pctx \/ pctx' = "done",
         news' \subseteq {"slot", "final", "zero", "nil"},
         "nil" \in news' => gone' # {},
         stopNews => stopNews',
         stop = "run" /\ "payout" \in gone' => stopNews',
         isFinal' /\ ~isFinal /\ stop = "run" => stopNews'
  PROVE  CpInv'
<1>1. CpTypeOK'
  BY DEF CpInv, CpTypeOK
<1>2. /\ time \in Nat /\ time' \in Nat /\ (CpFinish < time => CpFinish < time')
      /\ (gone # {} => gone' # {})
  <2>1. time \in Nat /\ time' \in Nat /\ CpFinish \in Nat
    BY CrankPayoutAssumption DEF CpInv, CpTypeOK
  <2>2. CpFinish < time => CpFinish < time'
    BY <2>1
  <2>3. gone # {} => gone' # {}
    OBVIOUS
  <2>4. QED
    BY <2>1, <2>2, <2>3
<1>3. NoEarlyCrank'
  BY <1>2 DEF CpInv, NoEarlyCrank
<1>4. known'.slot <= time'
  BY CrankPayoutAssumption DEF CpInv, CpTypeOK, CpSound
<1>5. CpSound'
  BY <1>2, <1>4 DEF CpInv, CpSound
<1>6. CpHelped' /\ Sending'
  BY DEF CpInv, CpHelped, Sending
<1>7. CrankStopped'
  BY DEF CpInv, CrankStopped, SendOpen, CpHelped
<1>8. QED
  BY <1>1, <1>3, <1>5, <1>6, <1>7 DEF CpInv

LEMMA CpChainMoves ==
  ASSUME CpInv,
         \/ ChainSlot \/ ChainCranks \/ ChainClosesBids \/ PDone
         \/ \E o \in {"slot", "payout"} : ObjectEnds(o)
  PROVE  CpInv'
<1>0. /\ time \in 0 .. CpMaxSlot /\ time \in Nat /\ pctx \in {"open", "done"}
      /\ news \subseteq {"slot", "final", "zero", "nil"}
      /\ gone \subseteq {"slot", "payout"}
      /\ "nil" \in news => gone # {}
      /\ stop = "run" /\ "payout" \in gone => stopNews
  BY CrankPayoutAssumption DEF CpInv, CpTypeOK, CpSound, CpHelped
<1>1. isFinal \in BOOLEAN /\ noBids \in BOOLEAN
  BY DEF CpInv, CpTypeOK
<1>2. CASE ChainSlot
  <2>1. /\ UNCHANGED <<isFinal, noBids, gone, pctx, cpc, known, cctx, attempts, stop, missed>>
        /\ Tell("slot")
    BY <1>2 DEF ChainSlot, cpTask
  <2>2. time' \in 0 .. CpMaxSlot /\ time <= time'
    BY <1>0, <1>2, CrankPayoutAssumption DEF ChainSlot
  <2>3. /\ news' \subseteq {"slot", "final", "zero", "nil"}
        /\ "nil" \in news' => gone # {}
        /\ stopNews => stopNews'
    BY <2>1, TellTyped
  <2>4. QED
    BY <1>0, <1>1, <2>1, <2>2, <2>3, CpWorldMoves
<1>3. CASE ChainCranks
  <2>1. /\ UNCHANGED <<time, noBids, gone, pctx, cpc, known, cctx, attempts, stop, missed>>
        /\ Tell("final") /\ isFinal' = TRUE
    BY <1>3 DEF ChainCranks, cpTask
  <2>2. /\ news' \subseteq {"slot", "final", "zero", "nil"}
        /\ "nil" \in news' => gone # {}
        /\ stopNews => stopNews'
        /\ stop = "run" /\ "payout" \notin gone => stopNews'
    BY <2>1, TellTyped
  <2>3. isFinal' \in BOOLEAN
    BY <2>1
  <2>4. stop = "run" => stopNews'
    BY <1>0, <2>2
  <2>5. QED
    BY <1>0, <1>1, <2>1, <2>2, <2>3, <2>4, CpWorldMoves
<1>4. CASE ChainClosesBids
  <2>1. /\ UNCHANGED <<time, isFinal, gone, pctx, cpc, known, cctx, attempts, stop, missed>>
        /\ Tell("zero") /\ noBids' = TRUE
    BY <1>4 DEF ChainClosesBids, cpTask
  <2>2. /\ news' \subseteq {"slot", "final", "zero", "nil"}
        /\ "nil" \in news' => gone # {}
        /\ stopNews => stopNews'
    BY <2>1, TellTyped
  <2>3. noBids' \in BOOLEAN
    BY <2>1
  <2>4. QED
    BY <1>0, <1>1, <2>1, <2>2, <2>3, CpWorldMoves
<1>5. CASE PDone
  <2>1. /\ UNCHANGED <<time, isFinal, noBids, gone, cpc, known, cctx, attempts, stop,
                       missed, news, stopNews>>
        /\ pctx' = "done"
    BY <1>5 DEF PDone, cpTask
  <2>2. QED
    BY <1>0, <1>1, <2>1, CpWorldMoves
<1>6. ASSUME NEW o \in {"slot", "payout"}, ObjectEnds(o) PROVE CpInv'
  <2>1. /\ UNCHANGED <<time, isFinal, noBids, pctx, cpc, known, cctx, attempts, stop, missed>>
        /\ gone' = gone \cup {o}
        /\ news' = news \/ news' = news \cup {"nil"}
        /\ stopNews' = (stopNews \/ (o = "payout" /\ stop = "run"))
    BY <1>6 DEF ObjectEnds, cpTask
  <2>2. /\ gone \subseteq gone' /\ gone' \subseteq {"slot", "payout"} /\ gone' # {}
        /\ news' \subseteq {"slot", "final", "zero", "nil"}
    BY <1>0, <1>6, <2>1
  <2>3. /\ stopNews => stopNews'
        /\ stop = "run" /\ "payout" \in gone' => stopNews'
    BY <1>0, <2>1
  <2>4. QED
    BY <1>0, <1>1, <2>1, <2>2, <2>3, CpWorldMoves
<1>7. QED
  BY <1>2, <1>3, <1>4, <1>5, <1>6

\* A step that leaves the chain and the tries alone: what it has to show.
LEMMA CpTaskMoves ==
  ASSUME CpInv, UNCHANGED <<time, isFinal, noBids, gone, pctx, attempts, stopNews, missed>>,
         cpc' \in {"sub", "subp", "read", "wait", "send", "end", "hung"},
         news' \subseteq news,
         known' \in [slot : 0 .. CpMaxSlot, final : BOOLEAN, zero : BOOLEAN],
         known'.slot <= time,
         \/ cpc' # "send" /\ stop' = stop /\ cctx' = cctx
         \/ /\ stop' = "new" /\ cctx' = pctx
            /\ pctx = "open" => CpFinish < time \/ gone # {}
  PROVE  CpInv'
<1>1. CpTypeOK'
  BY DEF CpInv, CpTypeOK
<1>2. NoEarlyCrank'
  BY DEF CpInv, NoEarlyCrank
<1>3. CpSound'
  BY DEF CpInv, CpSound
<1>4. CpHelped' /\ Sending'
  BY DEF CpInv, CpHelped, Sending
<1>5. CrankStopped'
  BY DEF CrankStopped
<1>6. QED
  BY <1>1, <1>2, <1>3, <1>4, <1>5 DEF CpInv

\* Where the task goes when it returns.
LEMMA OverTyped == Over \subseteq {"end", "hung"}
BY DEF Over

\* CrankPayout subscribes, reads, waits and leaves its loop.
LEMMA CpWaits ==
  ASSUME CpInv, CpSubscribe \/ CpRead \/ CpMessage \/ CpLeaves \/ CpFails
  PROVE  CpInv'
<1>0. /\ time \in 0 .. CpMaxSlot /\ known.slot <= time
      /\ known \in [slot : 0 .. CpMaxSlot, final : BOOLEAN, zero : BOOLEAN]
      /\ news \subseteq {"slot", "final", "zero", "nil"}
      /\ pctx \in {"open", "done"}
      /\ "nil" \in news => gone # {}
      /\ isFinal \in BOOLEAN /\ noBids \in BOOLEAN
  BY DEF CpInv, CpTypeOK, CpSound
<1>1. CASE CpSubscribe
  <2>1. /\ UNCHANGED <<time, isFinal, noBids, gone, pctx, attempts, stopNews, missed, known,
                       cctx, stop, news>>
        /\ cpc' \in {"subp", "read", "hung"}
    BY <1>1 DEF CpSubscribe, CpGoes, cpChain
  <2>2. QED
    BY <1>0, <2>1, CpTaskMoves
<1>2. CASE CpRead
  <2>1. /\ UNCHANGED <<time, isFinal, noBids, gone, pctx, attempts, stopNews, missed, cctx,
                       stop, news>>
        /\ cpc' \in {"wait", "end", "hung"}
        /\ \/ known' = known
           \/ \E f \in {isFinal, FALSE} : known' = [slot |-> 0, final |-> f, zero |-> noBids]
    BY <1>2 DEF CpRead, CpGoes, cpChain
  <2>2. /\ known' \in [slot : 0 .. CpMaxSlot, final : BOOLEAN, zero : BOOLEAN]
        /\ known'.slot <= time
    <3>1. CASE known' = known
      BY <1>0, <3>1
    <3>2. ASSUME NEW f \in {isFinal, FALSE},
                 known' = [slot |-> 0, final |-> f, zero |-> noBids]
          PROVE  /\ known' \in [slot : 0 .. CpMaxSlot, final : BOOLEAN, zero : BOOLEAN]
                 /\ known'.slot <= time
      <4>1. f \in BOOLEAN
        BY <1>0
      <4>2. 0 \in 0 .. CpMaxSlot /\ 0 <= time
        BY <1>0, CrankPayoutAssumption
      <4>3. QED
        BY <1>0, <3>2, <4>1, <4>2
    <3>3. QED
      BY <2>1, <3>1, <3>2
  <2>3. QED
    BY <1>0, <2>1, <2>2, CpTaskMoves
<1>3. CASE CpMessage
  <2>1. PICK m \in news \ {"nil"} :
          /\ known' = CASE m = "slot" -> [known EXCEPT !.slot = time]
                        [] m = "final" -> [known EXCEPT !.final = TRUE]
                        [] m = "zero" -> [known EXCEPT !.zero = TRUE]
          /\ news' = news \ {m}
    BY <1>3 DEF CpMessage
  <2>2. UNCHANGED <<time, isFinal, noBids, gone, pctx, cpc, cctx, stop, stopNews, missed,
                    attempts>> /\ cpc = "wait"
    BY <1>3 DEF CpMessage, cpChain
  <2>3. /\ known' \in [slot : 0 .. CpMaxSlot, final : BOOLEAN, zero : BOOLEAN]
        /\ known'.slot <= time
    <3>1. CASE m = "slot"
      BY <1>0, <2>1, <3>1, CrankPayoutAssumption
    <3>2. CASE m = "final"
      BY <1>0, <2>1, <3>2, CrankPayoutAssumption
    <3>3. CASE m = "zero"
      BY <1>0, <2>1, <3>3, CrankPayoutAssumption
    <3>4. QED
      BY <1>0, <3>1, <3>2, <3>3
  <2>4. QED
    BY <1>0, <2>1, <2>2, <2>3, CpTaskMoves
<1>4. CASE CpLeaves
  <2>1. /\ UNCHANGED <<time, isFinal, noBids, gone, pctx, attempts, stopNews, missed, known,
                       news>>
        /\ ~CpWaiting \/ pctx = "done" \/ "nil" \in news
        /\ \/ cpc' \in {"end", "hung"} /\ UNCHANGED <<cctx, stop>>
           \/ /\ ~known.final /\ ~known.zero
              /\ cpc' = "send" /\ cctx' = pctx /\ stop' = "new"
    BY <1>4, OverTyped DEF CpLeaves, CpGoes, cpChain
  <2>2. CASE cpc' \in {"end", "hung"} /\ UNCHANGED <<cctx, stop>>
    BY <1>0, <2>1, <2>2, CpTaskMoves
  <2>3. CASE ~known.final /\ ~known.zero /\ cpc' = "send" /\ cctx' = pctx /\ stop' = "new"
    <3>1. pctx = "open" => CpFinish < known.slot \/ gone # {}
      BY <1>0, <2>1, <2>3, CrankPayoutAssumption DEF CpWaiting
    <3>2. pctx = "open" => CpFinish < time \/ gone # {}
      BY <1>0, <3>1, CrankPayoutAssumption
    <3>3. QED
      BY <1>0, <2>1, <2>3, <3>2, CpTaskMoves
  <2>4. QED
    BY <2>1, <2>2, <2>3
<1>5. CASE CpFails
  <2>1. /\ UNCHANGED <<time, isFinal, noBids, gone, pctx, attempts, stopNews, missed, known,
                       cctx, stop, news>>
        /\ cpc' \in {"end", "hung"}
    BY <1>5, OverTyped DEF CpFails, CpGoes, cpChain
  <2>2. QED
    BY <1>0, <2>1, CpTaskMoves
<1>6. QED
  BY <1>1, <1>2, <1>3, <1>4, <1>5

\* Send returns and closes its context.
LEMMA CpReturns ==
  ASSUME CpInv, CpSent PROVE CpInv'
<1>1. /\ UNCHANGED <<time, isFinal, noBids, gone, pctx, attempts, stopNews, missed, known,
                     stop, news>>
      /\ cpc' \in {"end", "hung"} /\ cctx' = "done" /\ cpc = "send"
  BY OverTyped DEF CpSent, CpGoes, cpChain
<1>2. CpTypeOK' /\ NoEarlyCrank'
  BY <1>1 DEF CpInv, CpTypeOK, NoEarlyCrank
<1>3. CpSound'
  BY <1>1 DEF CpInv, CpSound
<1>4. stop # "none"
  BY <1>1 DEF CpInv, Sending
<1>5. CpHelped'
  BY <1>1, <1>4 DEF CpInv, CpHelped
<1>6. CrankStopped' /\ Sending'
  BY <1>1 DEF CrankStopped, Sending
<1>7. QED
  BY <1>2, <1>3, <1>5, <1>6 DEF CpInv

\* A try is made under an open context, hence after the period, or after the
\* end of an object.
LEMMA CpTryDue ==
  ASSUME CpInv, CpTry PROVE CpInv'
<1>1. /\ cctx = "open" /\ attempts < CpTries /\ attempts' = attempts + 1
      /\ UNCHANGED <<time, noBids, gone, pctx, cpc, known, cctx, stop, missed>>
      /\ attempts \in 0 .. CpTries /\ (CpFinish < time \/ gone # {})
  BY DEF CpTry, SendOpen, CpInv, CpTypeOK, CpSound
<1>2. attempts' \in 0 .. CpTries
  BY <1>1, CrankPayoutAssumption
<1>3. isFinal' \in BOOLEAN
  <2>1. isFinal \in BOOLEAN /\ (isFinal' = isFinal \/ isFinal' = (isFinal \/ CpFinish < time))
    BY DEF CpTry, CpInv, CpTypeOK
  <2>2. QED
    BY <2>1
<1>4. /\ news' \subseteq {"slot", "final", "zero", "nil"}
      /\ "nil" \in news' => gone # {}
      /\ stopNews => stopNews'
      /\ isFinal' /\ ~isFinal /\ stop = "run" /\ "payout" \notin gone => stopNews'
  <2>1. CASE ~isFinal /\ isFinal'
    BY <2>1, TellTyped DEF CpTry
  <2>2. CASE ~(~isFinal /\ isFinal')
    BY <2>2 DEF CpTry, CpInv, CpTypeOK, CpSound
  <2>3. QED
    BY <2>1, <2>2
<1>5. CpTypeOK'
  BY <1>1, <1>2, <1>3, <1>4 DEF CpInv, CpTypeOK
<1>6. NoEarlyCrank'
  BY <1>1 DEF NoEarlyCrank
<1>7. CpSound'
  BY <1>1, <1>4 DEF CpInv, CpSound
<1>8. CpHelped' /\ Sending'
  BY <1>1, <1>4 DEF CpInv, CpHelped, Sending
<1>9. CrankStopped'
  BY <1>1, <1>4 DEF CpInv, CrankStopped, SendOpen, CpHelped
<1>10. QED
  BY <1>5, <1>6, <1>7, <1>8, <1>9 DEF CpInv

\* loopStopCrankOnBidChange closes the context when it ends.
LEMMA CpStops ==
  ASSUME CpInv, CpStop \/ StopFails PROVE CpInv'
<1>1. /\ UNCHANGED <<time, isFinal, noBids, gone, pctx, attempts, cpc, known, news, stopNews>>
      /\ \/ /\ stop = "new" /\ stop' = (IF "payout" \in gone THEN "hung" ELSE "run")
            /\ missed' = isFinal /\ cctx' = cctx
         \/ stop = "run" /\ stop' = "unsub" /\ missed' = missed /\ cctx' = cctx
         \/ stop = "unsub" /\ stop' = "end" /\ missed' = missed /\ cctx' = "done"
         \/ /\ stop = "unsub" /\ stop' = "hung" /\ "payout" \in gone
            /\ missed' = missed /\ cctx' = cctx
  BY DEF CpStop, StopSubscribe, StopSees, StopFails, StopReturns, StopGoes, cpChain
<1>2. CpTypeOK' /\ NoEarlyCrank'
  BY <1>1 DEF CpInv, CpTypeOK, NoEarlyCrank
<1>3. CpSound'
  BY <1>1 DEF CpInv, CpSound
<1>4. CpHelped' /\ Sending'
  BY <1>1 DEF CpInv, CpHelped, Sending
<1>5. CrankStopped'
  BY <1>1 DEF CpInv, CrankStopped, SendOpen
<1>6. QED
  BY <1>2, <1>3, <1>4, <1>5 DEF CpInv

\* CpInv is an invariant of CrankPayout, for every period and number of
\* tries.
THEOREM CpInvariance == CpSpec => []CpInv
<1>1. CpInv /\ [CpNext]_cpVars => CpInv'
  <2> SUFFICES ASSUME CpInv, [CpNext]_cpVars PROVE CpInv'
    OBVIOUS
  <2>1. CASE \/ ChainSlot \/ ChainCranks \/ ChainClosesBids \/ PDone
             \/ \E o \in {"slot", "payout"} : ObjectEnds(o)
    BY <2>1, CpChainMoves
  <2>2. CASE CpSubscribe \/ CpRead \/ CpMessage \/ CpLeaves \/ CpFails
    BY <2>2, CpWaits
  <2>3. CASE CpTry
    BY <2>3, CpTryDue
  <2>4. CASE CpSent
    BY <2>4, CpReturns
  <2>5. CASE CpStop \/ StopFails
    BY <2>5, CpStops
  <2>6. CASE UNCHANGED cpVars
    BY <2>6 DEF CpInv, CpTypeOK, NoEarlyCrank, CpSound, CpHelped, Sending, CrankStopped,
       SendOpen, cpVars, cpChain, cpTask
  <2>7. QED
    BY <2>1, <2>2, <2>3, <2>4, <2>5, <2>6 DEF CpNext
<1>2. QED
  BY CpInitInv, <1>1, PTL DEF CpSpec

\* While Send may still try although the list is final, the helper is about
\* to cancel it, or it has not subscribed yet or hangs on an ended payout, or
\* the list was final when it subscribed.
THEOREM CrankIsStopped == CpSpec => []CrankStopped
<1>1. CpInv => CrankStopped
  BY DEF CpInv
<1>2. QED
  BY <1>1, CpInvariance, PTL

-----------------------------------------------------------------------------
(* Cranker.                                                                *)

\* getNextPeriod finds the start of a period that is over, or nothing.
LEMMA NextPeriodOver ==
  ASSUME NEW slot \in 0 .. CkMaxSlot, NEW ring \in Seq([start : Nat, len : Nat])
  PROVE  /\ getNextPeriod(slot, ring) \in 0 .. CkMaxSlot
         /\ getNextPeriod(slot, ring) # 0 => IsOver(ring, slot)
<1> DEFINE over == {i \in DOMAIN ring : ring[i].start + ring[i].len <= slot}
<1>1. CASE over = {}
  BY <1>1, CrankerAssumption DEF getNextPeriod
<1>2. CASE over # {}
  <2>1. over \in SUBSET Nat
    BY LenProperties
  <2>2. \E i \in over : \A j \in over : i <= j
    <3> HIDE DEF over
    <3>1. QED
      BY <1>2, <2>1, LeastExists
  <2>3. PICK k : k = CHOOSE i \in over : \A j \in over : i <= j
    OBVIOUS
  <2>4. k \in over
    <3> HIDE DEF over
    <3>1. QED
      BY <2>2, <2>3, Zenon
  <2>5. ring[k] \in [start : Nat, len : Nat] /\ ring[k].start + ring[k].len <= slot
    <3>1. k \in DOMAIN ring /\ ring[k].start + ring[k].len <= slot
      BY <2>4
    <3>2. k \in 1 .. Len(ring)
      BY <3>1, LenProperties
    <3>3. ring[k] \in [start : Nat, len : Nat]
      BY <3>2, ElementOfSeq
    <3>4. QED
      BY <3>1, <3>3
  <2>6. ring[k].start \in 0 .. CkMaxSlot
    BY <2>5, CrankerAssumption
  <2>7. getNextPeriod(slot, ring) = ring[k].start
    BY <1>2, <2>3 DEF getNextPeriod
  <2>8. IsOver(ring, slot)
    BY <2>4 DEF IsOver
  <2>9. QED
    BY <2>6, <2>7, <2>8
<1>3. QED
  BY <1>1, <1>2

Status == [known : BOOLEAN, ring : CkRings \cup {<<>>},
           next : 0 .. CkMaxSlot, last : 0 .. CkMaxSlot]

\* No request is later than the attempt that was noted, no attempt is later
\* than the slot, and the first request finds a late period, of which a ring
\* told.
KNoted ==
    /\ kstatus \in [CkPipes -> Status] /\ klate \in [CkPipes -> SUBSET Nat]
    /\ kreq \in Seq(CkPipes) /\ kresp \in Seq(CkPipes) /\ kwork \in Seq(CkPipes)
    /\ kloop = "init" => \A p \in CkPipes : klate[p] = {}
    /\ \A p \in CkPipes : \A a \in klate[p] :
          a <= kstatus[p].last /\ kstatus[p].next # 0
    /\ \A p \in CkPipes : kstatus[p].next # 0 => p \in kover

KInv == KTypeOK /\ CrankPaced /\ KNoted

LEMMA KInitInv == KInit => KInv
<1> SUFFICES ASSUME KInit PROVE KInv
  OBVIOUS
<1>1. NoStatus \in Status
  BY CrankerAssumption DEF NoStatus, Status
<1>2. <<>> \in Seq(CkPipes) /\ Len(<<>>) = 0
  OBVIOUS
<1>3. kstatus \in [CkPipes -> Status] /\ klate \in [CkPipes -> SUBSET Nat]
  BY <1>1 DEF KInit
<1>4. \A p \in CkPipes : kstatus[p] = NoStatus /\ klate[p] = {}
  BY DEF KInit
<1>5. KTypeOK
  BY <1>2, <1>4, CrankerAssumption DEF KInit, KTypeOK, NoStatus
<1>6. CrankPaced
  BY <1>4 DEF CrankPaced
<1>7. KNoted
  BY <1>2, <1>3, <1>4 DEF KInit, KNoted, NoStatus
<1>8. QED
  BY <1>5, <1>6, <1>7 DEF KInv

\* The status of the pipelines and the history of requests decide.
KCore(status, late, slot, over) ==
    /\ slot \in 0 .. CkMaxSlot
    /\ status \in [CkPipes -> Status] /\ late \in [CkPipes -> SUBSET Nat]
    /\ \A p \in CkPipes : \A a \in late[p] :
          a <= status[p].last /\ status[p].next # 0
    /\ \A p \in CkPipes : status[p].next # 0 => p \in over
    /\ \A p \in CkPipes : \A a, b \in late[p] :
          a # b => a + RETRY_SLOT < b \/ b + RETRY_SLOT < a

\* The channels and the places of the goroutines.
KShape ==
    /\ kctx \in {"open", "done"} /\ kloop \in {"init", "run", "slot", "dead", "hung"}
    /\ kdue \subseteq CkPipes /\ kworker \in {"run", "dead"}
    /\ kreq \in Seq(CkPipes) /\ kresp \in Seq(CkPipes) /\ kwork \in Seq(CkPipes)
    /\ Len(kreq) <= 1 /\ Len(kresp) <= 1 /\ Len(kwork) <= 1

LEMMA KInvSplit ==
  ASSUME KInv
  PROVE  /\ KShape /\ KCore(kstatus, klate, kslot, kover)
         /\ kloop = "init" => \A p \in CkPipes : klate[p] = {}
BY DEF KInv, KTypeOK, KNoted, CrankPaced, KShape, KCore

LEMMA KInvNext ==
  ASSUME KShape', KCore(kstatus', klate', kslot', kover'),
         kloop' = "init" => \A p \in CkPipes : klate'[p] = {}
  PROVE  KInv'
<1>1. \A p \in CkPipes :
        /\ kstatus'[p].ring \in CkRings \cup {<<>>}
        /\ kstatus'[p].next \in 0 .. CkMaxSlot /\ kstatus'[p].last \in 0 .. CkMaxSlot
  BY DEF KCore, Status
<1>2. KTypeOK'
  BY <1>1 DEF KTypeOK, KShape, KCore
<1>3. CrankPaced'
  BY DEF CrankPaced, KCore
<1>4. KNoted'
  BY DEF KNoted, KCore, KShape
<1>5. QED
  BY <1>2, <1>3, <1>4 DEF KInv

\* A ring keeps the status well formed, notes no attempt and forgets no late
\* period.
LEMMA OnPeriodTyped ==
  ASSUME NEW st \in Status, NEW ring \in CkRings, NEW slot \in 0 .. CkMaxSlot
  PROVE  /\ OnPeriod(st, ring, slot) \in Status
         /\ OnPeriod(st, ring, slot).last = st.last
         /\ st.next # 0 => OnPeriod(st, ring, slot).next # 0
         /\ OnPeriod(st, ring, slot).next # 0 => st.next # 0 \/ IsOver(ring, slot)
<1>1. PICK n \in 0 .. CkMaxSlot :
        n = getNextPeriod(slot, ring) /\ (n # 0 => IsOver(ring, slot))
  BY NextPeriodOver, CrankerAssumption
<1>2. OnPeriod(st, ring, slot) =
        [st EXCEPT !.known = TRUE, !.ring = ring, !.next = IF n = 0 THEN @ ELSE n]
  BY <1>1 DEF OnPeriod
<1>3. QED
  BY <1>1, <1>2 DEF Status

\* Steps that touch neither a status nor the history.
LEMMA KKeeps ==
  ASSUME KInv, KShape', UNCHANGED <<kslot, kstatus, klate, kover>>,
         kloop' = "init" => kloop = "init"
  PROVE  KInv'
<1>1. /\ KCore(kstatus, klate, kslot, kover)
      /\ kloop = "init" => \A p \in CkPipes : klate[p] = {}
  BY KInvSplit
<1>2. /\ KCore(kstatus', klate', kslot', kover')
      /\ kloop' = "init" => \A p \in CkPipes : klate'[p] = {}
  BY <1>1
<1>3. QED
  BY <1>2, KInvNext

LEMMA KCreates ==
  ASSUME KInv, KCreate PROVE KInv'
<1>1. /\ KShape /\ KCore(kstatus, klate, kslot, kover)
      /\ kloop = "init" /\ \A p \in CkPipes : klate[p] = {}
      /\ UNCHANGED <<kdue, kfunds, kreq, kresp, kwork, kworker, klate>>
  BY KInvSplit DEF KCreate
<1>2. CASE /\ UNCHANGED <<kslot, kstatus, kover>>
           /\ \/ kloop' = "dead" /\ kctx' = "done"
              \/ kloop' = "hung" /\ kctx' = kctx
  <2>1. KShape'
    BY <1>1, <1>2 DEF KShape
  <2>2. QED
    BY <1>1, <1>2, <2>1, KKeeps
<1>3. CASE kloop' = "run"
  <2>1. kloop' = "run" /\ kslot' \in 0 .. CkMaxSlot /\ kctx' = kctx
    BY <1>3 DEF KCreate
  <2>2. PICK f \in [CkPipes -> CkRings \cup {<<>>}] :
          /\ kstatus' = [p \in CkPipes |->
                IF f[p] = <<>> THEN NoStatus ELSE OnPeriod(NoStatus, f[p], kslot')]
          /\ kover' = {p \in CkPipes : IsOver(f[p], kslot')}
    BY <1>3 DEF KCreate
  <2>3. NoStatus \in Status
    BY CrankerAssumption DEF NoStatus, Status
  <2>4. ASSUME NEW p \in CkPipes
        PROVE  kstatus'[p] \in Status /\ (kstatus'[p].next # 0 => p \in kover')
    <3>1. CASE f[p] = <<>>
      BY <2>2, <2>3, <3>1 DEF NoStatus
    <3>2. CASE f[p] # <<>>
      <4>1. f[p] \in CkRings
        BY <3>2
      <4>2. kstatus'[p] = OnPeriod(NoStatus, f[p], kslot')
        BY <2>2, <3>2
      <4>3. NoStatus.next = 0
        BY DEF NoStatus
      <4>4. /\ kstatus'[p] \in Status
            /\ kstatus'[p].next # 0 => IsOver(f[p], kslot')
        BY <2>1, <2>3, <4>1, <4>2, <4>3, OnPeriodTyped
      <4>5. QED
        BY <2>2, <4>4
    <3>3. QED
      BY <3>1, <3>2
  <2>5. kstatus' \in [CkPipes -> Status]
    BY <2>2, <2>4
  <2>6. KCore(kstatus', klate', kslot', kover')
    BY <1>1, <2>1, <2>4, <2>5 DEF KCore
  <2>7. KShape'
    BY <1>1, <2>1 DEF KShape
  <2>8. QED
    BY <2>1, <2>6, <2>7, KInvNext
<1>4. QED
  BY <1>2, <1>3 DEF KCreate

LEMMA KOnPeriod ==
  ASSUME KInv, NEW p \in CkPipes, on_period(p) PROVE KInv'
<1>1. /\ KShape /\ KCore(kstatus, klate, kslot, kover) /\ kloop = "run"
      /\ UNCHANGED <<kctx, kslot, kdue, kfunds, kreq, kresp, kwork, kworker, klate>>
  BY KInvSplit DEF on_period
<1>2. CASE kloop' = "hung" /\ UNCHANGED <<kstatus, kover>>
  <2>1. KShape'
    BY <1>1, <1>2 DEF KShape
  <2>2. QED
    BY <1>1, <1>2, <2>1, KKeeps
<1>3. ASSUME NEW ring \in CkRings, kloop' = kloop,
             kstatus' = [kstatus EXCEPT ![p] = OnPeriod(kstatus[p], ring, kslot)],
             kover' = IF IsOver(ring, kslot) THEN kover \cup {p} ELSE kover
      PROVE  KInv'
  <2>1. kstatus[p] \in Status /\ kslot \in 0 .. CkMaxSlot
    BY <1>1 DEF KCore
  <2>2. PICK st : st = OnPeriod(kstatus[p], ring, kslot)
    OBVIOUS
  <2>3. /\ st \in Status /\ st.last = kstatus[p].last
        /\ kstatus[p].next # 0 => st.next # 0
        /\ st.next # 0 => kstatus[p].next # 0 \/ IsOver(ring, kslot)
    BY <2>1, <2>2, OnPeriodTyped
  <2>4. kstatus' = [kstatus EXCEPT ![p] = st]
    BY <1>3, <2>2
  <2>5. kover \subseteq kover' /\ (st.next # 0 => p \in kover')
    BY <1>1, <1>3, <2>3 DEF KCore
  <2>6. KCore(kstatus', klate', kslot', kover')
    BY <1>1, <2>3, <2>4, <2>5 DEF KCore
  <2>7. KShape'
    BY <1>1, <1>3 DEF KShape
  <2>8. QED
    BY <1>1, <1>3, <2>6, <2>7, KInvNext
<1>4. QED
  BY <1>2, <1>3 DEF on_period

LEMMA KOnSlot ==
  ASSUME KInv, on_slot PROVE KInv'
<1>1. /\ KShape /\ KCore(kstatus, klate, kslot, kover)
      /\ kslot' = kslot + 1 /\ kslot < CkMaxSlot /\ kloop' = "slot"
      /\ kdue' \subseteq CkPipes
      /\ UNCHANGED <<kctx, kstatus, kfunds, kreq, kresp, kwork, kworker, klate, kover>>
  BY KInvSplit DEF on_slot
<1>2. kslot' \in 0 .. CkMaxSlot
  BY <1>1, CrankerAssumption DEF KCore
<1>3. KCore(kstatus', klate', kslot', kover')
  BY <1>1, <1>2 DEF KCore
<1>4. KShape'
  BY <1>1 DEF KShape
<1>5. QED
  BY <1>1, <1>3, <1>4, KInvNext

\* An attempt is noted, and the request, if there is one, is RETRY_SLOT slots
\* after the last attempt and thus after every earlier request.
LEMMA KCranks ==
  ASSUME KInv, NEW p \in CkPipes, CrankSkip(p) \/ CrankSend(p) PROVE KInv'
<1>1. /\ KShape /\ KCore(kstatus, klate, kslot, kover) /\ kloop = "slot"
      /\ UNCHANGED <<kctx, kloop, kslot, kfunds, kresp, kwork, kworker, kover>>
      /\ kdue' \subseteq CkPipes
  BY KInvSplit DEF CrankSkip, CrankSend, KShape
<1>2. /\ kslot \in 0 .. CkMaxSlot /\ kslot \in Nat /\ kstatus \in [CkPipes -> Status]
      /\ kstatus[p] \in Status /\ kstatus[p].last \in Nat /\ klate[p] \subseteq Nat
      /\ klate \in [CkPipes -> SUBSET Nat]
  BY <1>1, CrankerAssumption DEF KCore, Status
<1>3. CASE CrankSkip(p)
  <2>1. /\ UNCHANGED <<kreq, klate>>
        /\ \/ kstatus' = [kstatus EXCEPT ![p].last = kslot] /\ Due(kstatus[p])
           \/ kstatus' = [kstatus EXCEPT ![p].last = kstatus[p].last]
    BY <1>3 DEF CrankSkip
  <2>2. KShape'
    BY <1>1, <2>1 DEF KShape
  <2>3. KCore(kstatus', klate', kslot', kover')
    <3>1. CASE kstatus' = [kstatus EXCEPT ![p].last = kslot] /\ Due(kstatus[p])
      <4>1. kstatus[p].last < kslot
        BY <1>2, <3>1, CrankerAssumption DEF Due
      <4>2. kstatus' \in [CkPipes -> Status]
        BY <1>2, <3>1 DEF Status
      <4>3. ASSUME NEW q \in CkPipes, NEW a \in klate[q]
            PROVE  a <= kstatus'[q].last /\ kstatus'[q].next # 0
        <5>1. /\ a \in Nat /\ a <= kstatus[q].last /\ kstatus[q].next # 0
              /\ kstatus[q] \in Status
          BY <1>1, <1>2 DEF KCore
        <5>2. CASE q = p
          BY <1>2, <3>1, <4>1, <5>1, <5>2 DEF Status
        <5>3. CASE q # p
          BY <1>2, <3>1, <5>1, <5>3
        <5>4. QED
          BY <5>2, <5>3
      <4>4. \A q \in CkPipes : kstatus'[q].next = kstatus[q].next
        BY <1>2, <3>1 DEF Status
      <4>5. QED
        BY <1>1, <2>1, <4>2, <4>3, <4>4 DEF KCore
    <3>2. CASE kstatus' = [kstatus EXCEPT ![p].last = kstatus[p].last]
      <4>1. kstatus' = kstatus
        BY <1>2, <3>2 DEF Status
      <4>2. QED
        BY <1>1, <2>1, <4>1
    <3>3. QED
      BY <2>1, <3>1, <3>2
  <2>4. QED
    BY <1>1, <2>2, <2>3, KInvNext
<1>4. CASE CrankSend(p)
  <2>1. /\ kstatus' = [kstatus EXCEPT ![p].last = kslot] /\ Due(kstatus[p])
        /\ \/ /\ Len(kreq) < 1 /\ kreq' = Append(kreq, p)
              /\ klate' = [klate EXCEPT ![p] = klate[p] \cup {kslot}]
           \/ UNCHANGED <<kreq, klate>>
    BY <1>4 DEF CrankSend
  <2>2. KShape'
    <3>1. kreq' \in Seq(CkPipes) /\ Len(kreq') <= 1
      BY <1>1, <2>1, AppendProperties, LenProperties DEF KShape
    <3>2. QED
      BY <1>1, <3>1 DEF KShape
  <2>3. kstatus[p].last + RETRY_SLOT < kslot /\ kstatus[p].next # 0
    BY <2>1 DEF Due
  <2>4. kstatus' \in [CkPipes -> Status] /\ klate' \in [CkPipes -> SUBSET Nat]
    BY <1>2, <2>1 DEF Status
  <2>5. \A q \in CkPipes : klate'[q] = klate[q] \/ (q = p /\ klate'[q] = klate[q] \cup {kslot})
    <3>1. CASE UNCHANGED <<kreq, klate>>
      BY <3>1
    <3>2. CASE klate' = [klate EXCEPT ![p] = klate[p] \cup {kslot}]
      BY <1>2, <3>2
    <3>3. QED
      BY <2>1, <3>1, <3>2
  <2>6. \A a \in klate[p] : a \in Nat /\ a + RETRY_SLOT < kslot
    BY <1>1, <1>2, <2>3, CrankerAssumption DEF KCore
  <2>7. ASSUME NEW q \in CkPipes, NEW a \in klate'[q]
        PROVE  a <= kstatus'[q].last /\ kstatus'[q].next # 0
    <3>1. CASE q = p
      <4>1. kstatus'[q].last = kslot /\ kstatus'[q].next = kstatus[q].next
        BY <1>2, <2>1, <3>1 DEF Status
      <4>2. a <= kslot
        BY <1>2, <2>5, <2>6, <3>1, CrankerAssumption
      <4>3. QED
        BY <2>3, <3>1, <4>1, <4>2
    <3>2. CASE q # p
      BY <1>1, <1>2, <2>1, <2>5, <3>2 DEF KCore
    <3>3. QED
      BY <3>1, <3>2
  <2>8. ASSUME NEW q \in CkPipes, NEW a \in klate'[q], NEW b \in klate'[q], a # b
        PROVE  a + RETRY_SLOT < b \/ b + RETRY_SLOT < a
    <3>1. CASE a \in klate[q] /\ b \in klate[q]
      BY <1>1, <2>8, <3>1 DEF KCore
    <3>2. CASE ~(a \in klate[q] /\ b \in klate[q])
      BY <2>5, <2>6, <2>8, <3>2
    <3>3. QED
      BY <3>1, <3>2
  <2>9. \A q \in CkPipes : kstatus'[q].next = kstatus[q].next
    BY <1>2, <2>1 DEF Status
  <2>10. KCore(kstatus', klate', kslot', kover')
    BY <1>1, <1>2, <2>4, <2>7, <2>8, <2>9 DEF KCore
  <2>11. QED
    BY <1>1, <2>2, <2>10, KInvNext
<1>5. QED
  BY <1>3, <1>4

\* The worker, the channels and the end.
LEMMA KOthers ==
  ASSUME KInv,
         \/ KDone \/ on_balance \/ KEnds \/ SlotReturns \/ OnResponse
         \/ WorkerTakes \/ WorkerAnswers \/ WorkerEnds
  PROVE  KInv'
<1>1. KShape
  BY KInvSplit
<1>2. UNCHANGED <<kslot, kstatus, klate, kover>> /\ (kloop' = "init" => kloop = "init")
  BY DEF KDone, on_balance, KEnds, SlotReturns, OnResponse, WorkerTakes,
     WorkerAnswers, WorkerEnds
<1>3. <<>> \in Seq(CkPipes) /\ Len(<<>>) = 0
  OBVIOUS
<1>4. KShape'
  <2>1. CASE KDone \/ on_balance \/ KEnds \/ SlotReturns \/ WorkerEnds
    BY <1>1, <2>1 DEF KShape, KDone, on_balance, KEnds, SlotReturns, WorkerEnds
  <2>2. CASE OnResponse
    BY <1>1, <1>3, <2>2 DEF KShape, OnResponse
  <2>3. CASE WorkerTakes
    BY <1>1, <1>3, <2>3 DEF KShape, WorkerTakes
  <2>4. CASE WorkerAnswers
    BY <1>1, <1>3, <2>4 DEF KShape, WorkerAnswers
  <2>5. QED
    BY <2>1, <2>2, <2>3, <2>4
<1>5. QED
  BY <1>2, <1>4, KKeeps

\* KInv is an invariant of the cranker, for any pipelines, rings and delay.
THEOREM KInvariance == KSpec => []KInv
<1>1. KInv /\ [KNext]_crankVars => KInv'
  <2> SUFFICES ASSUME KInv, [KNext]_crankVars PROVE KInv'
    OBVIOUS
  <2>1. CASE KCreate
    BY <2>1, KCreates
  <2>2. CASE on_slot
    BY <2>2, KOnSlot
  <2>3. ASSUME NEW p \in CkPipes, on_period(p) PROVE KInv'
    BY <2>3, KOnPeriod
  <2>4. ASSUME NEW p \in CkPipes, CrankSkip(p) \/ CrankSend(p) PROVE KInv'
    BY <2>4, KCranks
  <2>5. CASE \/ KDone \/ on_balance \/ KEnds \/ SlotReturns \/ OnResponse
             \/ WorkerTakes \/ WorkerAnswers \/ WorkerEnds
    BY <2>5, KOthers
  <2>6. CASE UNCHANGED crankVars
    BY <2>6 DEF KInv, KTypeOK, CrankPaced, KNoted, crankVars
  <2>7. QED
    BY <2>1, <2>2, <2>3, <2>4, <2>5, <2>6 DEF KNext, KLoop, KWorker
<1>2. QED
  BY KInitInv, <1>1, PTL DEF KSpec

\* The cranker and CrankPayout crank when it is due: the cranker asks for a
\* pipeline only after it was told a ring with a period that was over, and not
\* again within RETRY_SLOT slots; and CrankPayout submits nothing before the
\* period is over, unless the slot home or the payout object has ended.
THEOREM CranksAreDue == KSpec /\ CpSpec => []CranksDue
<1>1. KInv /\ CpInv => CranksDue
  BY DEF KInv, CpInv, CranksDue
<1>2. QED
  BY <1>1, KInvariance, CpInvariance, PTL

-----------------------------------------------------------------------------
(* PipelineAgent.                                                          *)

Sched == [left : SUBSET PayoutTriggers, hold : PayoutTriggers \cup {NoEvent}]

\* Before the payouts are listed nothing runs.
PaQuiet ==
    aloop \in {"sub", "list"} =>
        errs = 0 /\ tasks = 0 /\ \A p \in PaPayouts : scheds[p] = <<>>

PaTyped ==
    /\ scheds \in [PaPayouts -> Seq(Sched)]
    /\ started \in [PaPayouts \X PayoutTriggers -> Nat]
    /\ tasks \in Nat /\ feed \in Seq(exists)

\* While the agent lives a payout has at most one scheduler, none before it
\* is known, and what a scheduler has still to emit has not been acted upon.
OneScheduler ==
    actx = "open" => \A p \in PaPayouts :
        /\ Len(scheds[p]) <= 1
        /\ p \notin payoutM =>
              scheds[p] = <<>> /\ \A t \in PayoutTriggers : started[<<p, t>>] = 0
        /\ \A i \in 1 .. Len(scheds[p]) : \A t \in scheds[p][i].left :
              started[<<p, t>>] = 0 /\ scheds[p][i].hold # t

\* A payout that was deleted may get a second scheduler when the agent ends;
\* that one can no longer emit.  A trigger that is held has not been acted
\* upon either.
HeldFresh ==
    \A p \in PaPayouts : \A i \in 1 .. Len(scheds[p]) :
        /\ i > 1 => scheds[p][i].hold = NoEvent
        /\ scheds[p][i].hold # NoEvent => started[<<p, scheds[p][i].hold>>] = 0

PaInv == PaTypeOK /\ OneTransaction /\ PaQuiet /\ PaTyped /\ OneScheduler /\ HeldFresh

LEMMA PaInitInv == PaInit => PaInv
<1> SUFFICES ASSUME PaInit PROVE PaInv
  OBVIOUS
<1>1. \A p \in PaPayouts : scheds[p] = <<>>
  BY DEF PaInit
<1>2. <<>> \in Seq(Sched) /\ <<>> \in Seq(exists) /\ Len(<<>>) = 0
  OBVIOUS
<1>3. /\ started \in [PaPayouts \X PayoutTriggers -> Nat]
      /\ \A p \in PaPayouts, t \in PayoutTriggers : started[<<p, t>>] = 0
  BY DEF PaInit
<1>4. PaTypeOK
  BY PipelineAgentAssumption DEF PaInit, PaTypeOK
<1>5. OneTransaction
  <2>1. ASSUME NEW p \in PaPayouts, NEW t \in PayoutTriggers
        PROVE  started[<<p, t>>] <= 1
    <3>1. started[<<p, t>>] = 0
      BY <1>3
    <3>2. QED
      BY <3>1
  <2>2. QED
    BY <2>1 DEF OneTransaction
<1>6. PaQuiet
  BY <1>1 DEF PaInit, PaQuiet
<1>7. PaTyped
  BY <1>2, <1>3 DEF PaInit, PaTyped
<1>8. OneScheduler /\ HeldFresh
  BY <1>1, <1>2, <1>3 DEF OneScheduler, HeldFresh
<1>9. QED
  BY <1>4, <1>5, <1>6, <1>7, <1>8 DEF PaInv

\* Steps that leave the schedulers and the history alone: the context may
\* end, and payouts are forgotten only then.
LEMMA PaKeeps ==
  ASSUME PaInv, UNCHANGED <<scheds, started>>, PaTypeOK', PaQuiet',
         actx' = "open" => actx = "open" /\ payoutM' = payoutM,
         tasks' \in Nat, feed' \in Seq(exists')
  PROVE  PaInv'
<1>1. OneTransaction' /\ PaTyped' /\ HeldFresh'
  BY DEF PaInv, OneTransaction, PaTyped, HeldFresh
<1>2. OneScheduler'
  BY DEF PaInv, OneScheduler
<1>3. QED
  BY <1>1, <1>2 DEF PaInv

\* The steps of loopInternal and of the rest that do not touch a scheduler.
LEMMA PaLoops ==
  ASSUME PaInv,
         \/ PaDone \/ PaSubscribe \/ LookPasses \/ on_pipeline_event
         \/ OnPeriodSettings \/ OnRateSettings \/ SchedulerTakesLook \/ TaskEnds
         \/ PaSlotLost \/ \E h \in homes : PaHomeEnds(h)
  PROVE  PaInv'
<1>0. /\ PaTypeOK /\ PaQuiet /\ tasks \in Nat /\ errs \in 0 .. PaErrCap
      /\ feed \in Seq(exists) /\ appends \in 0 .. PaMaxAppend
  BY DEF PaInv, PaTypeOK, PaTyped
<1>1. UNCHANGED <<scheds, started, payoutM, exists, feed>>
  BY DEF PaDone, PaSubscribe, LookPasses, on_pipeline_event, OnPeriodSettings,
     OnRateSettings, SchedulerTakesLook, TaskEnds,
     PaSlotLost, PaHomeEnds
<1>2. actx' = "open" => actx = "open"
  BY DEF PaDone, PaSubscribe, LookPasses, on_pipeline_event, OnPeriodSettings,
     OnRateSettings, SchedulerTakesLook, TaskEnds,
     PaSlotLost, PaHomeEnds
<1>3. /\ errs' \in 0 .. PaErrCap /\ tasks' \in Nat /\ appends' \in 0 .. PaMaxAppend
      /\ actx' \in {"open", "done"} /\ lookC' \in 0 .. 1
      /\ aloop' \in {"sub", "list", "run", "self", "look", "dead", "hung"}
      /\ settings' \subseteq {"period", "rate"} /\ homes' \subseteq homes
  <2>0. homes' \subseteq homes
    BY DEF PaDone, PaSubscribe, LookPasses, on_pipeline_event, OnPeriodSettings,
       OnRateSettings, SchedulerTakesLook, TaskEnds, PaSlotLost, PaHomeEnds
  <2>1. CASE PaDone \/ PaSubscribe \/ SchedulerTakesLook
    <3>1. UNCHANGED <<errs, tasks, appends, settings>>
      BY <2>1 DEF PaDone, PaSubscribe, SchedulerTakesLook
    <3>2. /\ actx' \in {"open", "done"} /\ lookC' \in 0 .. 1
          /\ aloop' \in {"sub", "list", "run", "self", "look", "dead", "hung"}
      BY <1>0, <2>1 DEF PaTypeOK, PaDone, PaSubscribe, SchedulerTakesLook
    <3>3. QED
      BY <1>0, <2>0, <3>1, <3>2 DEF PaTypeOK
  <2>2. CASE LookPasses
    BY <1>0, <2>0, <2>2 DEF PaTypeOK, LookPasses
  <2>3. CASE OnPeriodSettings \/ OnRateSettings
    <3>1. UNCHANGED <<errs, tasks, appends, actx>>
      BY <2>3 DEF OnPeriodSettings, OnRateSettings
    <3>2. /\ lookC' \in 0 .. 1
          /\ aloop' \in {"sub", "list", "run", "self", "look", "dead", "hung"}
      BY <1>0, <2>3 DEF PaTypeOK, OnPeriodSettings, OnRateSettings
    <3>3. settings' \subseteq {"period", "rate"}
      BY <1>0, <2>3 DEF PaTypeOK, OnPeriodSettings, OnRateSettings
    <3>4. QED
      BY <1>0, <2>0, <3>1, <3>2, <3>3 DEF PaTypeOK
  <2>4. CASE on_pipeline_event
    <3>1. UNCHANGED <<actx, lookC, settings>>
      BY <2>4 DEF on_pipeline_event
    <3>2. appends' \in 0 .. PaMaxAppend /\ tasks' \in Nat
      BY <1>0, <2>4, PipelineAgentAssumption DEF on_pipeline_event
    <3>3. errs' \in 0 .. PaErrCap
      BY <1>0, <2>4, PipelineAgentAssumption DEF on_pipeline_event, SelfReport
    <3>4. aloop' \in {"sub", "list", "run", "self", "look", "dead", "hung"}
      BY <1>0, <2>4 DEF on_pipeline_event, SelfReport, PaTypeOK
    <3>5. QED
      BY <1>0, <2>0, <3>1, <3>2, <3>3, <3>4 DEF PaTypeOK
  <2>5. CASE TaskEnds
    BY <1>0, <2>0, <2>5, PipelineAgentAssumption DEF PaTypeOK, TaskEnds
  <2>6. CASE PaSlotLost \/ \E h \in homes : PaHomeEnds(h)
    <3>1. UNCHANGED <<errs, tasks, appends, settings, actx, lookC>>
      BY <2>6 DEF PaSlotLost, PaHomeEnds
    <3>2. aloop' = aloop \/ aloop' = "hung"
      BY <2>6 DEF PaSlotLost, PaHomeEnds
    <3>3. QED
      BY <1>0, <2>0, <3>1, <3>2 DEF PaTypeOK
  <2>7. QED
    BY <2>0, <2>1, <2>2, <2>3, <2>4, <2>5, <2>6
<1>4. PaTypeOK'
  BY <1>0, <1>1, <1>3 DEF PaTypeOK
<1>5. PaQuiet'
  <2>1. CASE aloop' \notin {"sub", "list"}
    BY <2>1 DEF PaQuiet
  <2>2. CASE aloop' \in {"sub", "list"}
    <3>1. aloop \in {"sub", "list"}
      BY <2>2 DEF PaDone, PaSubscribe, LookPasses, on_pipeline_event, SelfReport,
         OnPeriodSettings, OnRateSettings, SchedulerTakesLook, TaskEnds,
     PaSlotLost, PaHomeEnds
    <3>2. errs = 0 /\ tasks = 0 /\ \A p \in PaPayouts : scheds[p] = <<>>
      BY <1>0, <3>1 DEF PaQuiet
    <3>3. errs' = errs /\ tasks' = tasks
      BY <3>1, <3>2 DEF PaDone, PaSubscribe, LookPasses, on_pipeline_event,
         OnPeriodSettings, OnRateSettings, SchedulerTakesLook, TaskEnds,
     PaSlotLost, PaHomeEnds
    <3>4. QED
      BY <1>1, <3>2, <3>3 DEF PaQuiet
  <2>3. QED
    BY <2>1, <2>2
<1>6. feed' \in Seq(exists')
  BY <1>0, <1>1
<1>7. QED
  BY <1>1, <1>2, <1>3, <1>4, <1>5, <1>6, PaKeeps

LEMMA PaChain ==
  ASSUME PaInv, NEW p \in PaPayouts, PaChainPayout(p) PROVE PaInv'
<1>1. /\ exists' = exists \cup {p}
      /\ feed' = feed \/ feed' = Append(feed, p)
      /\ UNCHANGED <<actx, aloop, homes, payoutM, scheds, settings, appends, lookC, errs,
                     tasks, started>>
  BY DEF PaChainPayout
<1>2. feed' \in Seq(exists')
  <2>1. exists \subseteq exists' /\ feed \in Seq(exists) /\ p \in exists'
    BY <1>1 DEF PaInv, PaTyped
  <2>2. feed \in Seq(exists')
    BY <2>1, SeqMonotone
  <2>3. QED
    BY <1>1, <2>1, <2>2, AppendProperties
<1>3. PaTypeOK'
  BY <1>1 DEF PaInv, PaTypeOK
<1>4. PaQuiet' /\ tasks' \in Nat
  BY <1>1 DEF PaInv, PaQuiet, PaTyped
<1>5. QED
  BY <1>1, <1>2, <1>3, <1>4, PaKeeps

LEMMA PaLeaves ==
  ASSUME PaInv,
         \/ \E p \in PaPayouts : OnDeletePayout(p)
         \/ \E w \in {"error", "done", "sub"} : PaEnds(w)
  PROVE  PaInv'
<1>0. /\ PaTypeOK /\ tasks \in Nat /\ errs \in 0 .. PaErrCap /\ feed \in Seq(exists)
  BY DEF PaInv, PaTypeOK, PaTyped
<1>1. /\ UNCHANGED <<homes, exists, feed, scheds, settings, appends, lookC, tasks, started>>
      /\ aloop' \in {"run", "dead"} /\ actx' = "done" /\ payoutM' \subseteq payoutM
  <2>1. CASE \E p \in PaPayouts : OnDeletePayout(p)
    BY <2>1 DEF OnDeletePayout
  <2>2. CASE \E w \in {"error", "done", "sub"} : PaEnds(w)
    BY <2>2 DEF PaEnds
  <2>3. QED
    BY <2>1, <2>2
<1>2. errs' \in 0 .. PaErrCap
  BY <1>0, PipelineAgentAssumption DEF OnDeletePayout, PaEnds
<1>3. PaTypeOK'
  BY <1>0, <1>1, <1>2 DEF PaTypeOK
<1>4. PaQuiet'
  BY <1>1 DEF PaQuiet
<1>5. QED
  BY <1>0, <1>1, <1>3, <1>4, PaKeeps

\* A payout that is reported again gets no second scheduler.
LEMMA PaNewPayouts ==
  ASSUME PaInv, NEW P, P \subseteq exists, OnPayouts(P), aloop' = "run",
         UNCHANGED <<actx, homes, exists, settings, appends, lookC, tasks, started>>,
         errs' \in 0 .. PaErrCap, feed' \in Seq(exists)
  PROVE  PaInv'
<1>0. /\ PaTypeOK /\ scheds \in [PaPayouts -> Seq(Sched)]
      /\ exists \subseteq PaPayouts
  BY DEF PaInv, PaTypeOK, PaTyped
<1>1. /\ payoutM' = payoutM \cup P
      /\ scheds' = [p \in PaPayouts |->
            IF p \in P \ payoutM THEN Append(scheds[p], NewSched) ELSE scheds[p]]
  BY DEF OnPayouts, Started
<1>2. NewSched \in Sched /\ NewSched.left = PayoutTriggers /\ NewSched.hold = NoEvent
  BY DEF NewSched, Sched
<1>3. ASSUME NEW p \in PaPayouts
      PROVE  /\ scheds'[p] \in Seq(Sched) /\ scheds[p] \in Seq(Sched)
             /\ Len(scheds[p]) \in Nat
             /\ \/ scheds'[p] = scheds[p] /\ p \notin P \ payoutM
                \/ /\ p \in P \ payoutM /\ Len(scheds'[p]) = Len(scheds[p]) + 1
                   /\ \A i \in 1 .. Len(scheds[p]) : scheds'[p][i] = scheds[p][i]
                   /\ scheds'[p][Len(scheds[p]) + 1] = NewSched
  <2>1. scheds[p] \in Seq(Sched) /\ Len(scheds[p]) \in Nat
    BY <1>0, LenProperties
  <2>2. CASE p \in P \ payoutM
    <3>1. scheds'[p] = Append(scheds[p], NewSched)
      BY <1>1, <2>2
    <3>2. QED
      BY <1>2, <2>1, <2>2, <3>1, AppendProperties
  <2>3. CASE p \notin P \ payoutM
    BY <1>1, <2>1, <2>3
  <2>4. QED
    BY <2>2, <2>3
<1>4. PaTypeOK'
  BY <1>0, <1>1 DEF PaTypeOK
<1>5. PaQuiet'
  BY DEF PaQuiet
<1>6. PaTyped'
  <2>1. scheds' \in [PaPayouts -> Seq(Sched)]
    BY <1>1, <1>3
  <2>2. QED
    BY <2>1 DEF PaInv, PaTyped
<1>7. OneTransaction'
  BY DEF PaInv, OneTransaction
<1>8. HeldFresh'
  <2>1. ASSUME NEW p \in PaPayouts, NEW i \in 1 .. Len(scheds'[p])
        PROVE  /\ i > 1 => scheds'[p][i].hold = NoEvent
               /\ scheds'[p][i].hold # NoEvent => started[<<p, scheds'[p][i].hold>>] = 0
    <3>1. CASE i \in 1 .. Len(scheds[p]) /\ scheds'[p][i] = scheds[p][i]
      BY <3>1 DEF PaInv, HeldFresh
    <3>2. CASE scheds'[p][i] = NewSched
      BY <1>2, <3>2
    <3>3. QED
      BY <1>3, <3>1, <3>2
  <2>2. QED
    BY <2>1 DEF HeldFresh
<1>9. OneScheduler'
  <2>1. ASSUME actx = "open", NEW p \in PaPayouts
        PROVE  /\ Len(scheds'[p]) <= 1
               /\ p \notin payoutM' =>
                     /\ scheds'[p] = <<>>
                     /\ \A t \in PayoutTriggers : started[<<p, t>>] = 0
               /\ \A i \in 1 .. Len(scheds'[p]) : \A t \in scheds'[p][i].left :
                     started[<<p, t>>] = 0 /\ scheds'[p][i].hold # t
    <3>1. CASE scheds'[p] = scheds[p] /\ p \notin P \ payoutM
      BY <1>1, <2>1, <3>1 DEF PaInv, OneScheduler
    <3>2. CASE p \in P \ payoutM
      <4>1. scheds[p] = <<>> /\ p \notin payoutM
        BY <2>1, <3>2 DEF PaInv, OneScheduler
      <4>2. Len(scheds[p]) = 0
        BY <4>1
      <4>3. Len(scheds'[p]) = 1 /\ scheds'[p][1] = NewSched /\ p \in payoutM'
        BY <1>1, <1>3, <3>2, <4>2
      <4>4. ASSUME NEW t \in PayoutTriggers
            PROVE  started[<<p, t>>] = 0 /\ NewSched.hold # t
        <5>1. NewSched.hold # t
          BY <1>2 DEF PayoutTriggers, NoEvent
        <5>2. started[<<p, t>>] = 0
          BY <2>1, <4>1 DEF PaInv, OneScheduler
        <5>3. QED
          BY <5>1, <5>2
      <4>5. QED
        BY <1>2, <4>3, <4>4
    <3>3. QED
      BY <1>3, <3>1, <3>2
  <2>2. QED
    BY <2>1 DEF OneScheduler
<1>10. QED
  BY <1>4, <1>5, <1>6, <1>7, <1>8, <1>9 DEF PaInv

LEMMA PaPayoutSteps ==
  ASSUME PaInv, PaOnPayout \/ PaList PROVE PaInv'
<1>0. /\ PaTypeOK /\ PaQuiet /\ feed \in Seq(exists) /\ errs \in 0 .. PaErrCap
      /\ tasks \in Nat /\ exists \subseteq PaPayouts
  BY DEF PaInv, PaTypeOK, PaTyped
<1>1. CASE PaOnPayout
  <2>1. /\ feed # <<>> /\ OnPayouts({Head(feed)}) /\ feed' = Tail(feed)
        /\ aloop' = "run"
        /\ UNCHANGED <<actx, homes, exists, settings, appends, lookC, tasks, started>>
        /\ errs' = errs
    BY <1>1 DEF PaOnPayout
  <2>2. {Head(feed)} \subseteq exists /\ feed' \in Seq(exists)
    BY <1>0, <2>1, TailTyped
  <2>3. QED
    BY <1>0, <2>1, <2>2, PaNewPayouts
<1>2. CASE PaList
  <2>1. /\ aloop = "list" /\ aloop' = "run"
        /\ UNCHANGED <<actx, homes, exists, feed, settings, appends, lookC, tasks, started>>
        /\ \/ OnPayouts(exists) /\ errs' = errs
           \/ errs' = errs + 1 /\ UNCHANGED <<payoutM, scheds>>
    BY <1>2 DEF PaList
  <2>2. CASE OnPayouts(exists) /\ errs' = errs
    BY <1>0, <2>1, <2>2, PaNewPayouts
  <2>3. CASE errs' = errs + 1 /\ UNCHANGED <<payoutM, scheds>>
    <3>1. errs' \in 0 .. PaErrCap
      BY <1>0, <2>1, <2>3, PipelineAgentAssumption DEF PaQuiet
    <3>2. PaTypeOK'
      BY <1>0, <2>1, <2>3, <3>1 DEF PaTypeOK
    <3>3. PaQuiet'
      BY <2>1 DEF PaQuiet
    <3>4. QED
      BY <1>0, <2>1, <2>3, <3>2, <3>3, PaKeeps
  <2>4. QED
    BY <2>1, <2>2, <2>3
<1>3. QED
  BY <1>1, <1>2

\* A scheduler of one payout moves.
LEMMA SchedMoves ==
  ASSUME PaInv, NEW p \in PaPayouts, NEW k \in 1 .. Len(scheds[p]), NEW r \in Sched,
         scheds' = [scheds EXCEPT ![p] = [scheds[p] EXCEPT ![k] = r]]
  PROVE  /\ scheds' \in [PaPayouts -> Seq(Sched)]
         /\ \A q \in PaPayouts : /\ Len(scheds'[q]) = Len(scheds[q])
                                 /\ q # p => scheds'[q] = scheds[q]
         /\ scheds'[p] # <<>> /\ scheds[p] # <<>>
         /\ \A i \in 1 .. Len(scheds[p]) :
              scheds'[p][i] = IF i = k THEN r ELSE scheds[p][i]
         /\ Len(scheds[p]) \in Nat
<1>1. scheds \in [PaPayouts -> Seq(Sched)] /\ scheds[p] \in Seq(Sched)
  BY DEF PaInv, PaTyped
<1>2. PICK s : s = [scheds[p] EXCEPT ![k] = r]
  OBVIOUS
<1>3. /\ s \in Seq(Sched) /\ Len(s) = Len(scheds[p])
      /\ \A i \in 1 .. Len(scheds[p]) : s[i] = IF i = k THEN r ELSE scheds[p][i]
      /\ Len(scheds[p]) \in Nat
  BY <1>1, <1>2, ExceptSeq, LenProperties
<1>4. scheds' = [scheds EXCEPT ![p] = s]
  BY <1>2
<1>5. /\ scheds' \in [PaPayouts -> Seq(Sched)] /\ scheds'[p] = s
      /\ \A q \in PaPayouts : q # p => scheds'[q] = scheds[q]
  BY <1>1, <1>3, <1>4
<1>6. scheds[p] # <<>> /\ s # <<>>
  BY <1>3
<1>7. QED
  BY <1>3, <1>5, <1>6

\* The schedulers emit while the agent lives, and then a payout has one.
LEMMA PaSchedEmits ==
  ASSUME PaInv, NEW p \in PaPayouts, NEW k \in DOMAIN scheds[p], SchedEmits(p, k)
  PROVE  PaInv'
<1>0. /\ scheds \in [PaPayouts -> Seq(Sched)] /\ scheds[p] \in Seq(Sched)
      /\ k \in 1 .. Len(scheds[p]) /\ scheds[p][k] \in Sched
  <2>1. scheds \in [PaPayouts -> Seq(Sched)] /\ scheds[p] \in Seq(Sched)
    BY DEF PaInv, PaTyped
  <2>2. k \in 1 .. Len(scheds[p])
    BY <2>1, LenProperties
  <2>3. QED
    BY <2>1, <2>2, ElementOfSeq
<1>1. PICK t \in scheds[p][k].left :
        scheds' = [scheds EXCEPT ![p][k].hold = t, ![p][k].left = @ \ {t}]
  BY DEF SchedEmits
<1>2. /\ scheds[p][k].hold = NoEvent /\ actx = "open"
      /\ UNCHANGED <<actx, aloop, homes, exists, feed, payoutM, settings, appends, lookC,
                     errs, tasks, started>>
  BY DEF SchedEmits
<1>3. PICK r : r = [left |-> scheds[p][k].left \ {t}, hold |-> t]
  OBVIOUS
<1>4. t \in PayoutTriggers /\ r \in Sched /\ r.hold = t /\ r.left = scheds[p][k].left \ {t}
  BY <1>0, <1>1, <1>3 DEF Sched
<1>5. scheds' = [scheds EXCEPT ![p] = [scheds[p] EXCEPT ![k] = r]]
  BY <1>0, <1>1, <1>3 DEF Sched
<1>6. /\ scheds' \in [PaPayouts -> Seq(Sched)]
      /\ \A q \in PaPayouts : /\ Len(scheds'[q]) = Len(scheds[q])
                              /\ q # p => scheds'[q] = scheds[q]
      /\ scheds'[p] # <<>> /\ scheds[p] # <<>>
      /\ \A i \in 1 .. Len(scheds[p]) :
           scheds'[p][i] = IF i = k THEN r ELSE scheds[p][i]
      /\ Len(scheds[p]) \in Nat
  BY <1>0, <1>4, <1>5, SchedMoves
<1>7. /\ Len(scheds[p]) <= 1 /\ k = 1 /\ started[<<p, t>>] = 0
      /\ p \in payoutM
  BY <1>0, <1>1, <1>2, <1>6 DEF PaInv, OneScheduler
<1>8. PaTypeOK' /\ OneTransaction'
  BY <1>2 DEF PaInv, PaTypeOK, OneTransaction
<1>9. PaTyped'
  BY <1>2, <1>6 DEF PaInv, PaTyped
<1>10. PaQuiet'
  BY <1>2, <1>6 DEF PaInv, PaQuiet
<1>11. OneScheduler'
  <2>1. ASSUME NEW q \in PaPayouts
        PROVE  /\ Len(scheds'[q]) <= 1
               /\ q \notin payoutM =>
                     /\ scheds'[q] = <<>>
                     /\ \A u \in PayoutTriggers : started[<<q, u>>] = 0
               /\ \A i \in 1 .. Len(scheds'[q]) : \A u \in scheds'[q][i].left :
                     started[<<q, u>>] = 0 /\ scheds'[q][i].hold # u
    <3>1. CASE q # p
      BY <1>2, <1>6, <3>1 DEF PaInv, OneScheduler
    <3>2. CASE q = p
      <4>1. ASSUME NEW i \in 1 .. Len(scheds'[p]), NEW u \in scheds'[p][i].left
            PROVE  started[<<p, u>>] = 0 /\ scheds'[p][i].hold # u
        <5>1. i = k /\ scheds'[p][i] = r
          BY <1>6, <1>7
        <5>2. u \in scheds[p][k].left /\ u # t
          BY <1>4, <4>1, <5>1
        <5>3. started[<<p, u>>] = 0
          BY <1>0, <1>2, <5>2 DEF PaInv, OneScheduler
        <5>4. QED
          BY <1>4, <5>1, <5>2, <5>3
      <4>2. QED
        BY <1>6, <1>7, <3>2, <4>1
    <3>3. QED
      BY <3>1, <3>2
  <2>2. QED
    BY <1>2, <2>1 DEF OneScheduler
<1>12. HeldFresh'
  <2>1. ASSUME NEW q \in PaPayouts, NEW i \in 1 .. Len(scheds'[q])
        PROVE  /\ i > 1 => scheds'[q][i].hold = NoEvent
               /\ scheds'[q][i].hold # NoEvent => started[<<q, scheds'[q][i].hold>>] = 0
    <3>1. CASE q # p
      BY <1>6, <3>1 DEF PaInv, HeldFresh
    <3>2. CASE q = p
      <4>1. i = k /\ scheds'[p][i] = r
        BY <1>6, <1>7, <3>2
      <4>2. QED
        BY <1>4, <1>7, <3>2, <4>1
    <3>3. QED
      BY <3>1, <3>2
  <2>2. QED
    BY <1>2, <2>1 DEF HeldFresh
<1>13. QED
  BY <1>8, <1>9, <1>10, <1>11, <1>12 DEF PaInv

\* A scheduler that fails emits nothing any more.
LEMMA PaSchedFails ==
  ASSUME PaInv, NEW p \in PaPayouts, NEW k \in DOMAIN scheds[p], SchedFails(p, k)
  PROVE  PaInv'
<1>0. /\ scheds \in [PaPayouts -> Seq(Sched)] /\ scheds[p] \in Seq(Sched)
      /\ k \in 1 .. Len(scheds[p]) /\ scheds[p][k] \in Sched
      /\ errs \in 0 .. PaErrCap
  <2>1. /\ scheds \in [PaPayouts -> Seq(Sched)] /\ scheds[p] \in Seq(Sched)
        /\ errs \in 0 .. PaErrCap
    BY DEF PaInv, PaTyped, PaTypeOK
  <2>2. k \in 1 .. Len(scheds[p])
    BY <2>1, LenProperties
  <2>3. QED
    BY <2>1, <2>2, ElementOfSeq
<1>1. /\ scheds' = [scheds EXCEPT ![p][k].left = {}]
      /\ errs' = IF errs < PaErrCap THEN errs + 1 ELSE errs
      /\ UNCHANGED <<actx, aloop, homes, exists, feed, payoutM, settings, appends, lookC,
                     tasks, started>>
  BY DEF SchedFails
<1>2. PICK r : r = [scheds[p][k] EXCEPT !.left = {}]
  OBVIOUS
<1>3. r \in Sched /\ r.hold = scheds[p][k].hold /\ r.left = {}
  BY <1>0, <1>2 DEF Sched
<1>4. scheds' = [scheds EXCEPT ![p] = [scheds[p] EXCEPT ![k] = r]]
  BY <1>1, <1>2
<1>5. /\ scheds' \in [PaPayouts -> Seq(Sched)]
      /\ \A q \in PaPayouts : /\ Len(scheds'[q]) = Len(scheds[q])
                              /\ q # p => scheds'[q] = scheds[q]
      /\ scheds'[p] # <<>> /\ scheds[p] # <<>>
      /\ \A i \in 1 .. Len(scheds[p]) :
           scheds'[p][i] = IF i = k THEN r ELSE scheds[p][i]
      /\ Len(scheds[p]) \in Nat
  BY <1>0, <1>3, <1>4, SchedMoves
<1>6. errs' \in 0 .. PaErrCap
  BY <1>0, <1>1, PipelineAgentAssumption
<1>7. PaTypeOK' /\ OneTransaction'
  BY <1>1, <1>6 DEF PaInv, PaTypeOK, OneTransaction
<1>8. PaTyped'
  BY <1>1, <1>5 DEF PaInv, PaTyped
<1>9. PaQuiet'
  BY <1>1, <1>5 DEF PaInv, PaQuiet
<1>10. OneScheduler'
  <2>1. ASSUME actx = "open", NEW q \in PaPayouts
        PROVE  /\ Len(scheds'[q]) <= 1
               /\ q \notin payoutM =>
                     /\ scheds'[q] = <<>>
                     /\ \A u \in PayoutTriggers : started[<<q, u>>] = 0
               /\ \A i \in 1 .. Len(scheds'[q]) : \A u \in scheds'[q][i].left :
                     started[<<q, u>>] = 0 /\ scheds'[q][i].hold # u
    <3>1. CASE q # p
      BY <1>5, <2>1, <3>1 DEF PaInv, OneScheduler
    <3>2. CASE q = p
      <4>1. ASSUME NEW i \in 1 .. Len(scheds'[p]), NEW u \in scheds'[p][i].left
            PROVE  started[<<p, u>>] = 0 /\ scheds'[p][i].hold # u
        <5>1. i \in 1 .. Len(scheds[p]) /\ i # k /\ scheds'[p][i] = scheds[p][i]
          BY <1>3, <1>5, <4>1
        <5>2. QED
          BY <2>1, <4>1, <5>1 DEF PaInv, OneScheduler
      <4>2. Len(scheds[p]) <= 1 /\ p \in payoutM
        BY <1>5, <2>1 DEF PaInv, OneScheduler
      <4>3. QED
        BY <1>5, <3>2, <4>1, <4>2
    <3>3. QED
      BY <3>1, <3>2
  <2>2. QED
    BY <1>1, <2>1 DEF OneScheduler
<1>11. HeldFresh'
  <2>1. ASSUME NEW q \in PaPayouts, NEW i \in 1 .. Len(scheds'[q])
        PROVE  /\ i > 1 => scheds'[q][i].hold = NoEvent
               /\ scheds'[q][i].hold # NoEvent => started[<<q, scheds'[q][i].hold>>] = 0
    <3>1. scheds'[q][i].hold = scheds[q][i].hold /\ i \in 1 .. Len(scheds[q])
      BY <1>3, <1>5
    <3>2. QED
      BY <3>1 DEF PaInv, HeldFresh
  <2>2. QED
    BY <1>1, <2>1 DEF HeldFresh
<1>12. QED
  BY <1>7, <1>8, <1>9, <1>10, <1>11 DEF PaInv

\* The trigger that loopInternal acts upon was held by the first scheduler
\* of its payout, and had not been acted upon.
LEMMA PaPayoutEvent ==
  ASSUME PaInv, NEW p \in PaPayouts, NEW k \in DOMAIN scheds[p], on_payout_event(p, k)
  PROVE  PaInv'
<1>0. /\ scheds \in [PaPayouts -> Seq(Sched)] /\ scheds[p] \in Seq(Sched)
      /\ k \in 1 .. Len(scheds[p]) /\ scheds[p][k] \in Sched
      /\ started \in [PaPayouts \X PayoutTriggers -> Nat] /\ tasks \in Nat
  <2>1. /\ scheds \in [PaPayouts -> Seq(Sched)] /\ scheds[p] \in Seq(Sched)
        /\ started \in [PaPayouts \X PayoutTriggers -> Nat] /\ tasks \in Nat
    BY DEF PaInv, PaTyped
  <2>2. k \in 1 .. Len(scheds[p])
    BY <2>1, LenProperties
  <2>3. QED
    BY <2>1, <2>2, ElementOfSeq
<1>1. PICK t : t = scheds[p][k].hold
  OBVIOUS
<1>2. /\ aloop = "run" /\ t # NoEvent /\ tasks' = tasks + 1
      /\ started' = [started EXCEPT ![<<p, t>>] = @ + 1]
      /\ scheds' = [scheds EXCEPT ![p][k].hold = NoEvent]
      /\ UNCHANGED <<actx, aloop, homes, exists, feed, payoutM, settings, appends, lookC, errs>>
  BY <1>1 DEF on_payout_event
<1>3. PICK r : r = [left |-> scheds[p][k].left, hold |-> NoEvent]
  OBVIOUS
<1>4. /\ t \in PayoutTriggers /\ r \in Sched /\ r.hold = NoEvent
      /\ r.left = scheds[p][k].left
  BY <1>0, <1>1, <1>2, <1>3 DEF Sched
<1>5. scheds' = [scheds EXCEPT ![p] = [scheds[p] EXCEPT ![k] = r]]
  <2>1. [scheds[p][k] EXCEPT !.hold = NoEvent] = r
    BY <1>0, <1>3 DEF Sched
  <2>2. QED
    BY <1>2, <2>1
<1>6. /\ scheds' \in [PaPayouts -> Seq(Sched)]
      /\ \A q \in PaPayouts : /\ Len(scheds'[q]) = Len(scheds[q])
                              /\ q # p => scheds'[q] = scheds[q]
      /\ scheds'[p] # <<>> /\ scheds[p] # <<>>
      /\ \A i \in 1 .. Len(scheds[p]) :
           scheds'[p][i] = IF i = k THEN r ELSE scheds[p][i]
      /\ Len(scheds[p]) \in Nat
  BY <1>0, <1>4, <1>5, SchedMoves
<1>7. k = 1 /\ started[<<p, t>>] = 0
  BY <1>0, <1>1, <1>2, <1>6 DEF PaInv, HeldFresh
<1>8. /\ started' \in [PaPayouts \X PayoutTriggers -> Nat] /\ tasks' \in Nat
      /\ started'[<<p, t>>] = 1
      /\ \A q \in PaPayouts, u \in PayoutTriggers :
            q # p \/ u # t => started'[<<q, u>>] = started[<<q, u>>]
  BY <1>0, <1>2, <1>4, <1>7
<1>9. PaTypeOK' /\ PaQuiet'
  BY <1>2 DEF PaInv, PaTypeOK, PaQuiet
<1>10. PaTyped'
  BY <1>2, <1>6, <1>8 DEF PaInv, PaTyped
<1>11. OneTransaction'
  <2>1. ASSUME NEW q \in PaPayouts, NEW u \in PayoutTriggers
        PROVE  started'[<<q, u>>] <= 1
    <3>1. started[<<q, u>>] <= 1
      BY DEF PaInv, OneTransaction
    <3>2. CASE q = p /\ u = t
      BY <1>8, <3>2
    <3>3. CASE q # p \/ u # t
      BY <1>8, <3>1, <3>3
    <3>4. QED
      BY <3>2, <3>3
  <2>2. QED
    BY <2>1 DEF OneTransaction
<1>12. OneScheduler'
  <2>1. ASSUME actx = "open", NEW q \in PaPayouts
        PROVE  /\ Len(scheds'[q]) <= 1
               /\ q \notin payoutM =>
                     /\ scheds'[q] = <<>>
                     /\ \A u \in PayoutTriggers : started'[<<q, u>>] = 0
               /\ \A i \in 1 .. Len(scheds'[q]) : \A u \in scheds'[q][i].left :
                     started'[<<q, u>>] = 0 /\ scheds'[q][i].hold # u
    <3>0. \A i \in 1 .. Len(scheds[q]) : scheds[q][i].left \subseteq PayoutTriggers
      <4>1. \A i \in 1 .. Len(scheds[q]) : scheds[q][i] \in Sched
        BY <1>0, ElementOfSeq
      <4>2. QED
        BY <4>1 DEF Sched
    <3>1. CASE q # p
      <4>1. \A u \in PayoutTriggers : started'[<<q, u>>] = started[<<q, u>>]
        BY <1>8, <3>1
      <4>2. scheds'[q] = scheds[q]
        BY <1>6, <3>1
      <4>3. QED
        BY <2>1, <3>0, <4>1, <4>2 DEF PaInv, OneScheduler
    <3>2. CASE q = p
      <4>1. ASSUME NEW i \in 1 .. Len(scheds'[p]), NEW u \in scheds'[p][i].left
            PROVE  started'[<<p, u>>] = 0 /\ scheds'[p][i].hold # u
        <5>0. Len(scheds[p]) <= 1 /\ i \in 1 .. Len(scheds[p])
          BY <1>6, <2>1 DEF PaInv, OneScheduler
        <5>1. i = k /\ scheds'[p][i] = r
          BY <1>6, <1>7, <5>0
        <5>2. u \in scheds[p][k].left /\ u \in PayoutTriggers
          BY <1>0, <1>4, <3>0, <3>2, <4>1, <5>1
        <5>3. started[<<p, u>>] = 0 /\ u # t
          BY <1>0, <1>1, <2>1, <5>2 DEF PaInv, OneScheduler
        <5>4. started'[<<p, u>>] = 0
          BY <1>8, <5>2, <5>3
        <5>5. r.hold # u
          BY <1>4, <5>2 DEF PayoutTriggers, NoEvent
        <5>6. QED
          BY <5>1, <5>4, <5>5
      <4>2. Len(scheds[p]) <= 1 /\ p \in payoutM
        BY <1>6, <2>1 DEF PaInv, OneScheduler
      <4>3. QED
        BY <1>6, <3>2, <4>1, <4>2
    <3>3. QED
      BY <3>1, <3>2
  <2>2. QED
    BY <1>2, <2>1 DEF OneScheduler
<1>13. HeldFresh'
  <2>1. ASSUME NEW q \in PaPayouts, NEW i \in 1 .. Len(scheds'[q])
        PROVE  /\ i > 1 => scheds'[q][i].hold = NoEvent
               /\ scheds'[q][i].hold # NoEvent => started'[<<q, scheds'[q][i].hold>>] = 0
    <3>1. CASE q # p
      <4>1. /\ scheds'[q][i] = scheds[q][i] /\ i \in 1 .. Len(scheds[q])
            /\ scheds[q] \in Seq(Sched)
        BY <1>0, <1>6, <3>1
      <4>2. scheds[q][i] \in Sched
        BY <4>1, ElementOfSeq
      <4>3. scheds[q][i].hold \in PayoutTriggers \cup {NoEvent}
        BY <4>2 DEF Sched
      <4>4. QED
        BY <1>8, <3>1, <4>1, <4>3 DEF PaInv, HeldFresh
    <3>2. CASE q = p
      <4>1. scheds'[p][i].hold = NoEvent
        <5>1. i \in 1 .. Len(scheds[p])
          BY <1>6, <3>2
        <5>2. CASE i = k
          BY <1>4, <1>6, <5>1, <5>2
        <5>3. CASE i # k
          <6>1. scheds'[p][i] = scheds[p][i] /\ i > 1
            BY <1>6, <1>7, <5>1, <5>3
          <6>2. QED
            BY <5>1, <6>1 DEF PaInv, HeldFresh
        <5>4. QED
          BY <5>2, <5>3
      <4>2. QED
        BY <3>2, <4>1
    <3>3. QED
      BY <3>1, <3>2
  <2>2. QED
    BY <1>2, <2>1 DEF HeldFresh
<1>14. QED
  BY <1>9, <1>10, <1>11, <1>12, <1>13 DEF PaInv

\* PaInv is an invariant of the pipeline agent, for any set of payouts and
\* any capacity of errorC.
THEOREM PaInvariance == PaSpec => []PaInv
<1>1. PaInv /\ [PaNext]_paVars => PaInv'
  <2> SUFFICES ASSUME PaInv, [PaNext]_paVars PROVE PaInv'
    OBVIOUS
  <2>1. CASE \/ PaDone \/ PaSubscribe \/ LookPasses \/ on_pipeline_event
             \/ OnPeriodSettings \/ OnRateSettings \/ SchedulerTakesLook \/ TaskEnds
             \/ PaSlotLost \/ \E h \in homes : PaHomeEnds(h)
    BY <2>1, PaLoops
  <2>2. CASE PaOnPayout \/ PaList
    BY <2>2, PaPayoutSteps
  <2>3. ASSUME NEW p \in PaPayouts, PaChainPayout(p) PROVE PaInv'
    BY <2>3, PaChain
  <2>4. ASSUME NEW p \in PaPayouts, OnDeletePayout(p) PROVE PaInv'
    BY <2>4, PaLeaves
  <2>5. ASSUME NEW p \in PaPayouts, NEW i \in DOMAIN scheds[p],
               SchedEmits(p, i) \/ SchedFails(p, i) \/ on_payout_event(p, i)
        PROVE  PaInv'
    BY <2>5, PaSchedEmits, PaSchedFails, PaPayoutEvent
  <2>6. ASSUME NEW w \in {"error", "done", "sub"}, PaEnds(w) PROVE PaInv'
    BY <2>6, PaLeaves
  <2>7. CASE UNCHANGED paVars
    BY <2>7 DEF PaInv, PaTypeOK, OneTransaction, PaQuiet, PaTyped, OneScheduler,
       HeldFresh, paVars
  <2>8. QED
    BY <2>1, <2>2, <2>3, <2>4, <2>5, <2>6, <2>7 DEF PaNext
<1>2. QED
  BY PaInitInv, <1>1, PTL DEF PaSpec

-----------------------------------------------------------------------------
(* ValidatorAgent.                                                         *)

Info == [pipe : VaPipes, ctx : {"open", "done"}, st : {"new", "run", "dead", "hung"},
         listed : BOOLEAN, feed : 0 .. 1, hold : BOOLEAN, look : 0 .. 1]

InType == [settings : {Absent, None} \cup VaPipes, selected : Nat,
           pipelineM : [VaPipes -> Nat], payoutM : SUBSET VaPipes,
           lost : {None} \cup VaPipes]

\* Of the selection, pipelineM and the goroutines: the one that pipelineM has
\* for a pipeline is one of this pipeline and was not canceled, so is the
\* selected one, and a payout that does not exist is in no feed.
Listening(sel, m, inf, pays) ==
    /\ inf \in Seq(Info) /\ m \in [VaPipes -> Nat] /\ sel \in 0 .. Len(inf)
    /\ \A p \in VaPipes : m[p] # 0 =>
          m[p] \in 1 .. Len(inf) /\ inf[m[p]].pipe = p /\ inf[m[p]].ctx = "open"
    /\ sel # 0 => inf[sel].ctx = "open" /\ m[inf[sel].pipe] = sel
    /\ \A i \in 1 .. Len(inf) : inf[i].pipe \notin pays => inf[i].feed = 0

VaShape ==
    /\ vctx \in {"open", "done"}
    /\ vloop \in {"boot", "run", "save", "look", "reply", "dead", "panic"}
    /\ vin \in InType /\ Len(info) <= VaMaxInfo

\* The file holds the settings in force, if it can be read, and a save knows
\* the settings it writes and those it replaces.
VaSaved ==
    /\ vfile \in {Absent, None, Torn} \cup VaPipes
    /\ SettingsDurable
    /\ vloop = "save" =>
          /\ call.new \in {None} \cup VaPipes /\ vin.settings = call.new
          /\ call.old \in {Absent, None} \cup VaPipes

\* A caller whose request is queued has made it, and makes only one.
VaAsked ==
    /\ want \in [VaAdmins -> {None} \cup VaPipes] /\ routed \subseteq VaPipes
    /\ req \in [VaAdmins -> {"new", "queued", "left", "ok", "err"}]
    /\ inC \in Seq(VaAdmins) /\ NoneTwice(inC)
    /\ \A a \in VaAdmins : Within(a, inC) => req[a] # "new"

\* A payout that is not known has neither a scheduler nor a transaction; one
\* that is known has one of the two.
VaSingle ==
    /\ left \in [VaPipes -> Nat] /\ vstarted \in [VaPipes -> Nat]
    /\ \A p \in VaPipes :
        /\ left[p] + vstarted[p] <= 1
        /\ p \notin vin.payoutM => left[p] = 0 /\ vstarted[p] = 0

VaInv ==
    /\ VaShape /\ VaSaved /\ VaAsked /\ VaSingle /\ SelectedNamed
    /\ Listening(vin.selected, vin.pipelineM, info, payouts)

LEMMA NewInTyped ==
  /\ NewIn \in InType /\ NewIn.settings = Absent /\ NewIn.selected = 0
  /\ NewIn.pipelineM = [p \in VaPipes |-> 0] /\ NewIn.payoutM = {}
BY DEF NewIn, InType

\* An agent that has just started listens to nothing.
LEMMA NothingListens ==
  ASSUME NEW pays PROVE Listening(NewIn.selected, NewIn.pipelineM, <<>>, pays)
<1>1. <<>> \in Seq(Info) /\ Len(<<>>) = 0
  OBVIOUS
<1>2. QED
  BY <1>1, NewInTyped DEF Listening

LEMMA VaInitInv == VaInit => VaInv
<1> SUFFICES ASSUME VaInit PROVE VaInv
  OBVIOUS
<1>1. PICK x \in VaStarts :
        /\ vfile = x.file /\ payouts = x.payouts /\ routed = x.routed
        /\ want = x.want /\ lives = x.lives
  BY DEF VaInit
<1>2. /\ vfile \in {Absent, None, Torn} \cup VaPipes /\ routed \subseteq VaPipes
      /\ want \in [VaAdmins -> {None} \cup VaPipes]
  BY <1>1, ValidatorAgentAssumption
<1>3. vin = NewIn /\ info = <<>> /\ inC = <<>> /\ vctx = "open" /\ vloop = "boot"
  BY DEF VaInit
<1>4. /\ <<>> \in Seq(VaAdmins) /\ Len(<<>>) = 0 /\ NoneTwice(<<>>)
      /\ \A a \in VaAdmins : ~Within(a, <<>>)
  BY DEF NoneTwice, Within
<1>5. VaShape
  BY <1>3, <1>4, NewInTyped, ValidatorAgentAssumption DEF VaShape
<1>6. VaSaved /\ SelectedNamed
  BY <1>2, <1>3, NewInTyped DEF VaSaved, SettingsDurable, SelectedNamed, InForce
<1>7. VaAsked
  BY <1>2, <1>3, <1>4 DEF VaAsked, VaInit
<1>8. VaSingle
  BY DEF VaSingle, VaInit
<1>9. QED
  BY <1>3, <1>5, <1>6, <1>7, <1>8, NothingListens DEF VaInv

-----------------------------------------------------------------------------
(* What the operations on the goroutines keep.                             *)

\* One entry of a sequence is replaced.
LEMMA ReplaceTyped ==
  ASSUME NEW S, NEW s \in Seq(S), NEW i \in 1 .. Len(s), NEW e \in S, NEW t,
         t = [s EXCEPT ![i] = e]
  PROVE  /\ t \in Seq(S) /\ Len(t) = Len(s)
         /\ \A j \in 1 .. Len(s) : t[j] = IF j = i THEN e ELSE s[j]
BY ExceptSeq

\* A goroutine moves, and stays one of its pipeline with its context.
MovesInfo(inf, i, r, new, pays) ==
    /\ i \in 1 .. Len(inf) /\ r \in Info /\ new = [inf EXCEPT ![i] = r]
    /\ r.pipe = inf[i].pipe /\ r.ctx = inf[i].ctx
    /\ r.pipe \notin pays => r.feed = 0

LEMMA ListenReplace ==
  ASSUME NEW sel, NEW m, NEW inf, NEW pays, Listening(sel, m, inf, pays),
         NEW i, NEW r, NEW new, MovesInfo(inf, i, r, new, pays)
  PROVE  Listening(sel, m, new, pays) /\ Len(new) = Len(inf)
<1>0. /\ i \in 1 .. Len(inf) /\ r \in Info /\ new = [inf EXCEPT ![i] = r]
      /\ r.pipe = inf[i].pipe /\ r.ctx = inf[i].ctx
      /\ r.pipe \notin pays => r.feed = 0
  BY DEF MovesInfo
<1>1. inf \in Seq(Info) /\ Len(inf) \in Nat
  BY LenProperties DEF Listening
<1>2. /\ new \in Seq(Info) /\ Len(new) = Len(inf)
      /\ \A j \in 1 .. Len(inf) : new[j] = IF j = i THEN r ELSE inf[j]
  BY <1>0, <1>1, ExceptSeq
<1>3. \A j \in 1 .. Len(inf) :
        /\ new[j].pipe = inf[j].pipe /\ new[j].ctx = inf[j].ctx
        /\ new[j].pipe \notin pays => new[j].feed = 0
  BY <1>0, <1>2 DEF Listening
<1>4. sel # 0 => sel \in 1 .. Len(inf)
  BY <1>1 DEF Listening
<1>5. QED
  BY <1>1, <1>2, <1>3, <1>4 DEF Listening

\* on_pipeline for a pipeline that has no goroutine.
StartsInfo(m, inf, p, m2, new, n) ==
    /\ m[p] = 0 /\ n = Len(inf) + 1
    /\ m2 = [m EXCEPT ![p] = n] /\ new = Append(inf, NewInfo(p))

\* A new goroutine for a pipeline that has none.
LEMMA ListenAppend ==
  ASSUME NEW sel, NEW m, NEW inf, NEW pays, Listening(sel, m, inf, pays),
         NEW p \in VaPipes, NEW m2, NEW new, NEW n, StartsInfo(m, inf, p, m2, new, n)
  PROVE  /\ Listening(sel, m2, new, pays)
         /\ m2[p] = n /\ n \in 1 .. Len(new)
         /\ new[n].pipe = p /\ new[n].ctx = "open"
<1>1. inf \in Seq(Info) /\ Len(inf) \in Nat /\ m \in [VaPipes -> Nat]
  BY LenProperties DEF Listening
<1>2. PICK r : r = NewInfo(p)
  OBVIOUS
<1>a. /\ m[p] = 0 /\ n = Len(inf) + 1
      /\ m2 = [m EXCEPT ![p] = n] /\ new = Append(inf, r)
  BY <1>2 DEF StartsInfo
<1>3. r \in Info /\ r.pipe = p /\ r.ctx = "open" /\ r.feed = 0
  BY <1>2 DEF NewInfo, Info
<1>4. /\ new \in Seq(Info) /\ Len(new) = Len(inf) + 1
      /\ \A j \in 1 .. Len(inf) : new[j] = inf[j]
      /\ new[Len(inf) + 1] = r
  BY <1>1, <1>3, <1>a, AppendProperties
<1>5. /\ m2 \in [VaPipes -> Nat] /\ m2[p] = Len(inf) + 1
      /\ \A q \in VaPipes : q # p => m2[q] = m[q]
  BY <1>1, <1>a
<1>6. ASSUME NEW q \in VaPipes, m2[q] # 0
      PROVE  m2[q] \in 1 .. Len(new) /\ new[m2[q]].pipe = q /\ new[m2[q]].ctx = "open"
  <2>1. CASE q = p
    BY <1>1, <1>3, <1>4, <1>5, <2>1
  <2>2. CASE q # p
    <3>1. m2[q] = m[q] /\ m[q] \in 1 .. Len(inf)
      BY <1>5, <1>6, <2>2 DEF Listening
    <3>2. new[m[q]] = inf[m[q]] /\ m[q] \in 1 .. Len(new)
      BY <1>1, <1>4, <3>1
    <3>3. inf[m[q]].pipe = q /\ inf[m[q]].ctx = "open"
      BY <1>6, <3>1 DEF Listening
    <3>4. QED
      BY <3>1, <3>2, <3>3
  <2>3. QED
    BY <2>1, <2>2
<1>7. ASSUME sel # 0
      PROVE  new[sel].ctx = "open" /\ m2[new[sel].pipe] = sel
  <2>1. /\ sel \in 1 .. Len(inf) /\ inf[sel].ctx = "open" /\ m[inf[sel].pipe] = sel
        /\ inf[sel] \in Info
    BY <1>1, <1>7, ElementOfSeq DEF Listening
  <2>2. new[sel] = inf[sel] /\ inf[sel].pipe \in VaPipes
    BY <1>4, <2>1 DEF Info
  <2>3. inf[sel].pipe # p
    BY <1>1, <1>7, <1>a, <2>1
  <2>4. QED
    BY <1>5, <2>1, <2>2, <2>3
<1>8. ASSUME NEW i \in 1 .. Len(new), new[i].pipe \notin pays PROVE new[i].feed = 0
  <2>1. CASE i \in 1 .. Len(inf)
    BY <1>4, <1>8, <2>1 DEF Listening
  <2>2. CASE i = Len(inf) + 1
    BY <1>3, <1>4, <2>2
  <2>3. QED
    BY <1>1, <1>4, <2>1, <2>2
<1>9. sel \in 0 .. Len(new)
  BY <1>1, <1>4 DEF Listening
<1>10. Listening(sel, m2, new, pays)
  BY <1>4, <1>5, <1>6, <1>7, <1>8, <1>9 DEF Listening
<1>11. QED
  BY <1>1, <1>3, <1>4, <1>5, <1>10, <1>a

\* on_pipeline returns a goroutine of the pipeline that listens.
LEMMA ListenOnPipeline ==
  ASSUME NEW sel, NEW m, NEW inf, NEW pays, Listening(sel, m, inf, pays),
         NEW p \in VaPipes, NEW o, o = OnPipeline(m, inf, p)
  PROVE  /\ Listening(sel, o.m, o.list, pays)
         /\ o.m[p] = o.i /\ o.i \in 1 .. Len(o.list)
         /\ o.list[o.i].pipe = p /\ o.list[o.i].ctx = "open"
<1>1. CASE m[p] # 0
  <2>1. o.m = m /\ o.list = inf /\ o.i = m[p]
    BY <1>1 DEF OnPipeline
  <2>2. QED
    BY <1>1, <2>1 DEF Listening
<1>2. CASE m[p] = 0
  <2>1. /\ o.m = [m EXCEPT ![p] = Len(inf) + 1] /\ o.list = Append(inf, NewInfo(p))
        /\ o.i = Len(inf) + 1
    BY <1>2 DEF OnPipeline
  <2>2. PICK m2, new : m2 = o.m /\ new = o.list
    OBVIOUS
  <2>a. PICK n : n = Len(inf) + 1
    OBVIOUS
  <2>b. StartsInfo(m, inf, p, m2, new, n) /\ o.i = n
    BY <1>2, <2>1, <2>2, <2>a DEF StartsInfo
  <2>3. /\ Listening(sel, m2, new, pays)
        /\ m2[p] = n /\ n \in 1 .. Len(new)
        /\ new[n].pipe = p /\ new[n].ctx = "open"
    BY <2>b, ListenAppend
  <2>4. QED
    BY <2>2, <2>3, <2>b
<1>3. QED
  BY <1>1, <1>2

\* The old pipeline is canceled and out of pipelineM; nothing is selected.
LEMMA ListenDrop ==
  ASSUME NEW sel, NEW m, NEW inf, NEW pays, Listening(sel, m, inf, pays), sel # 0,
         NEW m2, NEW new, NEW r, NEW q,
         r = [inf[sel] EXCEPT !.ctx = "done"], q = inf[sel].pipe,
         m2 = [m EXCEPT ![q] = 0], new = [inf EXCEPT ![sel] = r]
  PROVE  Listening(0, m2, new, pays) /\ Len(new) = Len(inf)
<1>1. /\ inf \in Seq(Info) /\ Len(inf) \in Nat /\ m \in [VaPipes -> Nat]
      /\ sel \in 1 .. Len(inf)
  BY LenProperties DEF Listening
<1>2. inf[sel] \in Info
  BY <1>1, ElementOfSeq
<1>4. r \in Info /\ r.pipe = inf[sel].pipe /\ r.feed = inf[sel].feed
  BY <1>2 DEF Info
<1>6. /\ new \in Seq(Info) /\ Len(new) = Len(inf)
      /\ \A j \in 1 .. Len(inf) : new[j] = IF j = sel THEN r ELSE inf[j]
  BY <1>1, <1>4, ReplaceTyped
<1>8. q \in VaPipes
  BY <1>2 DEF Info
<1>9. /\ m2 \in [VaPipes -> Nat] /\ m2[q] = 0
      /\ \A p \in VaPipes : p # q => m2[p] = m[p]
  BY <1>1, <1>8
<1>10. ASSUME NEW p \in VaPipes, m2[p] # 0
       PROVE  m2[p] \in 1 .. Len(new) /\ new[m2[p]].pipe = p /\ new[m2[p]].ctx = "open"
  <2>1. p # q /\ m2[p] = m[p]
    BY <1>9, <1>10
  <2>2. m[p] \in 1 .. Len(inf) /\ inf[m[p]].pipe = p /\ inf[m[p]].ctx = "open"
    BY <1>10, <2>1 DEF Listening
  <2>3. m[p] # sel
    BY <2>1, <2>2
  <2>4. new[m[p]] = inf[m[p]]
    BY <1>6, <2>2, <2>3
  <2>5. QED
    BY <1>6, <2>1, <2>2, <2>4
<1>11. ASSUME NEW i \in 1 .. Len(new), new[i].pipe \notin pays PROVE new[i].feed = 0
  <2>1. new[i].pipe = inf[i].pipe /\ new[i].feed = inf[i].feed /\ i \in 1 .. Len(inf)
    BY <1>4, <1>6
  <2>2. QED
    BY <1>11, <2>1 DEF Listening
<1>12. 0 \in 0 .. Len(new)
  BY <1>1, <1>6
<1>13. QED
  BY <1>6, <1>9, <1>10, <1>11, <1>12 DEF Listening

\* A goroutine of pipelineM becomes the selected one.
LEMMA ListenSelect ==
  ASSUME NEW m, NEW inf, NEW pays, Listening(0, m, inf, pays),
         NEW i \in 1 .. Len(inf), inf[i].ctx = "open", m[inf[i].pipe] = i
  PROVE  Listening(i, m, inf, pays)
<1>1. inf \in Seq(Info) /\ Len(inf) \in Nat
  BY LenProperties DEF Listening
<1>2. i \in 0 .. Len(inf)
  BY <1>1
<1>3. QED
  BY <1>2 DEF Listening

\* The selected goroutine stays one of its pipeline.
LEMMA NamedStays ==
  ASSUME NEW sel, NEW m, NEW inf, NEW pays, Listening(sel, m, inf, pays), sel # 0,
         NEW m2, NEW new, NEW pays2, Listening(sel, m2, new, pays2),
         \A p \in VaPipes : m[p] # 0 => m2[p] = m[p]
  PROVE  new[sel].pipe = inf[sel].pipe
<1>1. /\ inf \in Seq(Info) /\ Len(inf) \in Nat /\ sel \in 1 .. Len(inf)
  BY LenProperties DEF Listening
<1>2. inf[sel] \in Info
  BY <1>1, ElementOfSeq
<1>3. PICK q : q = inf[sel].pipe
  OBVIOUS
<1>4. q \in VaPipes /\ m[q] = sel
  BY <1>2, <1>3 DEF Info, Listening
<1>5. m2[q] = sel
  BY <1>4
<1>6. new[sel].pipe = q
  BY <1>4, <1>5 DEF Listening
<1>7. QED
  BY <1>3, <1>6

-----------------------------------------------------------------------------
(* The steps of the validator agent.                                       *)

\* No save is under way, before and after, or it goes on.
Saving == (UNCHANGED <<vloop, call>>) \/ (vloop # "save" /\ vloop' # "save")

\* What a step that leaves the settings and the file alone keeps.
LEMMA SavedStays ==
  ASSUME VaInv, Saving, vfile' = vfile, vin'.settings = vin.settings,
         vin'.lost = vin.lost, vin'.selected = vin.selected,
         vin.selected # 0 => info'[vin.selected].pipe = info[vin.selected].pipe
  PROVE  VaSaved' /\ SelectedNamed'
<1>1. InForce' = InForce
  BY DEF Saving, InForce
<1>2. VaSaved'
  BY <1>1 DEF VaInv, VaSaved, SettingsDurable, Saving
<1>3. SelectedNamed'
  BY <1>1 DEF VaInv, SelectedNamed
<1>4. QED
  BY <1>2, <1>3

\* Steps that touch neither the settings nor a goroutine.
LEMMA VaKeeps ==
  ASSUME VaInv, UNCHANGED <<vin, vfile, info, payouts>>, VaAsked', VaSingle', Saving,
         vctx' \in {"open", "done"},
         vloop' \in {"boot", "run", "save", "look", "reply", "dead", "panic"}
  PROVE  VaInv'
<1>1. VaShape' /\ VaSaved' /\ SelectedNamed'
  BY SavedStays DEF VaInv, VaShape
<1>2. Listening(vin'.selected, vin'.pipelineM, info', payouts')
  BY DEF VaInv
<1>3. QED
  BY <1>1, <1>2 DEF VaInv

\* A goroutine loopPipeline moves.
LEMMA VaInfoMoves ==
  ASSUME VaInv, NEW i, NEW r, MovesInfo(info, i, r, info', payouts),
         UNCHANGED <<vctx, vloop, vin, vfile, req, want, inC, routed, payouts,
                     left, vstarted>>,
         Saving
  PROVE  VaInv'
<1>1. Listening(vin.selected, vin.pipelineM, info, payouts)
  BY DEF VaInv
<1>2. /\ Listening(vin.selected, vin.pipelineM, info', payouts)
      /\ Len(info') = Len(info)
  BY <1>1, ListenReplace
<1>3. VaShape' /\ VaAsked' /\ VaSingle'
  BY <1>2 DEF VaInv, VaShape, VaAsked, VaSingle
<1>4. vin.selected # 0 => info'[vin.selected].pipe = info[vin.selected].pipe
  <2>1. PICK sel, m, inf, new :
          sel = vin.selected /\ m = vin.pipelineM /\ inf = info /\ new = info'
    OBVIOUS
  <2>2. sel # 0 => new[sel].pipe = inf[sel].pipe
    BY <1>1, <1>2, <2>1, NamedStays
  <2>3. QED
    BY <2>1, <2>2
<1>5. VaSaved' /\ SelectedNamed'
  BY <1>4, SavedStays
<1>6. QED
  BY <1>2, <1>3, <1>5 DEF VaInv

LEMMA InfoOf ==
  ASSUME VaInv, NEW i \in DOMAIN info
  PROVE  /\ i \in 1 .. Len(info) /\ info[i] \in Info /\ info \in Seq(Info)
         /\ info[i].pipe \in VaPipes
         /\ info[i].pipe \notin payouts => info[i].feed = 0
<1>1. info \in Seq(Info)
  BY DEF VaInv, Listening
<1>2. i \in 1 .. Len(info)
  BY <1>1, LenProperties
<1>3. info[i] \in Info
  BY <1>1, <1>2, ElementOfSeq
<1>4. info[i].pipe \notin payouts => info[i].feed = 0
  BY <1>2 DEF VaInv, Listening
<1>5. QED
  BY <1>1, <1>2, <1>3, <1>4 DEF Info

\* Membership as a value.
LEMMA MemberBoolean ==
  ASSUME NEW x, NEW S, NEW b, b = (x \in S) PROVE b \in BOOLEAN
OBVIOUS

LEMMA VaInfoSteps ==
  ASSUME VaInv, NEW i \in DOMAIN info,
         \/ InfoSubscribe(i) \/ InfoList(i) \/ InfoFeed(i) \/ InfoLook(i)
         \/ InfoSlotLost(i) \/ InfoEnds(i)
  PROVE  VaInv'
<1>0. /\ i \in 1 .. Len(info) /\ info[i] \in Info
      /\ info[i].pipe \notin payouts => info[i].feed = 0
  BY InfoOf
<1>1. CASE InfoSubscribe(i)
  <2>0. PICK st : st = IF vslots THEN "run" ELSE "hung"
    OBVIOUS
  <2>1. PICK r : r = [info[i] EXCEPT !.st = st]
    OBVIOUS
  <2>2. InfoStep(i, r)
    BY <1>1, <2>0, <2>1 DEF InfoSubscribe
  <2>3. r \in Info /\ r.pipe = info[i].pipe /\ r.ctx = info[i].ctx /\ r.feed = info[i].feed
    BY <1>0, <2>0, <2>1 DEF Info
  <2>4. QED
    BY <1>0, <2>2, <2>3, VaInfoMoves DEF InfoStep, MovesInfo, Saving
<1>2. CASE InfoList(i)
  <2>0. PICK b : b = (info[i].pipe \in payouts)
    OBVIOUS
  <2>b. b \in BOOLEAN
    BY <2>0, MemberBoolean
  <2>1. PICK r : r = [info[i] EXCEPT !.listed = TRUE, !.hold = b]
    OBVIOUS
  <2>2. InfoStep(i, r)
    BY <1>2, <2>0, <2>1 DEF InfoList
  <2>3. r \in Info /\ r.pipe = info[i].pipe /\ r.ctx = info[i].ctx /\ r.feed = info[i].feed
    BY <1>0, <2>1, <2>b DEF Info
  <2>4. QED
    BY <1>0, <2>2, <2>3, VaInfoMoves DEF InfoStep, MovesInfo, Saving
<1>3. CASE InfoFeed(i)
  <2>1. PICK r : r = [info[i] EXCEPT !.feed = @ - 1, !.hold = TRUE]
    OBVIOUS
  <2>2. InfoStep(i, r) /\ info[i].feed > 0
    BY <1>3, <2>1 DEF InfoFeed
  <2>5. info[i].feed = 1
    BY <1>0, <2>2 DEF Info
  <2>6. PICK u : u = [info[i] EXCEPT !.feed = 0]
    OBVIOUS
  <2>7. u \in Info /\ u.pipe = info[i].pipe /\ u.ctx = info[i].ctx /\ u.feed = 0
    BY <1>0, <2>6 DEF Info
  <2>8. r = [u EXCEPT !.hold = TRUE]
    BY <1>0, <2>1, <2>5, <2>6 DEF Info
  <2>3. r \in Info /\ r.pipe = info[i].pipe /\ r.ctx = info[i].ctx /\ r.feed = 0
    BY <2>7, <2>8 DEF Info
  <2>4. QED
    BY <1>0, <2>2, <2>3, VaInfoMoves DEF InfoStep, MovesInfo, Saving
<1>4. CASE InfoLook(i)
  <2>1. PICK r : r = [info[i] EXCEPT !.look = 0]
    OBVIOUS
  <2>2. InfoStep(i, r)
    BY <1>4, <2>1 DEF InfoLook
  <2>3. r \in Info /\ r.pipe = info[i].pipe /\ r.ctx = info[i].ctx /\ r.feed = info[i].feed
    BY <1>0, <2>1 DEF Info
  <2>4. QED
    BY <1>0, <2>2, <2>3, VaInfoMoves DEF InfoStep, MovesInfo, Saving
<1>5. CASE InfoEnds(i)
  <2>1. PICK r : r = [info[i] EXCEPT !.st = "dead", !.hold = FALSE,
                                     !.feed = 0, !.listed = TRUE]
    OBVIOUS
  <2>2. InfoStep(i, r)
    BY <1>5, <2>1 DEF InfoEnds
  <2>5. PICK u : u = [info[i] EXCEPT !.st = "dead", !.hold = FALSE]
    OBVIOUS
  <2>6. u \in Info /\ u.pipe = info[i].pipe /\ u.ctx = info[i].ctx
    BY <1>0, <2>5 DEF Info
  <2>7. PICK w : w = [u EXCEPT !.feed = 0]
    OBVIOUS
  <2>8. w \in Info /\ w.pipe = info[i].pipe /\ w.ctx = info[i].ctx /\ w.feed = 0
    BY <2>6, <2>7 DEF Info
  <2>9. r = [w EXCEPT !.listed = TRUE]
    BY <1>0, <2>1, <2>5, <2>7 DEF Info
  <2>3. r \in Info /\ r.pipe = info[i].pipe /\ r.ctx = info[i].ctx /\ r.feed = 0
    BY <2>8, <2>9 DEF Info
  <2>4. QED
    BY <1>0, <2>2, <2>3, VaInfoMoves DEF InfoStep, MovesInfo, Saving
<1>6. CASE InfoSlotLost(i)
  <2>1. PICK r : r = [info[i] EXCEPT !.st = "hung", !.feed = 0, !.listed = TRUE]
    OBVIOUS
  <2>2. InfoStep(i, r)
    BY <1>6, <2>1 DEF InfoSlotLost
  <2>5. PICK u : u = [info[i] EXCEPT !.st = "hung"]
    OBVIOUS
  <2>6. u \in Info /\ u.pipe = info[i].pipe /\ u.ctx = info[i].ctx
    BY <1>0, <2>5 DEF Info
  <2>7. PICK w : w = [u EXCEPT !.feed = 0]
    OBVIOUS
  <2>8. w \in Info /\ w.pipe = info[i].pipe /\ w.ctx = info[i].ctx /\ w.feed = 0
    BY <2>6, <2>7 DEF Info
  <2>9. r = [w EXCEPT !.listed = TRUE]
    BY <1>0, <2>1, <2>5, <2>7 DEF Info
  <2>3. r \in Info /\ r.pipe = info[i].pipe /\ r.ctx = info[i].ctx /\ r.feed = 0
    BY <2>8, <2>9 DEF Info
  <2>4. QED
    BY <1>0, <2>2, <2>3, VaInfoMoves DEF InfoStep, MovesInfo, Saving
<1>7. QED
  BY <1>1, <1>2, <1>3, <1>4, <1>5, <1>6

\* on_settings_lookahead.
LEMMA VaLookSend ==
  ASSUME VaInv, NEW p \in VaPipes, LookSend(p) PROVE VaInv'
<1>1. PICK i : i = vin.pipelineM[p]
  OBVIOUS
<1>2. /\ info' = [info EXCEPT ![i].look = 1]
      /\ UNCHANGED <<vctx, vloop, vin, vfile, req, want, inC, verr, routed,
                     payouts, left, vstarted, lives>>
      /\ Saving
  BY <1>1 DEF LookSend, Saving
<1>3. CASE i \in DOMAIN info
  <2>0. /\ i \in 1 .. Len(info) /\ info[i] \in Info
        /\ info[i].pipe \notin payouts => info[i].feed = 0
    BY <1>3, InfoOf
  <2>1. PICK r : r = [info[i] EXCEPT !.look = 1]
    OBVIOUS
  <2>2. r \in Info /\ r.pipe = info[i].pipe /\ r.ctx = info[i].ctx /\ r.feed = info[i].feed
    BY <2>0, <2>1 DEF Info
  <2>3. info' = [info EXCEPT ![i] = r]
    BY <1>2, <2>1
  <2>4. QED
    BY <1>2, <2>0, <2>2, <2>3, VaInfoMoves DEF MovesInfo
<1>4. CASE i \notin DOMAIN info
  <2>1. info \in Seq(Info) /\ info = [j \in DOMAIN info |-> info[j]]
    BY SeqDef DEF VaInv, Listening
  <2>2. info' = info
    BY <1>2, <1>4, <2>1
  <2>3. VaAsked' /\ VaSingle'
    BY <1>2 DEF VaInv, VaAsked, VaSingle
  <2>4. QED
    BY <1>2, <2>2, <2>3, VaKeeps DEF VaInv, VaShape
<1>5. QED
  BY <1>3, <1>4

\* A new payout is put into the feeds of its pipeline, once.
LEMMA VaChainPayout ==
  ASSUME VaInv, NEW p \in VaPipes, ChainPayout(p) PROVE VaInv'
<1>1. /\ p \notin payouts /\ payouts' = payouts \cup {p}
      /\ info' = [i \in DOMAIN info |->
            IF info[i].st = "run" /\ info[i].pipe = p
            THEN [info[i] EXCEPT !.feed = @ + 1] ELSE info[i]]
      /\ UNCHANGED <<vctx, vloop, vin, vfile, call, req, want, inC, verr,
                     routed, left, vstarted, lives>>
  BY DEF ChainPayout
<1>2. /\ Listening(vin.selected, vin.pipelineM, info, payouts)
      /\ info \in Seq(Info) /\ Len(info) \in Nat /\ DOMAIN info = 1 .. Len(info)
  BY LenProperties DEF VaInv, Listening
<1>3. ASSUME NEW i \in 1 .. Len(info)
      PROVE  /\ info'[i] \in Info /\ info'[i].pipe = info[i].pipe
             /\ info'[i].ctx = info[i].ctx
             /\ info'[i].pipe \notin payouts' => info'[i].feed = 0
  <2>1. info[i] \in Info /\ (info[i].pipe \notin payouts => info[i].feed = 0)
    BY <1>2, InfoOf
  <2>2. CASE info[i].st = "run" /\ info[i].pipe = p
    <3>1. info'[i] = [info[i] EXCEPT !.feed = @ + 1] /\ info[i].feed = 0
      BY <1>1, <1>2, <2>1, <2>2
    <3>2. info'[i] = [info[i] EXCEPT !.feed = 1]
      BY <3>1
    <3>3. info'[i] \in Info /\ info'[i].pipe = info[i].pipe /\ info'[i].ctx = info[i].ctx
      BY <2>1, <3>2 DEF Info
    <3>4. QED
      BY <1>1, <2>2, <3>3
  <2>3. CASE ~(info[i].st = "run" /\ info[i].pipe = p)
    <3>1. info'[i] = info[i]
      BY <1>1, <1>2, <2>3
    <3>2. QED
      BY <1>1, <2>1, <3>1
  <2>4. QED
    BY <2>2, <2>3
<1>4. info' \in [1 .. Len(info) -> Info]
  BY <1>1, <1>2, <1>3
<1>5. info' \in Seq(Info) /\ Len(info') = Len(info)
  BY <1>2, <1>4, SeqDef, LenProperties
<1>6. vin.selected # 0 => vin.selected \in 1 .. Len(info)
  BY <1>2 DEF Listening
<1>7. Listening(vin.selected, vin.pipelineM, info', payouts')
  BY <1>2, <1>3, <1>5, <1>6 DEF Listening
<1>8. VaShape' /\ VaAsked' /\ VaSingle'
  BY <1>1, <1>5 DEF VaInv, VaShape, VaAsked, VaSingle
<1>9. VaSaved' /\ SelectedNamed'
  BY <1>1, <1>3, <1>6, SavedStays DEF Saving
<1>10. QED
  BY <1>1, <1>7, <1>8, <1>9 DEF VaInv

\* The settings, the goroutines and what they are about, after a step.
LEMMA VaMoves ==
  ASSUME VaInv, VaShape', VaSaved', VaAsked', VaSingle', SelectedNamed',
         NEW sel, NEW m, NEW inf, Listening(sel, m, inf, payouts),
         vin'.selected = sel, vin'.pipelineM = m, info' = inf, payouts' = payouts
  PROVE  VaInv'
BY DEF VaInv

\* newPayoutC carries a payout to in.on_payout.
LEMMA VaOnPayout ==
  ASSUME VaInv, NEW i \in DOMAIN info, OnPayout(i) PROVE VaInv'
<1>0. /\ i \in 1 .. Len(info) /\ info[i] \in Info /\ info[i].pipe \in VaPipes
      /\ info[i].pipe \notin payouts => info[i].feed = 0
  BY InfoOf
<1>1. PICK r, sent, p : /\ r = [info[i] EXCEPT !.hold = FALSE]
                        /\ sent = [info EXCEPT ![i].hold = FALSE]
                        /\ p = info[i].pipe
  OBVIOUS
<1>2. PICK o : o = OnPipeline(vin.pipelineM, sent, p)
  OBVIOUS
<1>a. PICK sel, m : sel = vin.selected /\ m = vin.pipelineM
  OBVIOUS
<1>3. MovesInfo(info, i, r, sent, payouts)
  <2>1. r \in Info /\ r.pipe = info[i].pipe /\ r.ctx = info[i].ctx /\ r.feed = info[i].feed
    BY <1>0, <1>1 DEF Info
  <2>2. sent = [info EXCEPT ![i] = r]
    BY <1>1
  <2>3. QED
    BY <1>0, <2>1, <2>2 DEF MovesInfo
<1>4. Listening(sel, m, sent, payouts) /\ Len(sent) = Len(info)
  <2>1. Listening(sel, m, info, payouts)
    BY <1>a DEF VaInv
  <2>2. QED
    BY <1>3, <2>1, ListenReplace
<1>5. UNCHANGED <<vctx, vloop, vfile, call, req, want, inC, verr, routed,
                  payouts, vstarted, lives>>
  BY DEF OnPayout
<1>6. VaAsked' /\ vin \in InType
  BY <1>5 DEF VaInv, VaAsked, VaShape
<1>7. CASE p \notin vin.payoutM
  <2>1. /\ Len(o.list) <= VaMaxInfo /\ info' = o.list
        /\ vin' = [vin EXCEPT !.pipelineM = o.m, !.payoutM = @ \cup {p}]
        /\ left' = [left EXCEPT ![p] = @ + 1]
    BY <1>1, <1>2, <1>7 DEF OnPayout, FreshPayout
  <2>2. Listening(sel, o.m, o.list, payouts)
    <3>1. o = OnPipeline(m, sent, p) /\ p \in VaPipes
      BY <1>0, <1>1, <1>2, <1>a
    <3>2. QED
      BY <1>4, <3>1, ListenOnPipeline
  <2>3. o.m \in [VaPipes -> Nat]
    BY <2>2 DEF Listening
  <2>4. /\ vin' \in InType /\ vin'.settings = vin.settings /\ vin'.selected = sel
        /\ vin'.lost = vin.lost
        /\ vin'.pipelineM = o.m /\ vin'.payoutM = vin.payoutM \cup {p}
    BY <1>0, <1>1, <1>6, <1>a, <2>1, <2>3 DEF InType
  <2>5. VaShape' /\ VaSaved' /\ SelectedNamed'
    <3>1. VaShape'
      BY <1>5, <2>1, <2>4 DEF VaInv, VaShape
    <3>2. PICK om, ol, inf : om = o.m /\ ol = o.list /\ inf = info
      OBVIOUS
    <3>3. \A q \in VaPipes : m[q] # 0 => om[q] = m[q]
      <4>1. m \in [VaPipes -> Nat]
        BY <1>4 DEF Listening
      <4>2. CASE m[p] # 0
        BY <1>2, <1>a, <3>2, <4>2 DEF OnPipeline
      <4>3. CASE m[p] = 0
        <5>1. om = [m EXCEPT ![p] = Len(sent) + 1]
          BY <1>2, <1>a, <3>2, <4>3 DEF OnPipeline
        <5>2. QED
          BY <4>1, <4>3, <5>1
      <4>4. QED
        BY <4>2, <4>3
    <3>4. Listening(sel, m, inf, payouts) /\ Listening(sel, om, ol, payouts)
      BY <1>a, <2>2, <3>2 DEF VaInv
    <3>5. sel # 0 => ol[sel].pipe = inf[sel].pipe
      BY <3>3, <3>4, NamedStays
    <3>6. vin.selected # 0 => info'[vin.selected].pipe = info[vin.selected].pipe
      BY <1>a, <2>1, <3>2, <3>5
    <3>7. VaSaved' /\ SelectedNamed'
      BY <1>5, <1>a, <2>4, <3>6, SavedStays DEF Saving
    <3>8. QED
      BY <3>1, <3>7
  <2>6. VaSingle'
    <3>1. /\ left \in [VaPipes -> Nat] /\ vstarted \in [VaPipes -> Nat]
          /\ left[p] = 0 /\ vstarted[p] = 0 /\ p \in VaPipes
      BY <1>0, <1>1, <1>7 DEF VaInv, VaSingle
    <3>2. /\ left' \in [VaPipes -> Nat] /\ left'[p] = 1
          /\ \A q \in VaPipes : q # p => left'[q] = left[q]
      BY <2>1, <3>1
    <3>3. vstarted' \in [VaPipes -> Nat] /\ vstarted'[p] = 0
      BY <1>5, <3>1
    <3>4. ASSUME NEW q \in VaPipes
          PROVE  /\ left'[q] + vstarted'[q] <= 1
                 /\ q \notin vin'.payoutM => left'[q] = 0 /\ vstarted'[q] = 0
      <4>1. CASE q = p
        BY <2>4, <3>2, <3>3, <4>1
      <4>2. CASE q # p
        <5>1. left'[q] = left[q] /\ vstarted'[q] = vstarted[q]
          BY <1>5, <3>2, <4>2
        <5>2. q \in vin.payoutM <=> q \in vin'.payoutM
          BY <2>4, <4>2
        <5>3. QED
          BY <5>1, <5>2 DEF VaInv, VaSingle
      <4>3. QED
        BY <4>1, <4>2
    <3>5. QED
      BY <3>2, <3>3, <3>4 DEF VaSingle
  <2>7. QED
    BY <1>5, <1>6, <2>1, <2>2, <2>4, <2>5, <2>6, VaMoves
<1>8. CASE p \in vin.payoutM
  <2>1. info' = sent /\ UNCHANGED <<vin, left>>
    BY <1>1, <1>8 DEF OnPayout, FreshPayout
  <2>2. VaShape' /\ VaSingle'
    BY <1>4, <1>5, <2>1 DEF VaInv, VaShape, VaSingle
  <2>3. PICK inf : inf = info
    OBVIOUS
  <2>4. Listening(sel, m, inf, payouts)
    BY <1>a, <2>3 DEF VaInv
  <2>5. sel # 0 => sent[sel].pipe = inf[sel].pipe
    BY <1>4, <2>4, NamedStays
  <2>6. VaSaved' /\ SelectedNamed'
    BY <1>5, <1>a, <2>1, <2>3, <2>5, SavedStays DEF Saving
  <2>7. QED
    BY <1>4, <1>5, <1>6, <1>a, <2>1, <2>2, <2>6, VaMoves
<1>9. QED
  BY <1>7, <1>8

\* An agent that is gone, and one that starts again.
LEMMA VaGone ==
  ASSUME VaInv, Gone, VaAsked', vfile' \in {Absent, None, Torn} \cup VaPipes,
         payouts' = payouts, vctx' \in {"open", "done"},
         vloop' \in {"boot", "run", "look", "reply", "dead", "panic"}
  PROVE  VaInv'
<1>1. /\ vin' = NewIn /\ info' = <<>>
      /\ left' = [p \in VaPipes |-> 0] /\ vstarted' = [p \in VaPipes |-> 0]
  BY DEF Gone
<1>2. vin' \in InType /\ vin'.settings = Absent /\ vin'.selected = 0
  BY <1>1, NewInTyped
<1>3. Len(info') <= VaMaxInfo
  BY <1>1, ValidatorAgentAssumption
<1>4. VaShape' /\ VaSaved' /\ SelectedNamed'
  BY <1>2, <1>3 DEF VaShape, VaSaved, SettingsDurable, SelectedNamed, InForce
<1>5. VaSingle'
  BY <1>1 DEF VaSingle
<1>6. Listening(NewIn.selected, NewIn.pipelineM, <<>>, payouts)
  BY NothingListens
<1>7. QED
  BY <1>1, <1>4, <1>5, <1>6, VaMoves

\* The old pipeline is canceled and forgotten, if there is one.
LEMMA ListenDeselect ==
  ASSUME VaInv, NEW new, NEW d, d = Deselect(new)
  PROVE  Listening(0, d.m, d.list, payouts)
<1>1. PICK sel, m, inf : sel = vin.selected /\ m = vin.pipelineM /\ inf = info
  OBVIOUS
<1>2. Listening(sel, m, inf, payouts)
  BY <1>1 DEF VaInv
<1>3. CASE sel = 0
  <2>1. d.m = m /\ d.list = inf
    BY <1>1, <1>3 DEF Deselect
  <2>2. QED
    BY <1>2, <1>3, <2>1
<1>4. CASE sel # 0
  <2>1. PICK q, r : q = inf[sel].pipe /\ r = [inf[sel] EXCEPT !.ctx = "done"]
    OBVIOUS
  <2>2. PICK m2, list2 : m2 = d.m /\ list2 = d.list
    OBVIOUS
  <2>3. m2 = [m EXCEPT ![q] = 0] /\ list2 = [inf EXCEPT ![sel] = r]
    BY <1>1, <1>4, <2>1, <2>2 DEF Deselect
  <2>4. Listening(0, m2, list2, payouts)
    BY <1>2, <1>4, <2>1, <2>3, ListenDrop
  <2>5. QED
    BY <2>2, <2>4
<1>5. QED
  BY <1>3, <1>4

\* on_settings begins, for a choice a caller or the file can hold.
LEMMA VaOnSettings ==
  ASSUME VaInv, NEW new \in {None} \cup VaPipes, NEW who, OnSettings(new, who),
         vloop # "save", VaAsked', UNCHANGED <<vctx, routed, payouts>>
  PROVE  VaInv'
<1>1. PICK sel, m : sel = vin.selected /\ m = vin.pipelineM
  OBVIOUS
<1>2. /\ vloop' = "save" /\ vin' = [vin EXCEPT !.settings = new]
      /\ call' = [NoCall EXCEPT !.who = who, !.new = new, !.old = vin.settings]
      /\ UNCHANGED <<info, left, vstarted>>
      /\ vfile' = vfile \/ (vfile = Absent /\ vfile' = Torn)
  BY DEF OnSettings
<1>3. vin \in InType /\ Listening(sel, m, info, payouts) /\ Len(info) <= VaMaxInfo
      /\ vctx \in {"open", "done"} /\ vfile \in {Absent, None, Torn} \cup VaPipes
  BY <1>1 DEF VaInv, VaShape, VaSaved
<1>4. /\ vin' \in InType /\ vin'.settings = new /\ vin'.selected = sel
      /\ vin'.pipelineM = m /\ vin'.payoutM = vin.payoutM /\ vin'.lost = vin.lost
      /\ vin.settings \in {Absent, None} \cup VaPipes
  BY <1>1, <1>2, <1>3 DEF InType
<1>5. call'.new = new /\ call'.old = vin.settings
  BY <1>2 DEF NoCall
<1>6. InForce' = InForce /\ InForce = vin.settings
  BY <1>2, <1>5 DEF InForce
<1>7. VaShape' /\ VaSingle'
  BY <1>2, <1>3, <1>4 DEF VaInv, VaShape, VaSingle
<1>8. VaSaved'
  <2>1. vfile' \in {Absent, None, Torn} \cup VaPipes
    BY <1>2, <1>3
  <2>2. SettingsDurable'
    BY <1>2, <1>6 DEF VaInv, VaSaved, SettingsDurable
  <2>3. QED
    BY <1>4, <1>5, <2>1, <2>2 DEF VaSaved
<1>9. SelectedNamed'
  BY <1>1, <1>2, <1>4, <1>6 DEF VaInv, SelectedNamed
<1>10. QED
  BY <1>1, <1>2, <1>3, <1>4, <1>7, <1>8, <1>9, VaMoves

\* config_save fails: the settings before it are in force again.
LEMMA VaSaveFails == ASSUME VaInv, SaveFails PROVE VaInv'
<1>1. PICK sel, m : sel = vin.selected /\ m = vin.pipelineM
  OBVIOUS
<1>2. /\ vloop = "save" /\ vin' = [vin EXCEPT !.settings = call.old]
      /\ vfile' = vfile \/ (vfile # Absent /\ vfile' = Torn)
      /\ vloop' \in {"run", "reply"}
      /\ UNCHANGED <<vctx, info, req, want, inC, routed, payouts, left, vstarted>>
  BY DEF SaveFails, Refused, Answer
<1>3. /\ vin \in InType /\ Listening(sel, m, info, payouts) /\ Len(info) <= VaMaxInfo
      /\ vctx \in {"open", "done"} /\ vfile \in {Absent, None, Torn} \cup VaPipes
      /\ call.old \in {Absent, None} \cup VaPipes
  BY <1>1, <1>2 DEF VaInv, VaShape, VaSaved
<1>4. /\ vin' \in InType /\ vin'.settings = call.old /\ vin'.selected = sel
      /\ vin'.pipelineM = m /\ vin'.payoutM = vin.payoutM /\ vin'.lost = vin.lost
  BY <1>1, <1>2, <1>3 DEF InType
<1>5. InForce' = InForce
  BY <1>2, <1>4 DEF InForce
<1>6. VaShape' /\ VaSingle' /\ VaAsked'
  BY <1>2, <1>3, <1>4 DEF VaInv, VaShape, VaSingle, VaAsked
<1>7. VaSaved'
  <2>1. vfile' \in {Absent, None, Torn} \cup VaPipes
    BY <1>2, <1>3
  <2>2. SettingsDurable'
    BY <1>2, <1>5 DEF VaInv, VaSaved, SettingsDurable
  <2>3. QED
    BY <1>2, <2>1, <2>2 DEF VaSaved
<1>8. SelectedNamed'
  BY <1>1, <1>2, <1>4, <1>5 DEF VaInv, SelectedNamed
<1>9. QED
  BY <1>1, <1>2, <1>3, <1>4, <1>6, <1>7, <1>8, VaMoves

\* The file is written, and the pipeline it names is selected if it is found.
LEMMA VaSaves == ASSUME VaInv, SaveSettings PROVE VaInv'
<1>0. PICK new : new = call.new
  OBVIOUS
<1>1. PICK sel, m : sel = vin.selected /\ m = vin.pipelineM
  OBVIOUS
<1>2. /\ vloop = "save" /\ vfile' = new /\ Saved(new)
      /\ UNCHANGED <<vctx, req, want, inC, routed, payouts>>
  BY <1>0 DEF SaveSettings
<1>3. /\ Listening(sel, m, info, payouts) /\ vin \in InType
      /\ vctx' \in {"open", "done"} /\ routed \subseteq VaPipes
      /\ Len(info) <= VaMaxInfo
      /\ new \in {None} \cup VaPipes /\ vin.settings = new
  BY <1>0, <1>1, <1>2 DEF VaInv, VaShape, VaAsked, VaSaved
<1>4. VaAsked'
  BY <1>2 DEF VaInv, VaAsked
<1>5. ASSUME vloop' # "save", vin'.settings = new PROVE VaSaved' /\ InForce' = new
  <2>1. InForce' = new
    BY <1>5 DEF InForce
  <2>2. QED
    BY <1>2, <1>3, <1>5, <2>1 DEF VaSaved, SettingsDurable
<1>6. CASE /\ new \in VaPipes \ routed
           /\ vin' = [vin EXCEPT !.lost = new] /\ Answer(call.who, FALSE)
           /\ UNCHANGED <<info, left, vstarted>>
  <2>1. /\ vin' \in InType /\ vin'.settings = new /\ vin'.selected = sel
        /\ vin'.pipelineM = m /\ vin'.payoutM = vin.payoutM /\ vin'.lost = new
    BY <1>1, <1>3, <1>6 DEF InType
  <2>2. vloop' \in {"run", "reply"}
    BY <1>6 DEF Answer
  <2>3. VaSaved' /\ InForce' = new
    BY <1>5, <2>1, <2>2
  <2>4. SelectedNamed'
    BY <1>6, <2>1, <2>3 DEF SelectedNamed
  <2>5. VaSingle'
    BY <1>6, <2>1 DEF VaInv, VaSingle
  <2>6. VaShape'
    BY <1>3, <1>6, <2>1, <2>2 DEF VaShape
  <2>7. QED
    BY <1>2, <1>3, <1>4, <1>6, <2>1, <2>3, <2>4, <2>5, <2>6, VaMoves
<1>7. CASE new = None /\ vin.selected # 0 /\ vloop' = "panic" /\ Gone
  <2>1. vfile' \in {Absent, None, Torn} \cup VaPipes
    BY <1>2, <1>3
  <2>2. QED
    BY <1>2, <1>3, <1>4, <1>7, <2>1, VaGone
<1>8. CASE /\ new \in routed \/ (new = None /\ vin.selected = 0)
           /\ Select(new) /\ Len(info') <= VaMaxInfo
           /\ vloop' = "look" /\ UNCHANGED <<left, vstarted>>
  <2>1. CASE Different(new)
    <3>1. PICK d : d = Deselect(new)
      OBVIOUS
    <3>2. PICK o : o = OnPipeline(d.m, d.list, new)
      OBVIOUS
    <3>3. /\ vin' = [vin EXCEPT !.selected = o.i, !.pipelineM = o.m]
          /\ info' = o.list
      BY <1>8, <2>1, <3>1, <3>2 DEF Select
    <3>4. new \in VaPipes
      BY <1>3, <1>8, <2>1 DEF Different
    <3>5. PICK dm, dl : dm = d.m /\ dl = d.list
      OBVIOUS
    <3>6. Listening(0, dm, dl, payouts) /\ o = OnPipeline(dm, dl, new)
      BY <3>1, <3>2, <3>5, ListenDeselect
    <3>7. /\ Listening(0, o.m, o.list, payouts)
          /\ o.m[new] = o.i /\ o.i \in 1 .. Len(o.list)
          /\ o.list[o.i].pipe = new /\ o.list[o.i].ctx = "open"
      BY <3>4, <3>6, ListenOnPipeline
    <3>8. PICK k, om, ol : k = o.i /\ om = o.m /\ ol = o.list
      OBVIOUS
    <3>9. Listening(k, om, ol, payouts)
      BY <3>7, <3>8, ListenSelect
    <3>10. om \in [VaPipes -> Nat] /\ k \in Nat /\ k # 0
      BY <3>7, <3>8, <3>9, LenProperties DEF Listening
    <3>11. /\ vin' \in InType /\ vin'.settings = new /\ vin'.selected = k
           /\ vin'.pipelineM = om /\ vin'.payoutM = vin.payoutM /\ info' = ol
      BY <1>3, <3>3, <3>8, <3>10 DEF InType
    <3>12. VaSingle'
      BY <1>2, <1>8, <3>11 DEF VaInv, VaSingle
    <3>13. VaShape'
      BY <1>3, <1>8, <3>11 DEF VaShape
    <3>14. VaSaved' /\ InForce' = new
      BY <1>5, <1>8, <3>11
    <3>15. SelectedNamed'
      <4>1. info'[vin'.selected].pipe = new
        BY <3>7, <3>8, <3>11
      <4>2. QED
        BY <3>10, <3>11, <3>14, <4>1 DEF SelectedNamed
    <3>16. QED
      BY <1>2, <1>4, <3>9, <3>11, <3>12, <3>13, <3>14, <3>15, VaMoves
  <2>2. CASE ~Different(new)
    <3>1. UNCHANGED <<vin, info>>
      BY <1>8, <2>2 DEF Select
    <3>2. VaShape' /\ VaSingle'
      BY <1>2, <1>3, <1>8, <3>1 DEF VaInv, VaShape, VaSingle
    <3>3. VaSaved' /\ InForce' = new
      BY <1>3, <1>5, <1>8, <3>1
    <3>4. IF vin.selected = 0 THEN new = None ELSE new = info[vin.selected].pipe
      BY <2>2 DEF Different
    <3>5. SelectedNamed'
      BY <3>1, <3>3, <3>4 DEF SelectedNamed
    <3>6. QED
      BY <1>1, <1>2, <1>3, <1>4, <3>1, <3>2, <3>3, <3>5, VaMoves
  <2>3. QED
    BY <2>1, <2>2
<1>9. QED
  BY <1>2, <1>6, <1>7, <1>8 DEF Saved

\* A file is loaded, a request is taken.
LEMMA VaLoads == ASSUME VaInv, config_load PROVE VaInv'
<1>1. UNCHANGED <<vctx, req, want, inC, routed, payouts>>
  BY DEF config_load
<1>2. VaAsked'
  BY <1>1 DEF VaInv, VaAsked
<1>3. CASE vfile \in {Absent, Torn}
  <2>1. /\ vloop' = "run" /\ UNCHANGED <<vin, vfile, info, left, vstarted>> /\ Saving
    BY <1>3 DEF config_load, Saving
  <2>2. VaSingle'
    BY <2>1 DEF VaInv, VaSingle
  <2>3. vctx' \in {"open", "done"}
    BY <1>1 DEF VaInv, VaShape
  <2>4. QED
    BY <1>1, <1>2, <2>1, <2>2, <2>3, VaKeeps
<1>4. CASE vfile \notin {Absent, Torn}
  <2>1. OnSettings(vfile, Boot) /\ vloop # "save"
    BY <1>4 DEF config_load
  <2>2. vfile \in {None} \cup VaPipes
    BY <1>4 DEF VaInv, VaSaved
  <2>3. QED
    BY <1>1, <1>2, <2>1, <2>2, VaOnSettings
<1>5. QED
  BY <1>3, <1>4

LEMMA VaTakes == ASSUME VaInv, TakeRequest PROVE VaInv'
<1>1. /\ inC # <<>> /\ inC' = Tail(inC) /\ OnSettings(want[Head(inC)], Head(inC))
      /\ vloop # "save"
      /\ UNCHANGED <<vctx, req, want, routed, payouts>>
  BY DEF TakeRequest
<1>2. /\ want \in [VaAdmins -> {None} \cup VaPipes] /\ routed \subseteq VaPipes
      /\ req \in [VaAdmins -> {"new", "queued", "left", "ok", "err"}]
      /\ inC \in Seq(VaAdmins) /\ NoneTwice(inC)
      /\ \A a \in VaAdmins : Within(a, inC) => req[a] # "new"
  BY DEF VaInv, VaAsked
<1>3. /\ inC' \in Seq(VaAdmins) /\ NoneTwice(inC') /\ Head(inC) \in VaAdmins
      /\ \A a \in VaAdmins : Within(a, inC') => Within(a, inC)
  BY <1>1, <1>2, TailTyped, NoneTwiceTail, WithinHead
<1>4. VaAsked'
  BY <1>1, <1>2, <1>3 DEF VaAsked
<1>5. want[Head(inC)] \in {None} \cup VaPipes
  BY <1>2, <1>3
<1>6. QED
  BY <1>1, <1>4, <1>5, VaOnSettings

\* SetDefault puts a request into the queue.
LEMMA VaSetDefault ==
  ASSUME VaInv, NEW a \in VaAdmins, SetDefault(a) PROVE VaInv'
<1>1. /\ req[a] = "new"
      /\ UNCHANGED <<vctx, vloop, vin, vfile, info, want, routed, payouts, left, vstarted>>
      /\ Saving
  BY DEF SetDefault, Saving
<1>2. /\ want \in [VaAdmins -> {None} \cup VaPipes] /\ routed \subseteq VaPipes
      /\ req \in [VaAdmins -> {"new", "queued", "left", "ok", "err"}]
      /\ inC \in Seq(VaAdmins) /\ NoneTwice(inC)
      /\ \A b \in VaAdmins : Within(b, inC) => req[b] # "new"
  BY DEF VaInv, VaAsked
<1>3. /\ inC' \in Seq(VaAdmins) /\ NoneTwice(inC')
      /\ \A b \in VaAdmins : Within(b, inC') => Within(b, inC) \/ b = a
  <2>1. CASE inC' = inC
    BY <1>2, <2>1
  <2>2. CASE inC' = Append(inC, a)
    BY <1>1, <1>2, <2>2, AppendProperties, NoneTwiceAppend, WithinAppend
  <2>3. QED
    BY <2>1, <2>2 DEF SetDefault
<1>4. /\ req' \in [VaAdmins -> {"new", "queued", "left", "ok", "err"}]
      /\ req'[a] # "new" /\ \A b \in VaAdmins : b # a => req'[b] = req[b]
  BY <1>2 DEF SetDefault
<1>5. VaAsked'
  BY <1>1, <1>2, <1>3, <1>4 DEF VaAsked
<1>6. VaSingle'
  BY <1>1 DEF VaInv, VaSingle
<1>7. QED
  BY <1>1, <1>5, <1>6, VaKeeps DEF VaInv, VaShape

\* A caller leaves or is answered.
LEMMA VaAnswered ==
  ASSUME VaInv, Reply \/ (\E a \in VaAdmins : CallerLeaves(a)) PROVE VaInv'
<1>1. /\ UNCHANGED <<vctx, vin, vfile, info, want, inC, routed, payouts, left, vstarted>>
      /\ vloop' \in {vloop, "run"} /\ Saving
      /\ \E a, s : req' = [req EXCEPT ![a] = s] /\ s \in {"left", "ok", "err"}
  <2>1. CASE Reply
    BY <2>1 DEF Reply, Saving
  <2>2. ASSUME NEW a \in VaAdmins, CallerLeaves(a) PROVE <1>1!:
    BY <2>2 DEF CallerLeaves, Saving
  <2>3. QED
    BY <2>1, <2>2
<1>2. req \in [VaAdmins -> {"new", "queued", "left", "ok", "err"}]
  BY DEF VaInv, VaAsked
<1>3. /\ req' \in [VaAdmins -> {"new", "queued", "left", "ok", "err"}]
      /\ \A b \in VaAdmins : req[b] # "new" => req'[b] # "new"
  BY <1>1, <1>2
<1>4. VaAsked'
  BY <1>1, <1>3 DEF VaInv, VaAsked
<1>5. VaSingle'
  BY <1>1 DEF VaInv, VaSingle
<1>6. QED
  BY <1>1, <1>4, <1>5, VaKeeps DEF VaInv, VaShape

\* The agent ends, the process starts again.
LEMMA VaStops == ASSUME VaInv, Restart \/ VaEnds PROVE VaInv'
<1>1. CASE Restart
  <2>1. /\ vctx' = "open" /\ vloop' = "boot" /\ inC' = <<>> /\ Gone
        /\ req' = [a \in VaAdmins |-> IF req[a] = "queued" THEN "err" ELSE req[a]]
        /\ vfile' \in {vfile, Torn} /\ UNCHANGED <<want, routed, payouts>>
    BY <1>1 DEF Restart
  <2>2. /\ <<>> \in Seq(VaAdmins) /\ NoneTwice(<<>>)
        /\ \A a \in VaAdmins : ~Within(a, <<>>)
    BY DEF NoneTwice, Within
  <2>3. VaAsked'
    BY <2>1, <2>2 DEF VaInv, VaAsked
  <2>4. QED
    BY <2>1, <2>3, VaGone DEF VaInv, VaSaved
<1>2. CASE VaEnds
  <2>1. /\ vctx' = "done" /\ vloop' = "dead" /\ Gone
        /\ UNCHANGED <<vfile, req, want, inC, routed, payouts>>
    BY <1>2 DEF VaEnds
  <2>2. VaAsked'
    BY <2>1 DEF VaInv, VaAsked
  <2>3. QED
    BY <2>1, <2>2, VaGone DEF VaInv, VaSaved
<1>3. QED
  BY <1>1, <1>2

\* A trigger becomes a transaction.
LEMMA VaEvent == ASSUME VaInv, NEW p \in VaPipes, on_event(p) PROVE VaInv'
<1>1. /\ left[p] > 0
      /\ left' = [left EXCEPT ![p] = @ - 1] /\ vstarted' = [vstarted EXCEPT ![p] = @ + 1]
      /\ UNCHANGED <<vctx, vloop, vin, vfile, info, req, want, inC, routed, payouts>>
      /\ Saving
  BY DEF on_event, Saving
<1>2. left \in [VaPipes -> Nat] /\ vstarted \in [VaPipes -> Nat]
  BY DEF VaInv, VaSingle
<1>3. /\ left' \in [VaPipes -> Nat] /\ left'[p] = left[p] - 1
      /\ \A q \in VaPipes : q # p => left'[q] = left[q]
  BY <1>1, <1>2
<1>4. /\ vstarted' \in [VaPipes -> Nat] /\ vstarted'[p] = vstarted[p] + 1
      /\ \A q \in VaPipes : q # p => vstarted'[q] = vstarted[q]
  BY <1>1, <1>2
<1>5. ASSUME NEW q \in VaPipes
      PROVE  /\ left'[q] + vstarted'[q] = left[q] + vstarted[q]
             /\ q \notin vin.payoutM => left'[q] = 0 /\ vstarted'[q] = 0
  <2>1. CASE q = p
    <3>1. q \in vin.payoutM
      BY <1>1, <2>1 DEF VaInv, VaSingle
    <3>2. QED
      BY <1>2, <1>3, <1>4, <2>1, <3>1
  <2>2. CASE q # p
    BY <1>3, <1>4, <2>2 DEF VaInv, VaSingle
  <2>3. QED
    BY <2>1, <2>2
<1>6. VaSingle'
  BY <1>1, <1>3, <1>4, <1>5 DEF VaInv, VaSingle
<1>7. VaAsked'
  BY <1>1 DEF VaInv, VaAsked
<1>8. QED
  BY <1>1, <1>6, <1>7, VaKeeps DEF VaInv, VaShape

\* The other steps change nothing that the invariant is about.
LEMMA VaOthers ==
  ASSUME VaInv,
         \/ VaDone \/ SlotsEnd \/ TaskFails \/ LookEnds \/ UNCHANGED vaVars
         \/ \E p \in VaPipes : ChainClosesPipeline(p)
  PROVE  VaInv'
<1>1. /\ UNCHANGED <<vin, vfile, info, req, want, inC, payouts, left, vstarted>>
      /\ vctx' \in {vctx, "done"} /\ routed' \subseteq routed
      /\ vloop' \in {vloop, "run", "reply"} /\ Saving
  BY DEF VaDone, SlotsEnd, TaskFails, LookEnds, vaVars, ChainClosesPipeline, Answer, Saving
<1>2. VaAsked' /\ VaSingle'
  BY <1>1 DEF VaInv, VaAsked, VaSingle
<1>3. QED
  BY <1>1, <1>2, VaKeeps DEF VaInv, VaShape

\* The invariant of the validator agent.
THEOREM VaInvariance == VaSpec => []VaInv
<1>1. VaInv /\ [VaNext]_vaVars => VaInv'
  <2> SUFFICES ASSUME VaInv, [VaNext]_vaVars PROVE VaInv'
    OBVIOUS
  <2>1. ASSUME NEW p \in VaPipes, ChainPayout(p) \/ LookSend(p) \/ on_event(p)
        PROVE  VaInv'
    BY <2>1, VaChainPayout, VaLookSend, VaEvent
  <2>2. ASSUME NEW i \in DOMAIN info, VaInfo(i) PROVE VaInv'
    BY <2>2, VaInfoSteps, VaOnPayout DEF VaInfo
  <2>3. ASSUME NEW a \in VaAdmins, SetDefault(a) PROVE VaInv'
    BY <2>3, VaSetDefault
  <2>4. CASE Reply \/ (\E a \in VaAdmins : CallerLeaves(a))
    BY <2>4, VaAnswered
  <2>5. CASE config_load \/ TakeRequest
    BY <2>5, VaLoads, VaTakes
  <2>6. CASE Restart \/ VaEnds
    BY <2>6, VaStops
  <2>7. CASE \/ VaDone \/ SlotsEnd \/ TaskFails \/ LookEnds \/ UNCHANGED vaVars
             \/ \E p \in VaPipes : ChainClosesPipeline(p)
    BY <2>7, VaOthers
  <2>8. CASE SaveFails \/ SaveSettings
    BY <2>8, VaSaveFails, VaSaves
  <2>9. QED
    BY <2>1, <2>2, <2>3, <2>4, <2>5, <2>6, <2>7, <2>8 DEF VaNext
<1>2. QED
  BY <1>1, VaInitInv, PTL DEF VaSpec

\* The settings in force are the ones in the file, or the file cannot be read
\* since a save was cut off; the pipeline they name is the selected one, unless
\* the router did not know it; and the selected one is listened to
\* (agent/validator on_settings, config_save, config_load).
THEOREM SettingsAreInForce == VaSpec => []SettingsInForce
<1>1. VaInv => SettingsInForce
  <2> SUFFICES ASSUME VaInv PROVE SettingsInForce
    OBVIOUS
  <2>1. Listening(vin.selected, vin.pipelineM, info, payouts)
    BY DEF VaInv
  <2>2. /\ vin.selected \in 0 .. Len(info) /\ SelectedListens
    BY <2>1 DEF Listening, SelectedListens
  <2>3. ASSUME NEW i \in DOMAIN info
        PROVE  info[i].look \in 0 .. 1 /\ info[i].feed \in 0 .. 1
    BY InfoOf DEF Info
  <2>4. VaTypeOK
    BY <2>2, <2>3 DEF VaInv, VaShape, VaSaved, VaAsked, VaTypeOK, InType, NoneTwice
  <2>5. QED
    BY <2>2, <2>4 DEF VaInv, VaSaved, SettingsInForce
<1>2. QED
  BY <1>1, VaInvariance, PTL

\* Each trigger starts one transaction, however often its payout is reported
\* (on_payout of agent/pipeline and agent/validator).
THEOREM TriggersStartOneTask == PaSpec /\ VaSpec => []OneTaskPerTrigger
<1>1. PaInv /\ VaInv => OneTaskPerTrigger
  <2> SUFFICES ASSUME PaInv, VaInv PROVE OneTaskPerTrigger
    OBVIOUS
  <2>1. OneSetPayout
    BY DEF VaInv, VaSingle, OneSetPayout
  <2>2. QED
    BY <2>1 DEF PaInv, OneTaskPerTrigger
<1>2. QED
  BY <1>1, PaInvariance, VaInvariance, PTL

=============================================================================
