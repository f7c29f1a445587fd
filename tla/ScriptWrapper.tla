--------------------------- MODULE ScriptWrapper ---------------------------
(***************************************************************************)
(* The wrapper of src/script/wrap.go: one goroutine owns the Script and    *)
(* runs the callbacks of many senders one after the other; a sender tries  *)
(* its callback up to MaxTries times, until it succeeds or the context of  *)
(* its task is done.  A callback is SetTx, some builders and FinishTx, as  *)
(* the agents write it; it may die in the middle.                          *)
(***************************************************************************)
EXTENDS ScriptBuilder, FiniteSets

CONSTANTS
    Senders,     \* goroutines that call Send
    Programs,    \* assignments of callbacks, sequences of builders, to the
                 \* senders; <<>> for a sender that does not call
    MaxTries,    \* maxTries
    WQueueCap    \* capacity of internalC (10)

Idle == "idle"

ASSUME ScriptWrapperAssumption ==
    /\ Idle \notin Senders /\ IsFiniteSet(Senders)
    /\ Programs \subseteq [Senders -> Seq(BuilderNames)]
    /\ MaxTries \in Nat \ {0} /\ WQueueCap \in Nat

VARIABLES
    wctx,      \* context of the wrapper: "open", "done"
    wloop,     \* loopInternal: "run", "dead"
    tctx,      \* context of each task
    prog,      \* the callback of each sender
    snd,       \* where Send is: "new", "put", "wait", "delay", "ret", "end"
    tries,     \* the variable i
    result,    \* the variable err: "none", "ok", "err"
    resC,      \* errorC of each Send, capacity 1
    queue,     \* internalC
    cur,       \* the sender whose callback runs, or Idle
    step,      \* progress of the callback
    scr,       \* the Script
    scrCtx,    \* script.ctx: the sender whose context it is
    staleTx,   \* (history) an attempt met the transaction of another one
    wire,      \* the transaction that WaitSig waits for
    confirmed, \* (history) successful attempts of each sender
    signal     \* errors that ErrorNonNil has passed on

wrapVars == <<wctx, wloop, tctx, prog, snd, tries, result, resC, queue, cur,
              step, scr, scrCtx, staleTx, wire, confirmed, signal>>

WInit ==
    /\ wctx = "open" /\ wloop = "run"
    /\ tctx = [s \in Senders |-> "open"]
    /\ prog \in Programs
    /\ snd = [s \in Senders |-> IF prog[s] = <<>> THEN "end" ELSE "new"]
    /\ tries = [s \in Senders |-> 0]
    /\ result = [s \in Senders |-> "none"]
    /\ resC = [s \in Senders |-> <<>>]
    /\ queue = <<>>
    /\ cur = Idle /\ step = 0
    /\ scr = NewScript /\ scrCtx = Idle
    /\ staleTx = FALSE
    /\ wire = NewScript
    /\ confirmed = [s \in Senders |-> 0]
    /\ signal = 0

Moves(s, to) == snd' = [snd EXCEPT ![s] = to]

TaskDone(s) ==
    /\ tctx[s] = "open"
    /\ tctx' = [tctx EXCEPT ![s] = "done"]
    /\ UNCHANGED <<wctx, wloop, prog, snd, tries, result, resC, queue, cur,
                   step, scr, scrCtx, staleTx, wire, confirmed, signal>>

WrapperDone ==
    /\ wctx = "open"
    /\ wctx' = "done"
    /\ UNCHANGED <<wloop, tctx, prog, snd, tries, result, resC, queue, cur,
                   step, scr, scrCtx, staleTx, wire, confirmed, signal>>

-----------------------------------------------------------------------------
(* Send.                                                                   *)

SendStart(s) ==
    /\ snd[s] = "new"
    /\ Moves(s, "put")
    /\ UNCHANGED <<wctx, wloop, tctx, prog, tries, result, resC, queue, cur,
                   step, scr, scrCtx, staleTx, wire, confirmed, signal>>

\* w.internalC <- func(in) { errorC <- in.run(taskCtx, cb) }
SendPut(s) ==
    /\ snd[s] = "put" /\ Len(queue) < WQueueCap
    /\ queue' = Append(queue, s)
    /\ Moves(s, "wait")
    /\ UNCHANGED <<wctx, wloop, tctx, prog, tries, result, resC, cur, step,
                   scr, scrCtx, staleTx, wire, confirmed, signal>>

\* err = <-errorC
SendResult(s) ==
    /\ snd[s] = "wait" /\ resC[s] # <<>>
    /\ result' = [result EXCEPT ![s] = Head(resC[s])]
    /\ resC' = [resC EXCEPT ![s] = <<>>]
    /\ Moves(s, IF Head(resC[s]) = "ok" THEN "ret" ELSE "delay")
    /\ UNCHANGED <<wctx, wloop, tctx, prog, tries, queue, cur, step, scr,
                   scrCtx, staleTx, wire, confirmed, signal>>

\* <-time.After(delay), i++
SendDelay(s) ==
    /\ snd[s] = "delay"
    /\ tries' = [tries EXCEPT ![s] = @ + 1]
    /\ Moves(s, IF tries'[s] < MaxTries THEN "put" ELSE "ret")
    /\ UNCHANGED <<wctx, wloop, tctx, prog, result, resC, queue, cur, step,
                   scr, scrCtx, staleTx, wire, confirmed, signal>>

\* Mutant: the end of the wrapper is not noticed.
SendStopsTask(s) ==
    /\ snd[s] \in {"put", "wait", "delay"}
    /\ tctx[s] = "done" /\ UNCHANGED result
    /\ Moves(s, "ret")
    /\ UNCHANGED <<wctx, wloop, tctx, prog, tries, resC, queue, cur, step,
                   scr, scrCtx, staleTx, wire, confirmed, signal>>

\* <-doneC gives an error, <-taskEarlyTerminateC what err holds.
SendStops(s) ==
    /\ snd[s] \in {"put", "wait", "delay"}
    /\ \/ wctx = "done" /\ result' = [result EXCEPT ![s] = "err"]
       \/ tctx[s] = "done" /\ UNCHANGED result
    /\ Moves(s, "ret")
    /\ UNCHANGED <<wctx, wloop, tctx, prog, tries, resC, queue, cur, step,
                   scr, scrCtx, staleTx, wire, confirmed, signal>>

\* loopSend and loopErrorNonNill: only an error reaches the agent, unless
\* the wrapper's context is done.
Relay(s) ==
    /\ snd[s] = "ret"
    /\ Moves(s, "end")
    /\ signal' \in (IF result[s] = "err" THEN {signal + 1} ELSE {signal})
                     \cup (IF wctx = "done" THEN {signal} ELSE {})
    /\ UNCHANGED <<wctx, wloop, tctx, prog, tries, result, resC, queue, cur,
                   step, scr, scrCtx, staleTx, wire, confirmed>>

-----------------------------------------------------------------------------
(* loopInternal and the callback it runs.                                  *)

\* Mutant: run does not clear the builder.
runKeeps(s) ==
    /\ scr' = scr
    /\ scrCtx' = s

\* Mutant: run does not install the context of the task.
runOldContext(s) ==
    /\ scr' = Cleared(scr)
    /\ scrCtx' = IF scrCtx = Idle THEN s ELSE scrCtx

\* run: txBuilder = nil, ctx = taskCtx; the key map stays.
run(s) ==
    /\ scr' = Cleared(scr)
    /\ scrCtx' = s

LoopTake ==
    /\ wloop = "run" /\ cur = Idle /\ queue # <<>>
    /\ cur' = Head(queue) /\ queue' = Tail(queue)
    /\ run(cur')
    /\ step' = 0
    /\ UNCHANGED <<wctx, wloop, tctx, prog, snd, tries, result, resC, staleTx,
                   wire, confirmed, signal>>

LoopEnds ==
    /\ wloop = "run" /\ cur = Idle /\ wctx = "done"
    /\ wloop' = "dead"
    /\ UNCHANGED <<wctx, tctx, prog, snd, tries, result, resC, queue, cur,
                   step, scr, scrCtx, staleTx, wire, confirmed, signal>>

\* The callback returns: errorC <- result.
Returns(r) ==
    /\ resC[cur] = <<>>
    /\ resC' = [resC EXCEPT ![cur] = <<r>>]
    /\ cur' = Idle
    /\ step' = 0

\* script.SetTx(payer) and then each builder of the callback.
CallbackStep ==
    /\ cur # Idle /\ step \in 0 .. Len(prog[cur])
    /\ \E o \in (IF step = 0 THEN {SetTx(scr, "payer")}
                 ELSE Build(prog[cur][step], scr)) :
        /\ scr' = o.s
        /\ IF o.ok THEN step' = step + 1 /\ UNCHANGED <<cur, resC>>
           ELSE Returns("err")
        /\ staleTx' = (staleTx \/ (step = 0 /\ ~o.ok))
    /\ UNCHANGED <<wctx, wloop, tctx, prog, snd, tries, result, queue, scrCtx,
                   wire, confirmed, signal>>

\* FinishTx up to the signature: SetBlockHash, Build and Sign may fail and
\* leave the builder.
FinishFails ==
    /\ cur # Idle /\ step = Len(prog[cur]) + 1
    /\ Returns("err")
    /\ UNCHANGED <<wctx, wloop, tctx, prog, snd, tries, result, queue, scr,
                   scrCtx, staleTx, wire, confirmed, signal>>

\* FinishTx: signed, the builder cleared, submitted.  The RPC refuses when
\* the context of the script is done.
FinishTx ==
    /\ cur # Idle /\ step = Len(prog[cur]) + 1
    /\ Signed(scr)
    /\ tctx[scrCtx] = "open"
    /\ wire' = scr
    /\ scr' = NewScript
    /\ step' = step + 1
    /\ UNCHANGED <<wctx, wloop, tctx, prog, snd, tries, result, resC, queue,
                   cur, scrCtx, staleTx, confirmed, signal>>

\* The callback is in WaitSig, which has no timeout.
AwaitsSig == cur # Idle /\ step = Len(prog[cur]) + 2

\* WaitSig is answered: confirmed, refused, or no news because the
\* subscription fails or closes although the transaction may have landed.
\* Nothing makes the answer come: it never does for a transaction that the
\* chain has dropped.
WaitSig ==
    /\ AwaitsSig
    /\ \/ /\ Returns("ok")
          /\ confirmed' = [confirmed EXCEPT ![cur] = @ + 1]
       \/ Returns("err") /\ UNCHANGED confirmed
    /\ wire' = NewScript
    /\ UNCHANGED <<wctx, wloop, tctx, prog, snd, tries, result, queue, scr,
                   scrCtx, staleTx, signal>>

\* WaitSig: <-ctx.Done(), the context of the script.
WaitCanceled ==
    /\ AwaitsSig /\ tctx[scrCtx] = "done"
    /\ Returns("err")
    /\ wire' = NewScript
    /\ UNCHANGED <<wctx, wloop, tctx, prog, snd, tries, result, queue, scr,
                   scrCtx, staleTx, confirmed, signal>>

-----------------------------------------------------------------------------
SendNext(s) ==
    SendStart(s) \/ SendPut(s) \/ SendResult(s) \/ SendDelay(s)
        \/ SendStops(s) \/ Relay(s)

LoopRun ==
    LoopTake \/ LoopEnds \/ CallbackStep \/ FinishFails \/ FinishTx
        \/ WaitCanceled

LoopNext == LoopRun \/ WaitSig

WNext ==
    \/ \E s \in Senders : TaskDone(s) \/ SendNext(s)
    \/ WrapperDone
    \/ LoopNext

\* What must not stop: goroutines that can run.  The answer of WaitSig is
\* not among them.  No step can be repeated for ever, so fairness of WRun is
\* fairness of each of its steps.
WRun ==
    \/ LoopRun
    \/ \E s \in Senders :
        \/ SendStart(s) \/ SendPut(s) \/ SendResult(s) \/ SendDelay(s)
        \/ SendStops(s) \/ Relay(s)

WSpec == WInit /\ [][WNext]_wrapVars /\ WF_wrapVars(WRun)

-----------------------------------------------------------------------------
WTypeOK ==
    /\ wctx \in {"open", "done"} /\ wloop \in {"run", "dead"}
    /\ snd \in [Senders -> {"new", "put", "wait", "delay", "ret", "end"}]
    /\ tries \in [Senders -> 0 .. MaxTries]
    /\ result \in [Senders -> {"none", "ok", "err"}]
    /\ \A s \in Senders : Len(resC[s]) <= 1
    /\ Len(queue) <= WQueueCap
    /\ cur \in Senders \cup {Idle}
    /\ signal \in 0 .. Cardinality(Senders)

\* What an attempt leaves behind when it dies half way never disturbs the
\* next one: SetTx never meets an open builder, and a transaction is signed
\* with the keys of the accounts that its instructions name and no others.
FreshBuilder ==
    /\ ~staleTx
    /\ wire.open => wire.keys = Signers(wire)

\* A result finds room in errorC, so that the loop never blocks on a sender
\* that has left; and Send says what happened: an attempt that succeeded is
\* the last one, Send returns an error only if none succeeded and nil only
\* if one did or the task's context is done.
SendSays ==
    /\ cur # Idle => resC[cur] = <<>>
    /\ \A s \in Senders :
        /\ confirmed[s] <= 1
        /\ snd[s] \in {"ret", "end"} =>
            /\ result[s] = "ok" => confirmed[s] = 1
            /\ result[s] = "none" => tctx[s] = "done" \/ prog[s] = <<>>
            /\ result[s] = "err" /\ wctx = "open" => confirmed[s] = 0 \/ tctx[s] = "done"

\* What an attempt leaves behind never disturbs the next one, and Send says
\* what happened.  The variables of the wrapper keep their types meanwhile.
SendTruthful == WTypeOK /\ FreshBuilder /\ SendSays

\* No transaction is submitted for a task whose context is done, although
\* its callback may still be queued when Send returns.
NothingAfterCancel ==
    [][wire'.open /\ ~wire.open => tctx[cur] = "open"]_wrapVars

\* Every Send whose task or wrapper is told to stop returns, whatever the
\* loop is waiting for.  The others return unless the loop stays in one
\* WaitSig for ever: then the Send of that attempt, and every Send queued
\* behind it, waits until its own context is done, because nothing else ends
\* the wait for the signature.
SendReturns ==
    /\ \A s \in Senders :
        (snd[s] = "put" /\ (tctx[s] = "done" \/ wctx = "done")) ~> (snd[s] = "end")
    /\ []<>~AwaitsSig => \A s \in Senders : (snd[s] = "put") ~> (snd[s] = "end")
=============================================================================
