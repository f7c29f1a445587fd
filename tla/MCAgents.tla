------------------------------ MODULE MCAgents ------------------------------
(* The agents, the goroutine that cranks a payout, and the way agents are  *)
(* closed, in one run: `which' is the one that moves, the others stay in   *)
(* an initial state.                                                       *)
EXTENDS Agents

CONSTANT Parts     \* components checked

VARIABLE which

\* A ring of one short period and one of two.
Period(s, l) == [start |-> s, len |-> l]
MCRings == {<<Period(1, 1)>>, <<Period(1, 2), Period(3, 2)>>}

\* The first start, when there is no file, and a second one after pipeline A
\* was chosen; the two callers ask for different pipelines, or for none.
\* Pipeline C may be closed.
MCStarts ==
    {[file |-> "absent", payouts |-> {"A"}, routed |-> {"C"},
      want |-> [a |-> "C", b |-> "none"], lives |-> 1],
     [file |-> "A", payouts |-> {"A", "C"}, routed |-> {"A", "B"},
      want |-> [a |-> "B", b |-> "A"], lives |-> 2]}

mcVars == <<which, crankVars, cpVars, paVars, vaVars, closeVars>>

MCInit ==
    /\ which \in Parts
    /\ KInit /\ CpInit /\ PaInit /\ VaInit /\ AcInit
    /\ which # "cranker" => kfunds
    /\ which # "task" => time = 0
    /\ which # "pipeline" => exists = {}
    /\ which # "validator" => lives = 1
    /\ which # "close" => agent = "staker"

MCNext ==
    /\ UNCHANGED which
    /\ \/ /\ which = "cranker" /\ KNext
          /\ UNCHANGED <<cpVars, paVars, vaVars, closeVars>>
       \/ /\ which = "task" /\ CpNext
          /\ UNCHANGED <<crankVars, paVars, vaVars, closeVars>>
       \/ /\ which = "pipeline" /\ PaNext
          /\ UNCHANGED <<crankVars, cpVars, vaVars, closeVars>>
       \/ /\ which = "validator" /\ VaNext
          /\ UNCHANGED <<crankVars, cpVars, paVars, closeVars>>
       \/ /\ which = "close" /\ AcNext
          /\ UNCHANGED <<crankVars, cpVars, paVars, vaVars>>

\* The fairness of each component, for the behaviours in which it moves.
MCSpec ==
    /\ MCInit /\ [][MCNext]_mcVars
    /\ WF_crankVars(which = "cranker" /\ KCreate)
    /\ WF_crankVars(which = "cranker" /\ KLoop)
    /\ WF_crankVars(which = "cranker" /\ KWorker)
    /\ WF_crankVars(which = "cranker" /\ kctx = "done" /\ KEnds)
    /\ WF_cpVars(which = "task" /\ CpRun)
    /\ WF_paVars(which = "pipeline" /\ PaSubscribe)
    /\ WF_paVars(which = "pipeline" /\ PaList)
    /\ WF_paVars(which = "pipeline" /\ LookPasses)
    /\ WF_paVars(which = "pipeline" /\ SchedulerTakesLook)
    /\ SF_paVars(which = "pipeline" /\ PaOnPayout)
    /\ SF_paVars(which = "pipeline" /\ PaEnds("error"))
    /\ SF_paVars(which = "pipeline" /\ PaEnds("done"))
    /\ WF_vaVars(which = "validator" /\ VaRun)
    /\ WF_closeVars(which = "close" /\ AcLoop)
    /\ \A c \in Closers : WF_closeVars(which = "close" /\ AcRun(c))

-----------------------------------------------------------------------------
\* What an agent started ends: the cranker once its context is done, even if
\* loopInternal and loopCrank wait for each other; CrankPayout and its helper
\* once the context of the task is done; the pipeline agent after an error;
\* and the callers of CloseSignal hear of the end.  The exceptions are waits
\* that the code can reach, and each component names its own: a call on an
\* object that has ended, a send to oneself, a closure nobody will run.
\* Since `which' does not change, this is CrankerEnds, CrankPayoutEnds,
\* ErrorEndsAgent and CallersServed, each of its own component.
EndDue ==
    \/ which = "cranker" /\ kctx = "done"
    \/ which = "task" /\ CpDue
    \/ which = "pipeline" /\ PaDue
    \/ which = "close" /\ \E c \in Closers : AcDue(c)
Ended ==
    \/ which = "cranker" /\ KOver
    \/ which = "task" /\ CpOver
    \/ which = "pipeline" /\ PaOver
    \/ which = "close" /\ \A c \in Closers : AcServed(c)
AgentsEnd == EndDue ~> Ended

\* As long as they live the agents serve: the cranker comes to the end of
\* each slot, every payout gets a scheduler of the pipeline agent, and the
\* callers of SetDefault get their answers; each unless its loopInternal is
\* in one of the deadlocks that KWedged, PaStuck and Wedged describe.  This
\* is CrankerServes, PayoutsScheduled and SettingsAnswered.
ServeDue ==
    \/ which = "cranker" /\ kloop = "slot"
    \/ which = "pipeline" /\ exists # {}
    \/ which = "validator" /\ \E a \in VaAdmins : req[a] = "queued"
Served ==
    \/ which = "cranker" /\ KServed
    \/ which = "pipeline" /\ PaServed
    \/ which = "validator" /\ VaServed
=============================================================================
