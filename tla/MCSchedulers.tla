---------------------------- MODULE MCSchedulers ----------------------------
(* The schedulers, the wrapper and the linked list in one run: `which' is  *)
(* the one that moves, the others stay in an initial state.                *)
EXTENDS Schedulers, ListHeap

VARIABLE which

\* Two callbacks of the agents side by side, and each builder alone.
Both(f, g) == [s \in Senders |-> IF s = "s1" THEN f ELSE g]
MCPrograms ==
    {Both(runCrank, RunClosePayout)}
        \cup {Both(f, <<>>) : f \in Callbacks}
        \cup {Both(<<b>>, <<>>) : b \in BuilderNames}

mcVars == <<which, vars, skVars, rsVars, wrapVars, listVars>>

MCInit ==
    /\ which \in {"validator", "staker", "receipt", "script", "list"}
    /\ Init /\ SkInit /\ RsInit /\ WInit /\ ListInit
    /\ which # "validator" =>
          phase = PRE /\ receipt = "none" /\ feed = ClockFeed /\ errQ = <<>>
    /\ which # "receipt" => rsChain = [sent |-> 0, signed |-> 0]
    /\ which # "script" => prog = Both(runCrank, <<>>)

MCNext ==
    /\ UNCHANGED which
    /\ \/ /\ which = "validator" /\ Next
          /\ UNCHANGED <<skVars, rsVars, wrapVars, listVars>>
       \/ /\ which = "staker" /\ SkNext
          /\ UNCHANGED <<vars, rsVars, wrapVars, listVars>>
       \/ /\ which = "receipt" /\ RsNext
          /\ UNCHANGED <<vars, skVars, wrapVars, listVars>>
       \/ /\ which = "script" /\ WNext
          /\ UNCHANGED <<vars, skVars, rsVars, listVars>>
       \/ /\ which = "list" /\ ListNext
          /\ UNCHANGED <<vars, skVars, rsVars, wrapVars>>

\* The fairness of each component, for the behaviours in which it moves.
MCSpec ==
    /\ MCInit /\ [][MCNext]_mcVars
    /\ WF_vars(which = "validator" /\ Run)
    /\ WF_skVars(which = "staker" /\ SkRun)
    /\ WF_wrapVars(which = "script" /\ WRun)

-----------------------------------------------------------------------------
\* What happens on the chain while a scheduler sets up its followers is not
\* missed: the staker receipt is noticed whether the subscription or the
\* listing reports it, and the last staker that leaves lets the validator
\* withdraw.
EventsNoticed == WithdrawTriggered /\ AddedNoticed
=============================================================================
