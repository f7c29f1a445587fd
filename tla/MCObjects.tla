------------------------------ MODULE MCObjects ------------------------------
(* The router, and the state objects it makes: the pipeline, the validator *)
(* with its receipts, and the receipts with their stakers.  They share     *)
(* runs: `which' is the one that moves, the others stay in an initial      *)
(* state.  The stakers of a receipt and the index of the validator do not  *)
(* meet, so the validator's receipts have no stakers.                      *)
EXTENDS Objects

CONSTANT Parts   \* the components checked

VARIABLE which

(* One account of each type, and the references between them.              *)
MCKind == [pipe |-> "pipeline", ring |-> "periodRing", pay |-> "payout",
           bids |-> "bidList", val |-> "validator", rcpt |-> "receipt",
           skr |-> "staker", srcpt |-> "stakerReceipt", refund |-> "refund"]
MCAccounts == DOMAIN MCKind
MCRefers == {<<"ring", "pipe">>, <<"refund", "pipe">>, <<"pay", "pipe">>,
             <<"bids", "pay">>, <<"rcpt", "pay">>, <<"rcpt", "val">>,
             <<"srcpt", "rcpt">>, <<"srcpt", "skr">>}
\* Accounts open at the start: few, so that the others are created later.
MCChain0 == {{"pipe", "val"}, {"pipe", "val", "pay", "rcpt"}}
MCStakeChain0 == {{"pipe", "val", "pay", "skr"}}

MCStart == [p1 |-> 1, p2 |-> 2, p3 |-> 3]
MCRefunds == <<[user |-> "a", balance |-> 1]>>
\* Both receipts belong to one payout: the second replaces the first.
MCPayoutOf == [r1 |-> "p1", r2 |-> "p1"]
MCStake == [m1 |-> 1, m2 |-> 2]

mcVars == <<which, vars, pipelineVars, vdVars>>

MCInit ==
    /\ which \in Parts
    /\ Init /\ PpInit /\ VdInit
    /\ which # "router" => {a \in Accounts : chain[a] = 1} = {"pipe", "val"}
    /\ which # "pipeline" => pRing = "p1"

MCNext ==
    /\ UNCHANGED which
    /\ \/ which = "router" /\ Next /\ UNCHANGED <<pipelineVars, vdVars>>
       \/ which = "pipeline" /\ PpNext /\ UNCHANGED <<vars, vdVars>>
       \/ /\ which = "validator" /\ VdNext
          /\ UNCHANGED <<vars, pipelineVars, rstaker>>
       \/ /\ which = "receipt" /\ ReceiptNext
          /\ UNCHANGED <<vars, pipelineVars, validatorVars>>

MCSpec == MCInit /\ [][MCNext]_mcVars
=============================================================================
