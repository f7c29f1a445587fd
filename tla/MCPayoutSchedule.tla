-------------------------- MODULE MCPayoutSchedule --------------------------
(* Start states of the payout scheduler for the TLC runs: a fresh payout,  *)
(* and payouts found half way through their life when an agent restarts.   *)
EXTENDS PayoutSchedule

Fresh == {[open |-> TRUE, val |-> 0, stk |-> 0]}
Restarted == Fresh \cup
    {[open |-> TRUE, val |-> 1, stk |-> 1], [open |-> FALSE, val |-> 1, stk |-> 0]}
=============================================================================
