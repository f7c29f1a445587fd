---------------------------- MODULE StakerState ----------------------------
(***************************************************************************)
(* The state object of a staker (src/state/staker): the manager account    *)
(* and the staker's receipts, each under the id of its own account and     *)
(* under the validator receipt that it supports.  The program feed reports *)
(* no closing of a staker receipt, so the branch of loopInternal that      *)
(* takes one out of the indexes is not reached.                            *)
(***************************************************************************)
EXTENDS Naturals, Sequences, FiniteSets

CONSTANTS
    Receipts,    \* validator receipts; StakerReceiptId is injective in them
    Mine,        \* the receipt that the subscriptions ask for
    Clients,     \* goroutines that subscribe to the receipt
    SkStreamCap, \* capacity of a subscription and of the two data channels
    MaxStakerUpdate   \* bound on the updates by the router

ASSUME StakerAssumption ==
    /\ Mine \in Receipts /\ {"open", "withdraw"} \subseteq Clients
    /\ SkStreamCap \in Nat /\ MaxStakerUpdate \in Nat

VARIABLES
    sctx,      \* "open", "closed"
    sloop,     \* loopInternal: "run", "dead"
    managerC,  \* dataStakerManagerC: is the account open?
    receiptC,  \* dataStakerReceiptC: receipts
    known,     \* the keys of dataReceiptByReceipt and of dataReceiptById
    supdates,  \* number of updates by the router
    ssub       \* OnReceipt(Mine) of each client: state, queue, ErrorC

stakerVars == <<sctx, sloop, managerC, receiptC, known, supdates, ssub>>

NoSub == [st |-> "none", queue |-> 0, err |-> "empty"]

\* CreateStake
StakerInit ==
    /\ sctx = "open" /\ sloop = "run"
    /\ managerC = <<>> /\ receiptC = <<>>
    /\ known = {}
    /\ supdates = 0
    /\ ssub = [c \in Clients |-> NoSub]

\* Staker.Update
StakerUpdate(open) ==
    /\ supdates < MaxStakerUpdate /\ Len(managerC) < SkStreamCap
    /\ supdates' = supdates + 1
    /\ managerC' = Append(managerC, open)
    /\ UNCHANGED <<sctx, sloop, receiptC, known, ssub>>

\* Staker.UpdateReceipt
StakerUpdateReceipt(r) ==
    /\ supdates < MaxStakerUpdate /\ Len(receiptC) < SkStreamCap
    /\ supdates' = supdates + 1
    /\ receiptC' = Append(receiptC, r)
    /\ UNCHANGED <<sctx, sloop, managerC, known, ssub>>

StakerClose ==
    /\ sctx = "open"
    /\ sctx' = "closed"
    /\ UNCHANGED <<sloop, managerC, receiptC, known, supdates, ssub>>

\* finish and the deferred Close of the homes
SubEnded(s) == IF s.st = "on" THEN [s EXCEPT !.err = "nil", !.st = "off"] ELSE s

StakerFinish ==
    /\ sloop = "run" /\ sctx = "closed"
    /\ sloop' = "dead"
    /\ ssub' = [c \in Clients |-> SubEnded(ssub[c])]
    /\ UNCHANGED <<sctx, managerC, receiptC, known, supdates>>

\* <-dataStakerManagerC: a closed account ends the loop.
StakerOnManager ==
    /\ sloop = "run" /\ managerC # <<>>
    /\ managerC' = Tail(managerC)
    /\ IF Head(managerC)
       THEN UNCHANGED <<sloop, sctx, ssub>>
       ELSE /\ sloop' = "dead" /\ sctx' = "closed"
            /\ ssub' = [c \in Clients |-> SubEnded(ssub[c])]
    /\ UNCHANGED <<receiptC, known, supdates>>

\* The broadcast to a subscriber, evicted when its stream is full.
Told(s) == IF s.st # "on" THEN s
           ELSE IF s.queue < SkStreamCap THEN [s EXCEPT !.queue = @ + 1]
           ELSE [s EXCEPT !.st = "off", !.err = "full"]

\* Mutant: the receipt is indexed without telling the subscribers.
StakerOnReceiptQuiet ==
    /\ sloop = "run" /\ receiptC # <<>>
    /\ receiptC' = Tail(receiptC)
    /\ known' = known \cup {Head(receiptC)}
    /\ UNCHANGED <<sctx, sloop, managerC, supdates, ssub>>

\* <-dataStakerReceiptC
StakerOnReceipt ==
    /\ sloop = "run" /\ receiptC # <<>>
    /\ receiptC' = Tail(receiptC)
    /\ known' = known \cup {Head(receiptC)}
    /\ ssub' = IF Head(receiptC) = Mine THEN [c \in Clients |-> Told(ssub[c])] ELSE ssub
    /\ UNCHANGED <<sctx, sloop, managerC, supdates>>

\* stakerReceiptHome.Receive
StakerReceive(c) ==
    /\ sloop = "run" /\ ssub[c].st = "asked"
    /\ ssub' = [ssub EXCEPT ![c].st = "on"]
    /\ UNCHANGED <<sctx, sloop, managerC, receiptC, known, supdates>>

StakerNext ==
    \/ \E b \in BOOLEAN : StakerUpdate(b)
    \/ \E r \in Receipts : StakerUpdateReceipt(r)
    \/ StakerClose \/ StakerFinish \/ StakerOnManager \/ StakerOnReceipt
    \/ \E c \in Clients : StakerReceive(c)

StakerTypeOK ==
    /\ sctx \in {"open", "closed"} /\ sloop \in {"run", "dead"}
    /\ known \subseteq Receipts
    /\ ssub \in [Clients -> [st : {"none", "asked", "on", "off"},
                             queue : 0 .. SkStreamCap,
                             err : {"empty", "nil", "full"}]]
=============================================================================
